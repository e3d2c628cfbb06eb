--------------------------- MODULE Service_proofs ---------------------------
(***************************************************************************)
(* Proofs about Service, for any number of Ingresses, groups, domains,     *)
(* failures and restarts: type correctness, at most one distribution per   *)
(* group, and that nothing is deleted while ENABLE_DELETION is off.        *)
(***************************************************************************)
EXTENDS Service, Route53_proofs

-----------------------------------------------------------------------------
(* Helpers                                                                 *)

LEMMA NormalizeType ==
  ASSUME NEW ds \in SUBSET Domains
  PROVE  NormalizeDomains(ds) \in SUBSET Domains
<1>1. \A d \in ds : normalizeDomain(d) \in Domains
  BY DEF normalizeDomain, Domains
<1> QED
  BY <1>1 DEF NormalizeDomains

(* Every method of a CDNStatus leaves a well-formed one. *)
LEMMA EmptyStatusType == CS!EmptyStatus \in CS!Statuses
  BY DEF CS!EmptyStatus, CS!Statuses, CS!RefStates

LEMMA StatusMethods ==
  ASSUME NEW st \in CS!Statuses
  PROVE  /\ \A ds \in SUBSET Domains : CS!SetAliases(st, ds) \in CS!Statuses
         /\ \A d \in DistIds : CS!SetInfo(st, d) \in CS!Statuses
         /\ \A b \in BOOLEAN, i \in Ingresses : CS!SetIngressRef(st, b, i) \in CS!Statuses
         /\ \A i \in Ingresses : CS!RemoveIngressRef(st, i) \in CS!Statuses
  BY DEF CS!SetAliases, CS!SetInfo, CS!SetIngressRef, CS!RemoveIngressRef, CS!Statuses, CS!RefStates

LEMMA DNSMethods ==
  ASSUME NEW st \in CS!Statuses, NEW ds \in SUBSET Domains
  PROVE  /\ CS!UpsertDNSRecords(st, ds) \in CS!Statuses
         /\ CS!RemoveDNSRecords(st, ds) \in CS!Statuses
<1>1. ASSUME NEW dns \in CS!DNSStatuses \cup {None}
      PROVE  [st EXCEPT !.dns = dns] \in CS!Statuses
  BY DEF CS!Statuses
<1>2. [records |-> ds, synced |-> TRUE] \in CS!DNSStatuses
  BY DEF CS!DNSStatuses
<1>3. ASSUME st.dns # None
      PROVE  /\ [st.dns EXCEPT !.records = @ \cup ds] \in CS!DNSStatuses
             /\ [st.dns EXCEPT !.records = @ \ ds] \in CS!DNSStatuses
  BY <1>3 DEF CS!Statuses, CS!DNSStatuses
<1>4. CS!UpsertDNSRecords(st, ds) \in CS!Statuses
  BY <1>1, <1>2, <1>3 DEF CS!UpsertDNSRecords
<1>5. CS!RemoveDNSRecords(st, ds) \in CS!Statuses
  BY <1>1, <1>3 DEF CS!RemoveDNSRecords
<1> QED
  BY <1>4, <1>5

LEMMA SyncMethod ==
  ASSUME NEW st \in CS!Statuses, NEW b \in BOOLEAN
  PROVE  CS!SetDNSSync(st, b) \in CS!Statuses
<1>1. [records |-> {}, synced |-> b] \in CS!DNSStatuses
  BY DEF CS!DNSStatuses
<1>2. st.dns # None => [st.dns EXCEPT !.synced = b] \in CS!DNSStatuses
  BY DEF CS!Statuses, CS!DNSStatuses
<1>3. ASSUME NEW dns \in CS!DNSStatuses
      PROVE  [st EXCEPT !.dns = dns] \in CS!Statuses
  BY DEF CS!Statuses
<1> QED
  BY <1>1, <1>2, <1>3 DEF CS!SetDNSSync

LEMMA IdleType == Idle \in Workers /\ Idle.pc = "idle"
  BY EmptyStatusType DEF Idle, Workers, PCs, EmptyOutput, Outputs

LEMMA OutcomesType ==
  ASSUME TypeOK, NEW call, NEW o \in Outcomes(call), Charge(o)
  PROVE  o.ok \in BOOLEAN /\ o.applied \in BOOLEAN /\ faults' \in 0 .. MaxFaults
<1>1. o.ok \in BOOLEAN /\ o.applied \in BOOLEAN
  <2>1. CASE o = [applied |-> TRUE, ok |-> TRUE]
    BY <2>1
  <2>2. CASE \E a \in BOOLEAN : o = [applied |-> a, ok |-> FALSE]
    BY <2>2
  <2> QED
    BY <2>1, <2>2 DEF Outcomes
<1>2. ~o.ok => faults < MaxFaults
  <2>1. CASE faults < MaxFaults
    BY <2>1
  <2>2. CASE ~(faults < MaxFaults)
    <3>1. o = [applied |-> TRUE, ok |-> TRUE]
      BY <2>2 DEF Outcomes
    <3> QED
      BY <3>1
  <2> QED
    BY <2>1, <2>2
<1> QED
  BY <1>1, <1>2, BoundsAssumption DEF TypeOK, Charge

-----------------------------------------------------------------------------
(* The inductive invariant                                                 *)

(* A Reconcile call in progress has a request and the Ingress it read. *)
HasRequest == w.pc # "idle" => w.i \in Ingresses /\ w.obj \in Objects

(* What ARNByGroup answered is still so when syncDist acts on it: only the *)
(* one worker creates and deletes distributions.                           *)
ARNIsCurrent ==
    w.pc = "dist" =>
        IF w.arn = None THEN ARNByGroup(w.obj.spec.group) = {}
        ELSE dist[w.arn] # None /\ dist[w.arn].group = w.obj.spec.group

(* An output with domains is that of an existing distribution. *)
OutputHasTarget == w.out.domains # {} => w.out.target # None

IInv == TypeOK /\ HasRequest /\ ARNIsCurrent /\ OutputHasTarget /\ AtMostOneDistPerGroup

LEMMA InitInv == Init => IInv
<1> SUFFICES ASSUME Init PROVE IInv
  OBVIOUS
<1>1. ing \in [Ingresses -> Objects \cup {None}]
  <2>1. \A i \in Ingresses : \A s \in Specs[i] : NewObject(s) \in Objects
    BY SpecsAssumption DEF NewObject, Objects
  <2> QED
    BY <2>1 DEF Init
<1>2. zone \in Zones
  BY NoRecordsType DEF Init, Zones
<1>3. edits \in 0 .. MaxEdits /\ faults \in 0 .. MaxFaults /\ crashes \in 0 .. MaxCrashes
  BY BoundsAssumption DEF Init
<1>4. TypeOK
  BY <1>1, <1>2, <1>3, IdleType DEF Init, TypeOK
<1>5. HasRequest /\ ARNIsCurrent
  BY IdleType DEF Init, HasRequest, ARNIsCurrent
<1>6. OutputHasTarget
  BY DEF Init, Idle, EmptyOutput, OutputHasTarget
<1>7. AtMostOneDistPerGroup
  BY DEF Init, AtMostOneDistPerGroup
<1> QED
  BY <1>4, <1>5, <1>6, <1>7 DEF IInv

(* Every Reconcile call ends with a Return. *)
LEMMA ReturnType ==
  ASSUME TypeOK, HasRequest, w.pc # "idle", NEW failed, Return(failed)
  PROVE  w' = Idle /\ w' \in Workers /\ queue' \subseteq Ingresses
  BY IdleType DEF TypeOK, HasRequest, Return

(* An update of the request's Ingress. *)
LEMMA UpdateIngressType ==
  ASSUME TypeOK, HasRequest, w.pc # "idle", NEW fin \in BOOLEAN, NEW o, UpdateIngress(fin, o)
  PROVE  ing' \in [Ingresses -> Objects \cup {None}]
<1>1. [w.obj EXCEPT !.fin = fin] \in Objects
  BY DEF HasRequest, Objects
<1> QED
  BY <1>1 DEF UpdateIngress, TypeOK, HasRequest

LEMMA StatusNameType ==
  ASSUME HasRequest, w.pc # "idle"
  PROVE  w.obj.spec.group \in Groups \cup {None}
  BY DEF HasRequest, Objects, IngressSpecs

LEMMA TypeUsers ==
  ASSUME TypeOK, NEW i \in Ingresses, Edit(i) \/ Delete(i)
  PROVE  TypeOK'
<1>1. edits' \in 0 .. MaxEdits
  BY BoundsAssumption DEF Edit, Delete, TypeOK
<1>2. CASE Edit(i)
  <2>1. PICK s \in Specs[i] :
          ing' = [ing EXCEPT ![i] = IF ing[i] = None THEN NewObject(s)
                                    ELSE [ing[i] EXCEPT !.spec = s]]
    BY <1>2 DEF Edit
  <2>2. s \in IngressSpecs
    BY SpecsAssumption
  <2>3. NewObject(s) \in Objects /\ (ing[i] # None => [ing[i] EXCEPT !.spec = s] \in Objects)
    BY <2>2 DEF NewObject, Objects, TypeOK
  <2>4. ing' \in [Ingresses -> Objects \cup {None}]
    BY <2>1, <2>3 DEF TypeOK
  <2> QED
    BY <1>1, <1>2, <2>4 DEF Edit, userLeaves, TypeOK
<1>3. CASE Delete(i)
  <2>1. ing[i] # None => [ing[i] EXCEPT !.deleting = TRUE] \in Objects
    BY DEF Objects, TypeOK
  <2>2. ing' \in [Ingresses -> Objects \cup {None}]
    BY <1>3, <2>1 DEF Delete, TypeOK
  <2> QED
    BY <1>1, <1>3, <2>2 DEF Delete, userLeaves, TypeOK
<1> QED
  BY <1>2, <1>3

LEMMA TypeInformers ==
  ASSUME TypeOK, (\E i \in Ingresses : Deliver(i)) \/ (\E g \in Groups : DeliverStatus(g))
  PROVE  TypeOK'
<1>1. ASSUME NEW i \in Ingresses, Deliver(i) PROVE TypeOK'
  <2>1. cache' \in [Ingresses -> Objects \cup {None}] /\ queue' \subseteq Ingresses
    BY <1>1 DEF Deliver, TypeOK
  <2> QED
    BY <1>1, <2>1 DEF Deliver, informerLeaves, TypeOK
<1>2. ASSUME NEW g \in Groups, DeliverStatus(g) PROVE TypeOK'
  <2>1. cdnCache' \in [Groups -> CS!Statuses \cup {None}]
    BY <1>2 DEF DeliverStatus, TypeOK
  <2> QED
    BY <1>2, <2>1 DEF DeliverStatus, informerLeaves, TypeOK
<1> QED
  BY <1>1, <1>2

(* The beginning of Reconcile, up to and including desiredState. *)
LEMMA TypeStart ==
  ASSUME TypeOK, NEW i \in Ingresses, Start(i)
  PROVE  TypeOK'
<1>1. cache[i] # None =>
        [Idle EXCEPT !.pc = "started", !.i = i, !.obj = cache[i], !.read = cache[i]] \in Workers
  BY IdleType DEF TypeOK, Workers, PCs
<1>2. w' \in Workers /\ queue' \subseteq Ingresses
  BY <1>1, IdleType DEF Start, TypeOK
<1> QED
  BY <1>2 DEF Start, workerLeaves, TypeOK

LEMMA TypeReject ==
  ASSUME TypeOK, HasRequest, RejectIngress \/ RemoveFinalizerUngrouped
  PROVE  TypeOK'
<1>1. CASE RejectIngress
  <2>1. PICK o \in Outcomes("class") : Charge(o)
    BY <1>1 DEF RejectIngress
  <2>2. Return(TRUE) /\ w.pc = "started"
    BY <1>1 DEF RejectIngress
  <2> QED
    BY <1>1, <2>1, <2>2, OutcomesType, ReturnType DEF RejectIngress, workerLeaves, TypeOK
<1>2. CASE RemoveFinalizerUngrouped
  <2>1. PICK o \in Outcomes("ingress") : /\ UpdateIngress(FALSE, o)
                                         /\ Charge(o)
                                         /\ Return(~UpdateIngressOK(o))
    BY <1>2 DEF RemoveFinalizerUngrouped
  <2>2. w.pc = "started"
    BY <1>2 DEF RemoveFinalizerUngrouped
  <2>3. ing' \in [Ingresses -> Objects \cup {None}]
    BY <2>1, <2>2, UpdateIngressType
  <2> QED
    BY <1>2, <2>1, <2>2, <2>3, OutcomesType, ReturnType
       DEF RemoveFinalizerUngrouped, workerLeaves, TypeOK
<1> QED
  BY <1>1, <1>2

LEMMA DesiredStateNext ==
  ASSUME TypeOK, HasRequest, DesiredState
  PROVE  LET g == w.obj.spec.group
             js == desiredIngresses(g)
             arns == ARNByGroup(g)
             base == CachedStatus(g)
         IN  \/ Return(TRUE)
             \/ /\ w' = [w EXCEPT !.pc = "dist",
                                  !.desired = js,
                                  !.domains = AlternateDomains(js),
                                  !.arn = IF arns = {} THEN None
                                          ELSE CHOOSE d \in arns : TRUE,
                                  !.base = base,
                                  !.st = IF base = None THEN newCDNStatus(js) ELSE base]
                /\ UNCHANGED queue
  BY DEF DesiredState

LEMMA TypeDesiredState ==
  ASSUME TypeOK, HasRequest, DesiredState
  PROVE  TypeOK'
<1> DEFINE g == w.obj.spec.group
           js == desiredIngresses(g)
           arns == ARNByGroup(g)
           ds == AlternateDomains(js)
           arn == IF arns = {} THEN None ELSE CHOOSE d \in arns : TRUE
           base == CachedStatus(g)
           st == IF base = None THEN newCDNStatus(js) ELSE base
<1>0. w.pc = "started"
  BY DEF DesiredState
<1>1. js \in SUBSET Ingresses
  BY DEF desiredIngresses
<1>2. ds \in SUBSET Domains
  <2>1. \A j \in js : cache[j].spec.domains \subseteq Domains
    BY DEF desiredIngresses, TypeOK, Objects, IngressSpecs
  <2> HIDE DEF js
  <2> QED
    BY <2>1 DEF AlternateDomains
<1>3. arn \in DistIds \cup {None}
  BY DEF ARNByGroup
<1>4. base \in CS!Statuses \cup {None}
  <2>1. g \in Groups \cup {None}
    BY <1>0, StatusNameType
  <2> HIDE DEF g
  <2> QED
    BY <2>1 DEF CachedStatus, TypeOK
<1>5. newCDNStatus(js) \in CS!Statuses
  BY EmptyStatusType DEF newCDNStatus, CS!Statuses, CS!RefStates
<1>6. st \in CS!Statuses
  BY <1>4, <1>5
<1>7. CASE Return(TRUE)
  <2>1. PICK o \in Outcomes("list") : Charge(o)
    BY DEF DesiredState
  <2> HIDE DEF g, js, arns, ds, arn, base, st
  <2> QED
    BY <1>0, <1>7, <2>1, OutcomesType, ReturnType DEF DesiredState, workerLeaves, TypeOK
<1>8. CASE /\ w' = [w EXCEPT !.pc = "dist", !.desired = js, !.domains = ds, !.arn = arn,
                             !.base = base, !.st = st]
           /\ UNCHANGED queue
  <2>1. PICK o \in Outcomes("list") : Charge(o)
    BY DEF DesiredState
  <2> HIDE DEF g, js, arns, ds, arn, base, st
  <2>2. w' \in Workers
    BY <1>1, <1>2, <1>3, <1>4, <1>6, <1>8 DEF TypeOK, Workers, PCs
  <2> QED
    BY <1>8, <2>1, <2>2, OutcomesType DEF DesiredState, workerLeaves, TypeOK
<1> QED
  BY <1>7, <1>8, DesiredStateNext

(* The end of upsertDistribution. *)
LEMMA UpsertedType ==
  ASSUME TypeOK, HasRequest, w.pc # "idle", NEW d \in DistIds, NEW ok \in BOOLEAN, Upserted(d, ok)
  PROVE  w' \in Workers
<1> DEFINE st == IF ok THEN CS!SetAliases(CS!SetInfo(CS!SetIngressRef(w.st, ok, w.i), d), w.domains)
                 ELSE CS!SetIngressRef(w.st, ok, w.i)
           out == IF ok THEN [target |-> d, domains |-> w.domains, ipv6 |-> IPv6Enabled]
                  ELSE EmptyOutput
<1>1. w' = [w EXCEPT !.pc = AfterDist, !.errs = ~ok, !.st = st, !.out = out]
  BY DEF Upserted
<1>2. st \in CS!Statuses
  <2>1. w.st \in CS!Statuses /\ w.domains \in SUBSET Domains /\ w.i \in Ingresses
    BY DEF TypeOK, Workers, HasRequest
  <2>2. CS!SetIngressRef(w.st, ok, w.i) \in CS!Statuses
    BY <2>1, StatusMethods
  <2>3. CS!SetInfo(CS!SetIngressRef(w.st, ok, w.i), d) \in CS!Statuses
    BY <2>1, <2>2, StatusMethods
  <2>4. CS!SetAliases(CS!SetInfo(CS!SetIngressRef(w.st, ok, w.i), d), w.domains) \in CS!Statuses
    BY <2>1, <2>3, StatusMethods
  <2> QED
    BY <2>2, <2>4
<1>3. out \in Outputs
  BY FlagsAssumption DEF Outputs, EmptyOutput, TypeOK, Workers
<1>4. AfterDist \in PCs
  BY DEF AfterDist, PCs
<1> HIDE DEF st, out
<1> QED
  BY <1>1, <1>2, <1>3, <1>4 DEF TypeOK, Workers

LEMMA DesiredDistributionType ==
  ASSUME TypeOK, HasRequest, w.pc # "idle"
  PROVE  DesiredDistribution \in Distributions
  BY StatusNameType DEF DesiredDistribution, Distributions, TypeOK, Workers

LEMMA NewIdType ==
  ASSUME \E d \in DistIds : Unused(d)
  PROVE  NewId \in DistIds /\ Unused(NewId)
  BY DEF NewId

LEMMA TypeSyncDist ==
  ASSUME TypeOK, HasRequest, ARNIsCurrent,
         SkipDeletion \/ DeleteDistribution \/ UpdateDistribution \/ CreateDistribution
  PROVE  TypeOK'
<1>0. AfterDist \in PCs /\ EmptyDesiredOutput \in Outputs
  BY FlagsAssumption DEF AfterDist, PCs, EmptyDesiredOutput, EmptyOutput, Outputs
<1>1. CASE SkipDeletion
  <2>1. w' \in Workers
    BY <1>0, <1>1 DEF SkipDeletion, TypeOK, Workers
  <2> QED
    BY <1>1, <2>1 DEF SkipDeletion, distLeaves, workerLeaves, TypeOK
<1>2. CASE DeleteDistribution
  <2>1. PICK o \in Outcomes("distribution"), timedOut \in BOOLEAN :
          /\ Charge(o)
          /\ dist' = IF ~o.applied THEN dist
                     ELSE IF timedOut THEN [dist EXCEPT ![w.arn].enabled = FALSE]
                     ELSE [dist EXCEPT ![w.arn] = None]
          /\ w' = [w EXCEPT !.pc = AfterDist, !.out = EmptyDesiredOutput, !.errs = ~o.ok]
    BY <1>2 DEF DeleteDistribution
  <2>2. w.arn \in DistIds /\ dist[w.arn] \in Distributions
    BY <1>2 DEF DeleteDistribution, TypeOK, Workers, ARNIsCurrent
  <2>3. [dist[w.arn] EXCEPT !.enabled = FALSE] \in Distributions
    BY <2>2 DEF Distributions
  <2>4. dist' \in [DistIds -> Distributions \cup {None}]
    BY <2>1, <2>2, <2>3 DEF TypeOK
  <2>5. w' \in Workers
    BY <1>0, <2>1 DEF TypeOK, Workers
  <2> QED
    BY <1>2, <2>1, <2>4, <2>5, OutcomesType DEF DeleteDistribution, distLeaves, workerLeaves, TypeOK
<1>3. CASE UpdateDistribution
  <2> DEFINE free == DomainsAreFree(w.domains, w.arn)
  <2>1. PICK o \in Outcomes("distribution") :
          /\ Charge(o)
          /\ dist' = IF o.applied /\ free
                       THEN [dist EXCEPT ![w.arn] = DesiredDistribution] ELSE dist
          /\ Upserted(w.arn, o.ok /\ free)
    BY <1>3 DEF UpdateDistribution
  <2>2. w.arn \in DistIds /\ w.pc = "dist"
    BY <1>3 DEF UpdateDistribution, TypeOK, Workers
  <2>3. (o.ok /\ free) \in BOOLEAN
    OBVIOUS
  <2> HIDE DEF free
  <2>4. w' \in Workers
    BY <2>1, <2>2, <2>3, UpsertedType
  <2>5. dist' \in [DistIds -> Distributions \cup {None}]
    BY <2>1, <2>2, DesiredDistributionType DEF TypeOK
  <2> QED
    BY <1>3, <2>1, <2>4, <2>5, OutcomesType DEF UpdateDistribution, distLeaves, workerLeaves, TypeOK
<1>4. CASE CreateDistribution
  <2> DEFINE free == DomainsAreFree(w.domains, None)
  <2>1. PICK o \in Outcomes("distribution") :
          /\ Charge(o)
          /\ dist' = IF o.applied /\ free
                       THEN [dist EXCEPT ![NewId] = DesiredDistribution] ELSE dist
          /\ Upserted(NewId, o.ok /\ free)
    BY <1>4 DEF CreateDistribution
  <2>2. NewId \in DistIds /\ w.pc = "dist"
    BY <1>4, NewIdType DEF CreateDistribution
  <2>3. (o.ok /\ free) \in BOOLEAN
    OBVIOUS
  <2> HIDE DEF free
  <2>4. w' \in Workers
    BY <2>1, <2>2, <2>3, UpsertedType
  <2>5. dist' \in [DistIds -> Distributions \cup {None}]
    BY <2>1, <2>2, DesiredDistributionType DEF TypeOK
  <2> QED
    BY <1>4, <2>1, <2>4, <2>5, OutcomesType DEF CreateDistribution, distLeaves, workerLeaves, TypeOK
<1> QED
  BY <1>1, <1>2, <1>3, <1>4

(* The Aliases values of syncAliases. *)
LEMMA AliasesType ==
  ASSUME TypeOK
  PROVE  /\ toUpsert.target = w.out.target /\ toUpsert.target \in Targets \cup {None}
         /\ toDelete.target \in Targets \cup {None}
         /\ toUpsert.owner = Owner /\ toDelete.owner = Owner
         /\ toUpsert.entries = NormalizeDomains(w.out.domains)
         /\ toUpsert.entries \in SUBSET Domains
         /\ toDelete.entries \in SUBSET Domains
         /\ ~DeletionEnabled => toDelete.entries = {}
<1>1. w.out.target \in Targets \cup {None} /\ w.out.domains \in SUBSET Domains /\ w.out.ipv6 \in BOOLEAN
  BY SetsAssumption DEF TypeOK, Workers, Outputs
<1> DEFINE ds == IF w.st.dns = None \/ ~DeletionEnabled THEN {}
                 ELSE getDeletions(NormalizeDomains(w.out.domains), w.st.dns.records)
<1>2. ds \in SUBSET Domains
  BY DEF getDeletions, TypeOK, Workers, CS!Statuses, CS!DNSStatuses
<1>3. ~DeletionEnabled => ds = {}
  OBVIOUS
<1>4. toDelete = NewAliases(w.out.target, Owner, ds, w.out.ipv6)
  BY DEF toDelete
<1> HIDE DEF ds
<1>5. NormalizeDomains(ds) \in SUBSET Domains /\ (ds = {} => NormalizeDomains(ds) = {})
  BY <1>2, NormalizeType DEF NormalizeDomains
<1>6. NormalizeDomains(w.out.domains) \in SUBSET Domains
  BY <1>1, NormalizeType
<1> QED
  BY <1>1, <1>3, <1>4, <1>5, <1>6, AliasesFields DEF toUpsert

LEMMA TypeSyncAliases ==
  ASSUME TypeOK, HasRequest, UpsertAliases \/ DeleteAliases
  PROVE  TypeOK'
<1>0. Owner \in OwnerValues /\ zone \in Zones
  BY SetsAssumption DEF TypeOK
<1>1. CASE UpsertAliases
  <2> DEFINE done == UpsertValid(toUpsert, zone) /\ UpsertAccepted(toUpsert, zone)
  <2>1. PICK o \in Outcomes("alias") :
          /\ Charge(o)
          /\ zone' = IF o.applied /\ done THEN UpsertChanges(toUpsert, zone, zone) ELSE zone
          /\ w' = [w EXCEPT !.pc = "aliasDelete",
                            !.errUp = ~(o.ok /\ done),
                            !.st = IF o.ok /\ done
                                     THEN CS!UpsertDNSRecords(w.st, toUpsert.entries)
                                     ELSE w.st]
    BY <1>1 DEF UpsertAliases
  <2> HIDE DEF done
  <2>2. zone' \in Zones
    BY <1>0, <2>1, UpsertType, AliasesType
  <2>3. w' \in Workers
    <3>1. w.st \in CS!Statuses /\ w.i \in Ingresses
      BY <1>1 DEF UpsertAliases, TypeOK, Workers, HasRequest
    <3>2. CS!UpsertDNSRecords(w.st, toUpsert.entries) \in CS!Statuses
      BY <3>1, AliasesType, DNSMethods
    <3> DEFINE st == IF o.ok /\ done THEN CS!UpsertDNSRecords(w.st, toUpsert.entries) ELSE w.st
               err == ~(o.ok /\ done)
    <3>3. st \in CS!Statuses /\ err \in BOOLEAN
      BY <3>1, <3>2
    <3>4. w' = [w EXCEPT !.pc = "aliasDelete", !.errUp = err, !.st = st]
      BY <2>1
    <3> HIDE DEF st, err
    <3> QED
      BY <3>3, <3>4 DEF TypeOK, Workers, PCs
  <2> QED
    BY <1>1, <2>1, <2>2, <2>3, OutcomesType DEF UpsertAliases, aliasLeaves, workerLeaves, TypeOK
<1>2. CASE DeleteAliases
  <2> DEFINE done == DeleteValid(toDelete, zone) /\ DeleteAccepted(toDelete, zone, zone)
             removed == CS!RemoveDNSRecords(w.st, toDelete.entries)
  <2>1. PICK o \in Outcomes("alias") :
          LET ok == o.ok /\ done
              st == IF ok THEN removed ELSE w.st
          IN  /\ Charge(o)
              /\ zone' = IF o.applied /\ done THEN DeleteChanges(toDelete, zone, zone) ELSE zone
              /\ w' = [w EXCEPT !.pc = "finalizer",
                                !.st = IF w.errUp \/ ~ok THEN CS!SetDNSSync(st, FALSE) ELSE st,
                                !.errs = w.errs \/ w.errUp \/ ~ok]
    BY <1>2 DEF DeleteAliases
  <2>2. w.st \in CS!Statuses /\ w.i \in Ingresses
    BY <1>2 DEF DeleteAliases, TypeOK, Workers, HasRequest
  <2>3. removed \in CS!Statuses
    BY <2>2, AliasesType, DNSMethods
  <2> DEFINE ok == o.ok /\ done
             st == IF ok THEN removed ELSE w.st
             st2 == IF w.errUp \/ ~ok THEN CS!SetDNSSync(st, FALSE) ELSE st
             errs == w.errs \/ w.errUp \/ ~ok
  <2>4. /\ Charge(o)
        /\ zone' = IF o.applied /\ done THEN DeleteChanges(toDelete, zone, zone) ELSE zone
        /\ w' = [w EXCEPT !.pc = "finalizer", !.st = st2, !.errs = errs]
    BY <2>1
  <2> HIDE DEF done, removed, ok
  <2>5. zone' \in Zones
    BY <1>0, <2>4, DeleteType, AliasesType
  <2>6. st \in CS!Statuses
    BY <2>2, <2>3
  <2> HIDE DEF st
  <2>7. st2 \in CS!Statuses /\ errs \in BOOLEAN
    BY <2>2, <2>6, SyncMethod
  <2> HIDE DEF st2, errs
  <2>8. w' \in Workers
    BY <2>4, <2>7 DEF TypeOK, Workers, PCs
  <2> QED
    BY <1>2, <2>4, <2>5, <2>8, OutcomesType DEF DeleteAliases, aliasLeaves, workerLeaves, TypeOK
<1> QED
  BY <1>1, <1>2

LEMMA TypeFinalizer ==
  ASSUME TypeOK, HasRequest, ReconcileFinalizer
  PROVE  TypeOK'
<1> DEFINE fin == w.errs \/ ~IsBeingRemovedFromDesiredState(w.obj)
           obj == [w.obj EXCEPT !.fin = fin]
<1>0. w.pc = "finalizer" /\ w.obj \in Objects /\ w.i \in Ingresses /\ w.st \in CS!Statuses
  BY DEF ReconcileFinalizer, HasRequest, TypeOK, Workers
<1>1. PICK o \in Outcomes("ingress") :
        /\ UpdateIngress(fin, o)
        /\ Charge(o)
        /\ LET errs == w.errs \/ ~UpdateIngressOK(o) IN
           w' = [w EXCEPT !.obj = obj,
                          !.errs = errs,
                          !.st = IF ~errs /\ IsBeingRemovedFromDesiredState(obj)
                                   THEN CS!RemoveIngressRef(w.st, w.i) ELSE w.st,
                          !.pc = IF ~errs /\ w.desired = {} THEN "statusDelete"
                                 ELSE IF w.base = None THEN "statusCreate"
                                 ELSE "statusUpdate"]
  BY DEF ReconcileFinalizer
<1> DEFINE errs == w.errs \/ ~UpdateIngressOK(o)
           st == IF ~errs /\ IsBeingRemovedFromDesiredState(obj)
                   THEN CS!RemoveIngressRef(w.st, w.i) ELSE w.st
           pc == IF ~errs /\ w.desired = {} THEN "statusDelete"
                 ELSE IF w.base = None THEN "statusCreate" ELSE "statusUpdate"
<1>2. w' = [w EXCEPT !.obj = obj, !.errs = errs, !.st = st, !.pc = pc]
  BY <1>1
<1>3. fin \in BOOLEAN /\ errs \in BOOLEAN /\ pc \in PCs
  BY DEF PCs
<1>4. obj \in Objects
  <2> HIDE DEF fin
  <2> QED
    BY <1>0, <1>3 DEF Objects
<1>5. CS!RemoveIngressRef(w.st, w.i) \in CS!Statuses
  BY <1>0, StatusMethods
<1>6. st \in CS!Statuses
  BY <1>0, <1>5
<1> HIDE DEF fin, obj, errs, st, pc
<1>7. w' \in Workers
  BY <1>2, <1>3, <1>4, <1>6 DEF TypeOK, Workers
<1>8. ing' \in [Ingresses -> Objects \cup {None}]
  BY <1>0, <1>1, <1>3, UpdateIngressType
<1> QED
  BY <1>1, <1>7, <1>8, OutcomesType DEF ReconcileFinalizer, workerLeaves, TypeOK

LEMMA TypeStatus ==
  ASSUME TypeOK, HasRequest, deleteCDNStatus \/ createCDNStatus \/ updateCDNStatus
  PROVE  TypeOK'
<1>1. CASE deleteCDNStatus
  <2>1. PICK o \in Outcomes("cdnstatus") :
          /\ Charge(o)
          /\ cdn' = IF o.applied /\ StatusName # None
                      THEN [cdn EXCEPT ![StatusName] = None] ELSE cdn
          /\ Return(~o.ok \/ StatusName = None)
    BY <1>1 DEF deleteCDNStatus
  <2>2. w.pc # "idle"
    BY <1>1 DEF deleteCDNStatus
  <2>3. cdn' \in [Groups -> CS!Statuses \cup {None}]
    BY <2>1 DEF TypeOK
  <2> QED
    BY <1>1, <2>1, <2>2, <2>3, OutcomesType, ReturnType
       DEF deleteCDNStatus, statusLeaves, workerLeaves, TypeOK
<1>2. CASE createCDNStatus
  <2> DEFINE free == StatusName # None /\ cdn[StatusName] = None
  <2>1. PICK o \in Outcomes("cdnstatus") :
          /\ Charge(o)
          /\ cdn' = IF o.applied /\ free
                      THEN [cdn EXCEPT ![StatusName] = CS!EmptyStatus] ELSE cdn
          /\ \/ /\ w' = [w EXCEPT !.pc = "statusUpdate", !.base = CS!EmptyStatus]
                /\ UNCHANGED queue
             \/ Return(TRUE)
    BY <1>2 DEF createCDNStatus
  <2> HIDE DEF free
  <2>2. w.pc # "idle"
    BY <1>2 DEF createCDNStatus
  <2>3. cdn' \in [Groups -> CS!Statuses \cup {None}]
    BY <2>1, EmptyStatusType DEF TypeOK
  <2>4. [w EXCEPT !.pc = "statusUpdate", !.base = CS!EmptyStatus] \in Workers
    BY EmptyStatusType DEF TypeOK, Workers, PCs
  <2>5. w' \in Workers /\ queue' \subseteq Ingresses
    BY <2>1, <2>2, <2>4, ReturnType DEF TypeOK
  <2> QED
    BY <1>2, <2>1, <2>3, <2>5, OutcomesType DEF createCDNStatus, statusLeaves, workerLeaves, TypeOK
<1>3. CASE updateCDNStatus
  <2> DEFINE same == cdn[StatusName] = w.base
  <2>1. PICK o \in Outcomes("cdnstatus") :
          /\ Charge(o)
          /\ cdn' = IF o.applied /\ same THEN [cdn EXCEPT ![StatusName] = w.st] ELSE cdn
          /\ Return(w.errs \/ ~(o.ok /\ same))
    BY <1>3 DEF updateCDNStatus
  <2>2. w.pc # "idle"
    BY <1>3 DEF updateCDNStatus
  <2> HIDE DEF same
  <2>3. cdn' \in [Groups -> CS!Statuses \cup {None}]
    BY <2>1 DEF TypeOK, Workers
  <2> QED
    BY <1>3, <2>1, <2>2, <2>3, OutcomesType, ReturnType
       DEF updateCDNStatus, statusLeaves, workerLeaves, TypeOK
<1> QED
  BY <1>1, <1>2, <1>3

LEMMA TypeStep == IInv /\ [Next]_vars => TypeOK'
<1> SUFFICES ASSUME TypeOK, HasRequest, ARNIsCurrent, [Next]_vars PROVE TypeOK'
  BY DEF IInv
<1>1. CASE Worker
  BY <1>1, TypeReject, TypeDesiredState, TypeSyncDist, TypeSyncAliases, TypeFinalizer, TypeStatus
     DEF Worker
<1>2. CASE Crash
  <2>1. queue' \subseteq Ingresses /\ w' \in Workers
    BY <1>2, IdleType DEF Crash
  <2>2. crashes' \in 0 .. MaxCrashes
    BY <1>2, BoundsAssumption DEF Crash, TypeOK
  <2> QED
    BY <1>2, <2>1, <2>2 DEF Crash, TypeOK
<1>3. CASE UNCHANGED vars
  BY <1>3 DEF vars, TypeOK
<1> QED
  BY <1>1, <1>2, <1>3, TypeUsers, TypeInformers, TypeStart DEF Next, User

(* A Reconcile call keeps its request, and its output keeps a target. *)
LEMMA RequestStep == IInv /\ [Next]_vars => HasRequest' /\ OutputHasTarget'
<1> SUFFICES ASSUME TypeOK, HasRequest, OutputHasTarget, [Next]_vars
             PROVE  HasRequest' /\ OutputHasTarget'
  BY DEF IInv
<1>0. Idle.pc = "idle" /\ Idle.out.domains = {}
  BY DEF Idle, EmptyOutput
<1>1. ASSUME w' = Idle PROVE HasRequest' /\ OutputHasTarget'
  BY <1>0, <1>1 DEF HasRequest, OutputHasTarget
<1>2. ASSUME w'.i = w.i, w'.obj = w.obj, w.pc # "idle",
             w'.out = w.out \/ w'.out.domains = {} \/ w'.out.target # None
      PROVE  HasRequest' /\ OutputHasTarget'
  BY <1>2 DEF HasRequest, OutputHasTarget
<1>3. ASSUME UNCHANGED w PROVE HasRequest' /\ OutputHasTarget'
  BY <1>3 DEF HasRequest, OutputHasTarget
<1>4. ASSUME NEW i \in Ingresses, Start(i) PROVE HasRequest' /\ OutputHasTarget'
  <2>1. \/ w' = Idle
        \/ w'.i = i /\ w'.obj = cache[i] /\ cache[i] # None /\ w'.out = Idle.out
    BY <1>4 DEF Start, Idle
  <2> QED
    BY <1>0, <1>1, <2>1 DEF HasRequest, OutputHasTarget, TypeOK
<1>5. CASE RejectIngress \/ RemoveFinalizerUngrouped \/ deleteCDNStatus \/ updateCDNStatus \/ Crash
  BY <1>1, <1>5 DEF RejectIngress, RemoveFinalizerUngrouped, deleteCDNStatus, updateCDNStatus,
                    Crash, Return
<1>6. CASE DesiredState
  <2>1. CASE Return(TRUE)
    BY <1>1, <2>1 DEF Return
  <2>2. CASE w'.i = w.i /\ w'.obj = w.obj /\ w'.out = w.out
    BY <1>2, <1>6, <2>2 DEF DesiredState
  <2> QED
    BY <1>6, <2>1, <2>2, DesiredStateNext DEF TypeOK, Workers
<1>7. CASE SkipDeletion \/ DeleteDistribution
  <2>1. w'.i = w.i /\ w'.obj = w.obj /\ w'.out = EmptyDesiredOutput /\ w.pc = "dist"
    BY <1>7 DEF SkipDeletion, DeleteDistribution, TypeOK, Workers
  <2> QED
    BY <1>2, <2>1 DEF EmptyDesiredOutput, EmptyOutput
<1>8. CASE UpdateDistribution \/ CreateDistribution
  <2>1. PICK d \in DistIds, ok \in BOOLEAN : Upserted(d, ok)
    <3>1. CASE UpdateDistribution
      <4>1. PICK o \in Outcomes("distribution") :
              Upserted(w.arn, o.ok /\ DomainsAreFree(w.domains, w.arn))
        BY <3>1 DEF UpdateDistribution
      <4>2. w.arn \in DistIds
        BY <3>1 DEF UpdateDistribution, TypeOK, Workers
      <4> QED
        BY <4>1, <4>2
    <3>2. CASE CreateDistribution
      <4>1. PICK o \in Outcomes("distribution") :
              Upserted(NewId, o.ok /\ DomainsAreFree(w.domains, None))
        BY <3>2 DEF CreateDistribution
      <4>2. NewId \in DistIds
        BY <3>2, NewIdType DEF CreateDistribution
      <4> QED
        BY <4>1, <4>2
    <3> QED
      BY <1>8, <3>1, <3>2
  <2>2. w'.i = w.i /\ w'.obj = w.obj /\ (w'.out = EmptyOutput \/ w'.out.target = d)
    BY <2>1 DEF Upserted, TypeOK, Workers
  <2>3. w.pc # "idle"
    BY <1>8 DEF UpdateDistribution, CreateDistribution
  <2> QED
    BY <1>2, <2>2, <2>3, NoneAssumption DEF EmptyOutput
<1>9. CASE UpsertAliases \/ DeleteAliases
  <2>1. w'.i = w.i /\ w'.obj = w.obj /\ w'.out = w.out /\ w.pc # "idle"
    BY <1>9 DEF UpsertAliases, DeleteAliases, TypeOK, Workers
  <2> QED
    BY <1>2, <2>1
<1>10. CASE ReconcileFinalizer
  <2>1. PICK fin \in BOOLEAN : w'.i = w.i /\ w'.obj = [w.obj EXCEPT !.fin = fin] /\ w'.out = w.out
    <3> DEFINE fin == w.errs \/ ~IsBeingRemovedFromDesiredState(w.obj)
    <3>1. fin \in BOOLEAN
      OBVIOUS
    <3>2. w'.i = w.i /\ w'.obj = [w.obj EXCEPT !.fin = fin] /\ w'.out = w.out
      BY <1>10 DEF ReconcileFinalizer, TypeOK, Workers
    <3> QED
      BY <3>1, <3>2
  <2>2. w.pc # "idle"
    BY <1>10 DEF ReconcileFinalizer
  <2>3. w'.obj \in Objects
    BY <2>1, <2>2 DEF HasRequest, Objects
  <2> QED
    BY <2>1, <2>2, <2>3 DEF HasRequest, OutputHasTarget
<1>11. CASE createCDNStatus
  <2>1. w' = Idle \/ (w'.i = w.i /\ w'.obj = w.obj /\ w'.out = w.out)
    BY <1>11 DEF createCDNStatus, Return, TypeOK, Workers
  <2> QED
    BY <1>1, <1>2, <1>11, <2>1 DEF createCDNStatus
<1> QED
  BY <1>3, <1>4, <1>5, <1>6, <1>7, <1>8, <1>9, <1>10, <1>11
     DEF Next, User, Worker, Edit, Delete, userLeaves, Deliver, DeliverStatus, informerLeaves, vars

(* The group a written distribution has is the one that was looked up. *)
LEMMA DistStep == IInv /\ [Next]_vars => ARNIsCurrent' /\ AtMostOneDistPerGroup'
<1> SUFFICES ASSUME TypeOK, HasRequest, ARNIsCurrent, AtMostOneDistPerGroup, [Next]_vars
             PROVE  ARNIsCurrent' /\ AtMostOneDistPerGroup'
  BY DEF IInv
<1>0. Idle.pc # "dist" /\ AfterDist # "dist"
  BY DEF Idle, AfterDist
<1>1. ASSUME UNCHANGED dist, w'.pc # "dist" PROVE ARNIsCurrent' /\ AtMostOneDistPerGroup'
  BY <1>1 DEF ARNIsCurrent, AtMostOneDistPerGroup
<1>2. ASSUME UNCHANGED <<dist, w>> PROVE ARNIsCurrent' /\ AtMostOneDistPerGroup'
  BY <1>2 DEF ARNIsCurrent, AtMostOneDistPerGroup, ARNByGroup
<1>3. ASSUME NEW i \in Ingresses, Start(i) PROVE ARNIsCurrent' /\ AtMostOneDistPerGroup'
  <2>1. w'.pc # "dist"
    BY <1>0, <1>3 DEF Start, Idle
  <2> QED
    BY <1>1, <1>3, <2>1 DEF Start
<1>4. CASE RejectIngress \/ RemoveFinalizerUngrouped \/ deleteCDNStatus \/ updateCDNStatus \/ Crash
  <2>1. w' = Idle /\ UNCHANGED dist
    BY <1>4 DEF RejectIngress, RemoveFinalizerUngrouped, deleteCDNStatus, updateCDNStatus,
                Crash, Return, statusLeaves
  <2> QED
    BY <1>0, <1>1, <2>1
<1>5. CASE DesiredState
  <2> DEFINE g == w.obj.spec.group
             arns == ARNByGroup(g)
             arn == IF arns = {} THEN None ELSE CHOOSE d \in arns : TRUE
  <2>0. UNCHANGED dist
    BY <1>5 DEF DesiredState
  <2>1. CASE Return(TRUE)
    BY <1>0, <1>1, <2>0, <2>1 DEF Return
  <2>2. CASE w'.obj = w.obj /\ w'.arn = arn
    <3>1. arns = {} \/ arn \in arns
      OBVIOUS
    <3>2. IF arn = None THEN arns = {} ELSE dist[arn] # None /\ dist[arn].group = g
      BY <3>1, NoneAssumption DEF ARNByGroup
    <3>3. ARNIsCurrent'
      BY <2>0, <2>2, <3>2 DEF ARNIsCurrent, ARNByGroup
    <3> QED
      BY <2>0, <3>3 DEF AtMostOneDistPerGroup
  <2> QED
    BY <1>5, <2>1, <2>2, DesiredStateNext DEF TypeOK, Workers
<1>6. CASE SkipDeletion
  BY <1>0, <1>1, <1>6 DEF SkipDeletion, TypeOK, Workers
<1>7. CASE DeleteDistribution
  <2>1. w'.pc # "dist"
    BY <1>0, <1>7 DEF DeleteDistribution, TypeOK, Workers
  <2>2. \A d \in DistIds : dist'[d] # None => dist[d] # None /\ dist'[d].group = dist[d].group
    <3>1. dist[w.arn] \in Distributions
      BY <1>7 DEF DeleteDistribution, ARNIsCurrent, TypeOK, Workers
    <3>2. [dist[w.arn] EXCEPT !.enabled = FALSE].group = dist[w.arn].group /\ dist[w.arn] # None
      BY <3>1, NoneAssumption DEF Distributions
    <3>3. \/ dist' = dist
          \/ dist' = [dist EXCEPT ![w.arn] = [dist[w.arn] EXCEPT !.enabled = FALSE]]
          \/ dist' = [dist EXCEPT ![w.arn] = None]
      BY <1>7 DEF DeleteDistribution
    <3> QED
      BY <3>2, <3>3 DEF TypeOK
  <2> QED
    BY <2>1, <2>2 DEF ARNIsCurrent, AtMostOneDistPerGroup
<1>8. CASE UpdateDistribution
  <2>1. w'.pc # "dist"
    BY <1>0, <1>8 DEF UpdateDistribution, Upserted, TypeOK, Workers
  <2>2. \A d \in DistIds : dist'[d] # None => dist[d] # None /\ dist'[d].group = dist[d].group
    <3>1. dist[w.arn] # None /\ dist[w.arn].group = w.obj.spec.group
      BY <1>8 DEF UpdateDistribution, ARNIsCurrent
    <3>2. DesiredDistribution.group = w.obj.spec.group
      BY DEF DesiredDistribution
    <3>3. dist' = dist \/ dist' = [dist EXCEPT ![w.arn] = DesiredDistribution]
      BY <1>8 DEF UpdateDistribution
    <3> QED
      BY <3>1, <3>2, <3>3 DEF TypeOK
  <2> QED
    BY <2>1, <2>2 DEF ARNIsCurrent, AtMostOneDistPerGroup
<1>9. CASE CreateDistribution
  <2>1. w'.pc # "dist"
    BY <1>0, <1>9 DEF CreateDistribution, Upserted, TypeOK, Workers
  <2>2. \A d \in DistIds : dist[d] # None => dist[d].group # w.obj.spec.group
    BY <1>9 DEF CreateDistribution, ARNIsCurrent, ARNByGroup
  <2>3. DesiredDistribution.group = w.obj.spec.group
    BY DEF DesiredDistribution
  <2>4. dist' = dist \/ dist' = [dist EXCEPT ![NewId] = DesiredDistribution]
    BY <1>9 DEF CreateDistribution
  <2> QED
    BY <2>1, <2>2, <2>3, <2>4 DEF ARNIsCurrent, AtMostOneDistPerGroup, TypeOK
<1>10. CASE UpsertAliases \/ DeleteAliases \/ ReconcileFinalizer
  <2>1. w'.pc # "dist" /\ UNCHANGED dist
    BY <1>10 DEF UpsertAliases, DeleteAliases, ReconcileFinalizer, aliasLeaves, TypeOK, Workers
  <2> QED
    BY <1>1, <2>1
<1>11. CASE createCDNStatus
  <2>1. w'.pc # "dist" /\ UNCHANGED dist
    BY <1>0, <1>11 DEF createCDNStatus, Return, statusLeaves, TypeOK, Workers
  <2> QED
    BY <1>1, <2>1
<1> QED
  BY <1>2, <1>3, <1>4, <1>5, <1>6, <1>7, <1>8, <1>9, <1>10, <1>11
     DEF Next, User, Worker, Edit, Delete, userLeaves, Deliver, DeliverStatus, informerLeaves, vars

(* The inductive invariant holds of every behaviour. *)
THEOREM Invariance == SafetySpec => []IInv
<1>1. IInv /\ [Next]_vars => IInv'
  BY TypeStep, RequestStep, DistStep DEF IInv
<1> QED
  BY <1>1, InitInv, PTL DEF SafetySpec

(* Type correctness, for any number of users' edits, failures, restarts.   *)
THEOREM TypeCorrect == SafetySpec => []TypeOK
<1>1. IInv => TypeOK
  BY DEF IInv
<1> QED
  BY <1>1, Invariance, PTL

(* No mix of failures, lost answers, stale caches and restarts makes the   *)
(* worker create a second distribution for a group.                        *)
THEOREM OneDistPerGroup == SafetySpec => []AtMostOneDistPerGroup
<1>1. IInv => AtMostOneDistPerGroup
  BY DEF IInv
<1> QED
  BY <1>1, Invariance, PTL

-----------------------------------------------------------------------------
(* ENABLE_DELETION                                                         *)

LEMMA DistributionsKept ==
  ASSUME IInv, [Next]_vars, ~DeletionEnabled
  PROVE  KeepsDistributions
<1> USE DEF IInv
<1>1. CASE UNCHANGED dist
  BY <1>1 DEF KeepsDistributions
<1>2. CASE UpdateDistribution \/ CreateDistribution
  <2>1. PICK d : dist' = dist \/ dist' = [dist EXCEPT ![d] = DesiredDistribution]
    BY <1>2 DEF UpdateDistribution, CreateDistribution
  <2>2. DesiredDistribution # None /\ DesiredDistribution.enabled = TRUE
    BY <1>2, DesiredDistributionType, NoneAssumption
       DEF UpdateDistribution, CreateDistribution, DesiredDistribution
  <2> QED
    BY <2>1, <2>2 DEF KeepsDistributions, TypeOK
<1> QED
  BY <1>1, <1>2
     DEF Next, User, Worker, Edit, Delete, userLeaves, Deliver, DeliverStatus, informerLeaves, Start,
         RejectIngress, RemoveFinalizerUngrouped, DesiredState, SkipDeletion, DeleteDistribution,
         UpsertAliases, DeleteAliases, aliasLeaves, ReconcileFinalizer, deleteCDNStatus,
         createCDNStatus, updateCDNStatus, statusLeaves, Crash, vars

LEMMA RecordsKept ==
  ASSUME IInv, [Next]_vars, ~DeletionEnabled
  PROVE  KeepsRecords
<1> USE DEF IInv
<1>1. CASE UNCHANGED zone
  BY <1>1 DEF KeepsRecords
<1>2. CASE DeleteAliases
  <2>1. Names(toDelete) = {}
    BY AliasesType DEF Names
  <2>2. DeleteChanges(toDelete, zone, zone) = zone
    BY <2>1 DEF DeleteChanges, TypeOK, Zones
  <2> QED
    BY <1>1, <1>2, <2>2 DEF DeleteAliases
<1>3. CASE UpsertAliases
  <2> DEFINE new == UpsertChanges(toUpsert, zone, zone)
  <2>1. ASSUME NEW h \in Hosts, h \in Names(toUpsert)
        PROVE  /\ \A t \in RRTypes : new[h].addr[t] = toUpsert.target \/ new[h].addr[t] = zone[h].addr[t]
               /\ toUpsert.target # None
               /\ new[h].txt # <<>>
    <3>1. zone[h] \in RecordSets /\ zone[h].txt \in Seq(TXTValues)
      BY DEF TypeOK, Zones, RecordSets
    <3>2. new[h] = upsertEntry(toUpsert, zone[h], zone[h])
      BY <2>1 DEF UpsertChanges
    <3>3. new[h].txt = ensureTXTValue(Owner, zone[h].txt)
      BY <3>1, <3>2, AliasesType DEF upsertEntry, RecordSets
    <3>4. \E k \in DOMAIN new[h].txt : new[h].txt[k] = Owner
      BY <3>1, <3>3, EnsureTXT, SetsAssumption DEF TXTValues
    <3>5. toUpsert.target # None
      <4>1. NormalizeDomains(w.out.domains) # {}
        BY <2>1, AliasesType DEF Names
      <4>2. w.out.domains # {}
        BY <4>1 DEF NormalizeDomains
      <4> QED
        BY <4>2, AliasesType DEF OutputHasTarget
    <3>6. \A t \in RRTypes : new[h].addr[t] = toUpsert.target \/ new[h].addr[t] = zone[h].addr[t]
      BY <3>1, <3>2 DEF upsertEntry, RecordSets
    <3> QED
      BY <3>4, <3>5, <3>6
  <2>2. \A h \in Hosts : h \notin Names(toUpsert) => new[h] = zone[h]
    BY DEF UpsertChanges
  <2>3. zone' = zone \/ zone' = new
    BY <1>3 DEF UpsertAliases
  <2> HIDE DEF new
  <2> QED
    BY <2>1, <2>2, <2>3 DEF KeepsRecords
<1> QED
  BY <1>1, <1>2, <1>3
     DEF Next, User, Worker, Edit, Delete, userLeaves, Deliver, DeliverStatus, informerLeaves, Start,
         RejectIngress, RemoveFinalizerUngrouped, DesiredState, SkipDeletion, DeleteDistribution,
         UpdateDistribution, CreateDistribution, distLeaves, ReconcileFinalizer, deleteCDNStatus,
         createCDNStatus, updateCDNStatus, statusLeaves, Crash, vars

(* With ENABLE_DELETION off no step deletes or disables a distribution, or *)
(* removes an address or the last TXT value of a name.                     *)
THEOREM DisabledDeletesNothing == SafetySpec => NothingDeletedWhenDisabled
<1>1. IInv /\ [Next]_vars => [~DeletionEnabled => KeepsDistributions /\ KeepsRecords]_vars
  BY DistributionsKept, RecordsKept
<1> QED
  BY <1>1, Invariance, PTL DEF SafetySpec, NothingDeletedWhenDisabled
=============================================================================
