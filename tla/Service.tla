------------------------------ MODULE Service ------------------------------
(***************************************************************************)
(* The reconciliation of cdn-origin-controller: internal/cloudfront's      *)
(* Service, driven by the controller of controllers/ through the event     *)
(* filter, the work queue and the informer caches of controller-runtime.   *)
(*                                                                         *)
(* The Kubernetes API holds Ingresses and CDNStatuses, CloudFront holds    *)
(* distributions, Route 53 holds a hosted zone.  Users edit Ingresses; one *)
(* worker takes a request from the queue and runs Service.Reconcile, each  *)
(* remote call of which is a step of its own, so that user edits, cache    *)
(* deliveries, failures and restarts fall between any two of them.         *)
(*                                                                         *)
(* Optimistic concurrency: a Kubernetes update carries the resourceVersion *)
(* of the object that was read and is refused once the stored object has   *)
(* changed.  Versions are represented by the contents of the object.       *)
(***************************************************************************)
EXTENDS Route53

CONSTANTS
    Ingresses,       \* namespaced names of Ingresses
    Groups,          \* values of the cdn.group annotation
    DistIds,         \* CloudFront distribution IDs; each fixes an address
    Owner,           \* the ownership TXT value of the CDN class
    Specs,           \* Specs[i]: the contents users give Ingress i
    DeletionEnabled, \* config: ENABLE_DELETION
    IPv6Enabled,     \* config: CF_ENABLE_IPV6
    CreateAlias,     \* CDNClass: createAlias
    IsCreateBlocked, \* config: BLOCK_CREATION
    CreateAllowList, \* config: BLOCK_CREATION_ALLOW_LIST
    Faulty,          \* the remote calls that may fail
    MaxEdits,        \* bound: creations, edits and deletions by users
    MaxFaults,       \* bound: failed remote calls
    MaxCrashes       \* bound: restarts of the controller

CS == INSTANCE CDNStatus WITH RefNames <- Ingresses, RefDomains <- Domains,
                              RefIds <- DistIds, NoValue <- None

(* The contents users control.  lb: the load balancer has been provisioned. *)
(* syntax: "badfn" is an invalid function association, "malformed" an       *)
(* annotation NewCDNIngressFromV1 cannot parse.                             *)
IngressSpecs == [group   : Groups \cup {None},
                 lb      : BOOLEAN,
                 domains : SUBSET Domains,
                 syntax  : {"ok", "badfn", "malformed"}]

Objects == [spec : IngressSpecs, fin : BOOLEAN, deleting : BOOLEAN]

(* members: the Ingresses whose origin and behaviors the distribution has. *)
Distributions == [group   : Groups \cup {None},
                  members : SUBSET Ingresses,
                  domains : SUBSET Domains,
                  enabled : BOOLEAN]

(* What syncDist hands to syncAliases of the Distribution it returns. *)
Outputs == [target  : DistIds \cup {None},
            domains : SUBSET Domains,
            ipv6    : BOOLEAN]

Calls == {"class", "list", "distribution", "alias", "ingress", "cdnstatus"}

ASSUME SpecsAssumption == Specs \in [Ingresses -> SUBSET IngressSpecs]
ASSUME FlagsAssumption == /\ DeletionEnabled \in BOOLEAN
                          /\ IPv6Enabled \in BOOLEAN
                          /\ CreateAlias \in BOOLEAN
                          /\ IsCreateBlocked \in BOOLEAN
ASSUME SetsAssumption == /\ CreateAllowList \subseteq Ingresses
                         /\ Faulty \subseteq Calls
                         /\ DistIds \subseteq Targets
                         /\ Owner \in OwnerValues
ASSUME BoundsAssumption == /\ MaxEdits \in Nat
                           /\ MaxFaults \in Nat
                           /\ MaxCrashes \in Nat
ASSUME NoneAssumption == /\ None \notin Groups
                         /\ None \notin DistIds
                         /\ None \notin Ingresses
                         /\ None \notin Objects
                         /\ None \notin Distributions
                         /\ None \notin CS!Statuses

VARIABLES
    ing,      \* Kubernetes API: Ingress objects
    cache,    \* informer cache of Ingresses
    queue,    \* the controller's work queue
    cdn,      \* Kubernetes API: CDNStatus objects, one name per group
    cdnCache, \* informer cache of CDNStatuses
    dist,     \* CloudFront: distributions
    zone,     \* Route 53: record sets of the hosted zone
    w,        \* the worker: the locals of the Reconcile call in progress
    edits, faults, crashes  \* how much of each bound is used up

vars == <<ing, cache, queue, cdn, cdnCache, dist, zone, w, edits, faults, crashes>>

PCs == {"idle", "started", "dist", "aliasUpsert", "aliasDelete", "finalizer",
        "statusDelete", "statusCreate", "statusUpdate"}

Workers == [pc      : PCs,
            i       : Ingresses \cup {None},     \* request
            obj     : Objects \cup {None},       \* ing, as read and mutated
            read    : Objects \cup {None},       \* its resourceVersion
            desired : SUBSET Ingresses,          \* desiredIngresses
            domains : SUBSET Domains,        \* desiredDist.AlternateDomains
            arn     : DistIds \cup {None},       \* desiredDist.ID
            base    : CS!Statuses \cup {None},   \* cdnStatus's resourceVersion
            st      : CS!Statuses,               \* cdnStatus
            out     : Outputs,                   \* existingDist
            errUp   : BOOLEAN,                   \* errUpsert # nil
            errs    : BOOLEAN]                   \* errs.Len() > 0

EmptyOutput == [target |-> None, domains |-> {}, ipv6 |-> FALSE]

Idle == [pc |-> "idle", i |-> None, obj |-> None, read |-> None, desired |-> {},
         domains |-> {}, arn |-> None, base |-> None, st |-> CS!EmptyStatus,
         out |-> EmptyOutput, errUp |-> FALSE, errs |-> FALSE]

(* The type invariant. *)
TypeOK == /\ ing \in [Ingresses -> Objects \cup {None}]
          /\ cache \in [Ingresses -> Objects \cup {None}]
          /\ queue \subseteq Ingresses
          /\ cdn \in [Groups -> CS!Statuses \cup {None}]
          /\ cdnCache \in [Groups -> CS!Statuses \cup {None}]
          /\ dist \in [DistIds -> Distributions \cup {None}]
          /\ zone \in Zones
          /\ w \in Workers
          /\ edits \in 0 .. MaxEdits
          /\ faults \in 0 .. MaxFaults
          /\ crashes \in 0 .. MaxCrashes

NewObject(s) == [spec |-> s, fin |-> FALSE, deleting |-> FALSE]

(* The controller comes up on a cluster whose Ingresses it has not seen. *)
Init == /\ ing \in [Ingresses -> {NewObject(s) : s \in UNION {Specs[i] : i \in Ingresses}} \cup {None}]
        /\ \A i \in Ingresses : ing[i] # None => ing[i].spec \in Specs[i]
        /\ cache = [i \in Ingresses |-> None]
        /\ queue = {}
        /\ cdn = [g \in Groups |-> None]
        /\ cdnCache = [g \in Groups |-> None]
        /\ dist = [d \in DistIds |-> None]
        /\ zone = [h \in Hosts |-> NoRecords]
        /\ w = Idle
        /\ edits = 0 /\ faults = 0 /\ crashes = 0

-----------------------------------------------------------------------------
(* Users.  Deleting an object that has a finalizer only marks it.          *)

userLeaves == <<cache, queue, cdn, cdnCache, dist, zone, w, faults, crashes>>

Edit(i) ==
    /\ edits < MaxEdits
    /\ \E s \in Specs[i] :
          /\ ing[i] # None => ing[i].spec # s
          /\ ing' = [ing EXCEPT ![i] = IF ing[i] = None THEN NewObject(s)
                                       ELSE [ing[i] EXCEPT !.spec = s]]
    /\ edits' = edits + 1
    /\ UNCHANGED userLeaves

Delete(i) ==
    /\ edits < MaxEdits
    /\ ing[i] # None /\ ~ing[i].deleting
    /\ ing' = [ing EXCEPT ![i] = IF ing[i].fin
                                   THEN [ing[i] EXCEPT !.deleting = TRUE]
                                   ELSE None]
    /\ edits' = edits + 1
    /\ UNCHANGED userLeaves

-----------------------------------------------------------------------------
(* Informers and the event filter (controllers/predicate.go).              *)

HasGroupAnnotation(o) == o.spec.group # None
HasLoadBalancer(o) == o.spec.lb

(* Mutant of ingressPredicate: only Ingresses already managed pass. *)
managedPredicate(o) == o # None /\ o.fin

(* Create, Update and Delete events pass on the same condition; an Update  *)
(* must also have changed the object, and every delivery below has.        *)
ingressPredicate(o) ==
    o # None /\ (o.fin \/ (HasGroupAnnotation(o) /\ HasLoadBalancer(o)))

informerLeaves == <<ing, cdn, dist, zone, w, edits, faults, crashes>>

Deliver(i) ==
    /\ cache[i] # ing[i]
    /\ cache' = [cache EXCEPT ![i] = ing[i]]
    /\ queue' = IF ingressPredicate(IF ing[i] = None THEN cache[i] ELSE ing[i])
                  THEN queue \cup {i} ELSE queue
    /\ UNCHANGED <<cdnCache, informerLeaves>>

DeliverStatus(g) ==
    /\ cdnCache[g] # cdn[g]
    /\ cdnCache' = [cdnCache EXCEPT ![g] = cdn[g]]
    /\ UNCHANGED <<cache, queue, informerLeaves>>

-----------------------------------------------------------------------------
(* Outcomes of a remote call: it succeeds, fails, or takes effect and then *)
(* reports failure (a lost answer, or a later sub-step that failed).       *)

Outcomes(call) ==
    {[applied |-> TRUE, ok |-> TRUE]} \cup
    (IF call \in Faulty /\ faults < MaxFaults
       THEN {[applied |-> a, ok |-> FALSE] : a \in BOOLEAN} ELSE {})

Charge(o) == faults' = IF o.ok THEN faults ELSE faults + 1

(* Mutant of Return: a failed request is not queued again. *)
ReturnNoRequeue(failed) == w' = Idle /\ UNCHANGED queue

(* Reconcile returns: an error puts the request back on the queue. *)
Return(failed) == /\ w' = Idle
                  /\ queue' = IF failed THEN queue \cup {w.i} ELSE queue

workerLeaves == <<cache, cdnCache, edits, crashes>>

-----------------------------------------------------------------------------
(* V1Reconciler.Reconcile and the first part of Service.Reconcile.         *)

(* Mutant of IsBeingRemovedFromDesiredState: deletion is overlooked. *)
IsLosingGroup(o) == ~HasGroupAnnotation(o) /\ o.fin

IsBeingRemovedFromDesiredState(o) ==
    o.deleting \/ (~HasGroupAnnotation(o) /\ o.fin)

Start(i) ==
    /\ w.pc = "idle" /\ i \in queue
    /\ queue' = queue \ {i}
    /\ w' = IF cache[i] = None THEN Idle
            ELSE [Idle EXCEPT !.pc = "started", !.i = i,
                              !.obj = cache[i], !.read = cache[i]]
    /\ UNCHANGED <<ing, cdn, dist, zone, faults, workerLeaves>>

(* The CDN class cannot be fetched, or validateIngress or                  *)
(* NewCDNIngressFromV1 refuses the Ingress.                                *)
RejectIngress ==
    /\ w.pc = "started"
    /\ \E o \in Outcomes("class") :
          /\ ~o.ok \/ w.obj.spec.syntax # "ok"
          /\ Charge(o)
    /\ Return(TRUE)
    /\ UNCHANGED <<ing, cdn, dist, zone, workerLeaves>>

(* Client.Update of the Ingress as read, with its finalizer set to "fin". *)
UpdateIngress(fin, o) ==
    ing' = IF o.applied /\ ing[w.i] = w.read
             THEN [ing EXCEPT ![w.i] = IF ~fin /\ w.obj.deleting THEN None
                                       ELSE [w.obj EXCEPT !.fin = fin]]
             ELSE ing

UpdateIngressOK(o) == o.ok /\ ing[w.i] = w.read

(* "ingress has no group annotation but has finalizer": it is removed. *)
RemoveFinalizerUngrouped ==
    /\ w.pc = "started"
    /\ w.obj.spec.syntax = "ok"
    /\ w.obj.fin /\ ~HasGroupAnnotation(w.obj)
    /\ \E o \in Outcomes("ingress") :
          /\ UpdateIngress(FALSE, o)
          /\ Charge(o)
          /\ Return(~UpdateIngressOK(o))
    /\ UNCHANGED <<cdn, dist, zone, workerLeaves>>

-----------------------------------------------------------------------------
(* desiredState, validateCreation and fetchOrGenerateCDNStatus.            *)

(* Mutant of isPartOfDesiredState: Ingresses on their way out count. *)
isPartOfGroup(o, g) == o.spec.group = g /\ HasLoadBalancer(o)

isPartOfDesiredState(o, g) == /\ ~IsBeingRemovedFromDesiredState(o)
                              /\ o.spec.group = g
                              /\ HasLoadBalancer(o)

desiredIngresses(g) ==
    {j \in Ingresses : cache[j] # None /\ isPartOfDesiredState(cache[j], g)}

(* One Ingress of the cluster that does not parse fails the listing. *)
FetchFails == \E j \in Ingresses :
                 cache[j] # None /\ cache[j].spec.syntax = "malformed"

(* Mutant of ARNByGroup: the cached CDNStatus is trusted. *)
ARNByCachedStatus(g) ==
    {d \in DistIds : dist[d] # None /\ g # None /\ cdnCache[g] # None /\ cdnCache[g].id = d}

ARNByGroup(g) == {d \in DistIds : dist[d] # None /\ dist[d].group = g}

AlternateDomains(js) == UNION {cache[j].spec.domains : j \in js}

IsCreationAllowed(i) == ~IsCreateBlocked \/ i \in CreateAllowList

validateCreation(arns, js) ==
    arns # {} \/ js = {} \/ w.obj.deleting \/ IsCreationAllowed(w.i)

newCDNStatus(js) ==
    [CS!EmptyStatus EXCEPT !.refs = [j \in Ingresses |->
                                       IF j \in js THEN "Failed" ELSE "Absent"]]

CachedStatus(g) == IF g = None THEN None ELSE cdnCache[g]

DesiredState ==
    /\ w.pc = "started"
    /\ w.obj.spec.syntax = "ok"
    /\ ~(w.obj.fin /\ ~HasGroupAnnotation(w.obj))
    /\ LET g == w.obj.spec.group
           js == desiredIngresses(g)
           arns == ARNByGroup(g)
           base == CachedStatus(g)
       IN  \E o \in Outcomes("list") :
             /\ Charge(o)
             /\ IF \/ ~o.ok
                   \/ FetchFails
                   \/ \E d, e \in arns : d # e
                   \/ ~validateCreation(arns, js)
                  THEN Return(TRUE)
                  ELSE /\ w' = [w EXCEPT !.pc = "dist",
                                         !.desired = js,
                                         !.domains = AlternateDomains(js),
                                         !.arn = IF arns = {} THEN None
                                                 ELSE CHOOSE d \in arns : TRUE,
                                         !.base = base,
                                         !.st = IF base = None
                                                  THEN newCDNStatus(js) ELSE base]
                       /\ UNCHANGED queue
    /\ UNCHANGED <<ing, cdn, dist, zone, workerLeaves>>

-----------------------------------------------------------------------------
(* syncDist                                                                *)

AfterDist == IF CreateAlias THEN "aliasUpsert" ELSE "finalizer"

distLeaves == <<ing, queue, cdn, zone, workerLeaves>>

(* desiredDist itself is returned when it is empty; its Address is unset. *)
EmptyDesiredOutput == [EmptyOutput EXCEPT !.ipv6 = IPv6Enabled]

(* deleteDistribution with nothing to delete, or not allowed to. *)
SkipDeletion ==
    /\ w.pc = "dist" /\ w.desired = {}
    /\ w.arn = None \/ ~DeletionEnabled
    /\ w' = [w EXCEPT !.pc = AfterDist, !.out = EmptyDesiredOutput]
    /\ UNCHANGED <<dist, faults, distLeaves>>

(* DistRepo.Delete disables the distribution, waits until that is deployed *)
(* and deletes it; the wait may time out and leave it disabled.            *)
DeleteDistribution ==
    /\ w.pc = "dist" /\ w.desired = {}
    /\ w.arn # None /\ DeletionEnabled
    /\ \E o \in Outcomes("distribution"), timedOut \in BOOLEAN :
          /\ timedOut => ~o.ok /\ o.applied
          /\ Charge(o)
          /\ dist' = IF ~o.applied THEN dist
                     ELSE IF timedOut THEN [dist EXCEPT ![w.arn].enabled = FALSE]
                     ELSE [dist EXCEPT ![w.arn] = None]
          /\ w' = [w EXCEPT !.pc = AfterDist, !.out = EmptyDesiredOutput,
                            !.errs = ~o.ok]
    /\ UNCHANGED distLeaves

(* CloudFront refuses an alternate domain another distribution has. *)
DomainsAreFree(ds, self) ==
    \A d \in DistIds \ {self} : dist[d] # None => dist[d].domains \cap ds = {}

(* Mutant of DesiredDistribution: an existing distribution is not enabled  *)
(* again.                                                                  *)
DesiredDistributionAsEnabled ==
    [group |-> w.obj.spec.group, members |-> w.desired, domains |-> w.domains,
     enabled |-> IF w.arn = None THEN TRUE ELSE dist[w.arn].enabled]

DesiredDistribution == [group   |-> w.obj.spec.group,
                        members |-> w.desired,
                        domains |-> w.domains,
                        enabled |-> TRUE]

(* The end of upsertDistribution: on error the zero Distribution is        *)
(* returned, and reconciliation goes on with it.                           *)
Upserted(d, ok) ==
    LET st == CS!SetIngressRef(w.st, ok, w.i) IN
    w' = [w EXCEPT !.pc = AfterDist,
                   !.errs = ~ok,
                   !.st = IF ok THEN CS!SetAliases(CS!SetInfo(st, d), w.domains)
                          ELSE st,
                   !.out = IF ok THEN [target |-> d, domains |-> w.domains,
                                       ipv6 |-> IPv6Enabled]
                           ELSE EmptyOutput]

UpdateDistribution ==
    /\ w.pc = "dist" /\ w.desired # {} /\ w.arn # None
    /\ LET free == DomainsAreFree(w.domains, w.arn) IN
       \E o \in Outcomes("distribution") :
          /\ Charge(o)
          /\ dist' = IF o.applied /\ free
                       THEN [dist EXCEPT ![w.arn] = DesiredDistribution] ELSE dist
          /\ Upserted(w.arn, o.ok /\ free)
    /\ UNCHANGED distLeaves

(* CloudFront never hands out an ID twice; here one is new when nothing    *)
(* refers to it any more.  IDs are opaque, so which one does not matter.   *)
Unused(d) == /\ dist[d] = None
             /\ \A h \in Hosts, t \in RRTypes : zone[h].addr[t] # d
             /\ \A g \in Groups : cdn[g] # None => cdn[g].id # d

NewId == CHOOSE d \in DistIds : Unused(d)

CreateDistribution ==
    /\ w.pc = "dist" /\ w.desired # {} /\ w.arn = None
    /\ \E d \in DistIds : Unused(d)
    /\ LET free == DomainsAreFree(w.domains, None) IN
       \E o \in Outcomes("distribution") :
          /\ Charge(o)
          /\ dist' = IF o.applied /\ free
                       THEN [dist EXCEPT ![NewId] = DesiredDistribution] ELSE dist
          /\ Upserted(NewId, o.ok /\ free)
    /\ UNCHANGED distLeaves

-----------------------------------------------------------------------------
(* syncAliases                                                             *)

aliasLeaves == <<ing, queue, cdn, dist, workerLeaves>>

toUpsert == NewAliases(w.out.target, Owner, w.out.domains, w.out.ipv6)

getDeletions(desired, current) == current \ desired

(* Mutant of toDelete: ENABLE_DELETION is not consulted. *)
toDeleteAlways ==
    NewAliases(w.out.target, Owner,
                   IF w.st.dns = None THEN {}
                   ELSE getDeletions(NormalizeDomains(w.out.domains),
                                     w.st.dns.records),
                   w.out.ipv6)

toDelete ==
    NewAliases(w.out.target, Owner,
                   IF w.st.dns = None \/ ~DeletionEnabled THEN {}
                   ELSE getDeletions(NormalizeDomains(w.out.domains),
                                     w.st.dns.records),
                   w.out.ipv6)

UpsertAliases ==
    /\ w.pc = "aliasUpsert"
    /\ LET done == UpsertValid(toUpsert, zone) /\ UpsertAccepted(toUpsert, zone)
       IN  \E o \in Outcomes("alias") :
             /\ toUpsert.entries = {} => o.ok
             /\ Charge(o)
             /\ zone' = IF o.applied /\ done
                          THEN UpsertChanges(toUpsert, zone, zone) ELSE zone
             /\ w' = [w EXCEPT !.pc = "aliasDelete",
                               !.errUp = ~(o.ok /\ done),
                               !.st = IF o.ok /\ done
                                        THEN CS!UpsertDNSRecords(@, toUpsert.entries)
                                        ELSE @]
    /\ UNCHANGED aliasLeaves

DeleteAliases ==
    /\ w.pc = "aliasDelete"
    /\ LET done == /\ DeleteValid(toDelete, zone)
                   /\ DeleteAccepted(toDelete, zone, zone)
       IN  \E o \in Outcomes("alias") :
             LET ok == o.ok /\ done
                 st == IF ok THEN CS!RemoveDNSRecords(w.st, toDelete.entries) ELSE w.st
             IN  /\ toDelete.entries = {} => o.ok
                 /\ Charge(o)
                 /\ zone' = IF o.applied /\ done
                              THEN DeleteChanges(toDelete, zone, zone) ELSE zone
                 /\ w' = [w EXCEPT !.pc = "finalizer",
                                   !.st = IF w.errUp \/ ~ok
                                            THEN CS!SetDNSSync(st, FALSE) ELSE st,
                                   !.errs = @ \/ w.errUp \/ ~ok]
    /\ UNCHANGED aliasLeaves

-----------------------------------------------------------------------------
(* The finalizer and the CDNStatus                                         *)

ReconcileFinalizer ==
    /\ w.pc = "finalizer"
    /\ LET fin == w.errs \/ ~IsBeingRemovedFromDesiredState(w.obj) IN
       \E o \in Outcomes("ingress") :
          LET errs == w.errs \/ ~UpdateIngressOK(o)
              obj == [w.obj EXCEPT !.fin = fin]
          IN  /\ UpdateIngress(fin, o)
              /\ Charge(o)
              /\ w' = [w EXCEPT !.obj = obj,
                                !.errs = errs,
                                !.st = IF ~errs /\ IsBeingRemovedFromDesiredState(obj)
                                         THEN CS!RemoveIngressRef(@, w.i) ELSE @,
                                !.pc = IF ~errs /\ w.desired = {} THEN "statusDelete"
                                       ELSE IF w.base = None THEN "statusCreate"
                                       ELSE "statusUpdate"]
    /\ UNCHANGED <<queue, cdn, dist, zone, workerLeaves>>

statusLeaves == <<ing, dist, zone, workerLeaves>>

StatusName == w.obj.spec.group

(* A deletion has no precondition on the version; NotFound is ignored. *)
deleteCDNStatus ==
    /\ w.pc = "statusDelete"
    /\ \E o \in Outcomes("cdnstatus") :
          /\ Charge(o)
          /\ cdn' = IF o.applied /\ StatusName # None
                      THEN [cdn EXCEPT ![StatusName] = None] ELSE cdn
          /\ Return(~o.ok \/ StatusName = None)
    /\ UNCHANGED statusLeaves

(* upsertCDNStatus, first half: Create leaves the status section empty.    *)
(* The name of the object is the group; an empty one is refused.           *)
createCDNStatus ==
    /\ w.pc = "statusCreate"
    /\ LET free == StatusName # None /\ cdn[StatusName] = None IN
       \E o \in Outcomes("cdnstatus") :
          /\ Charge(o)
          /\ cdn' = IF o.applied /\ free
                      THEN [cdn EXCEPT ![StatusName] = CS!EmptyStatus] ELSE cdn
          /\ IF o.ok /\ free
               THEN /\ w' = [w EXCEPT !.pc = "statusUpdate", !.base = CS!EmptyStatus]
                    /\ UNCHANGED queue
               ELSE Return(TRUE)
    /\ UNCHANGED statusLeaves

(* upsertCDNStatus, second half, and handleResult: on success the DNS      *)
(* section is marked synced in memory, after the last save.                *)
updateCDNStatus ==
    /\ w.pc = "statusUpdate"
    /\ LET same == cdn[StatusName] = w.base IN
       \E o \in Outcomes("cdnstatus") :
          /\ Charge(o)
          /\ cdn' = IF o.applied /\ same
                      THEN [cdn EXCEPT ![StatusName] = w.st] ELSE cdn
          /\ Return(w.errs \/ ~(o.ok /\ same))
    /\ UNCHANGED statusLeaves

-----------------------------------------------------------------------------
(* The process dies and comes back: the caches are listed again before the *)
(* worker starts, and every Ingress raises a Create event.                 *)
Crash ==
    /\ crashes < MaxCrashes
    /\ crashes' = crashes + 1
    /\ w' = Idle
    /\ cache' = ing
    /\ cdnCache' = cdn
    /\ queue' = {i \in Ingresses : ingressPredicate(ing[i])}
    /\ UNCHANGED <<ing, cdn, dist, zone, edits, faults>>

Worker == \/ RejectIngress \/ RemoveFinalizerUngrouped \/ DesiredState
          \/ SkipDeletion \/ DeleteDistribution
          \/ UpdateDistribution \/ CreateDistribution
          \/ UpsertAliases \/ DeleteAliases
          \/ ReconcileFinalizer
          \/ deleteCDNStatus \/ createCDNStatus \/ updateCDNStatus

User(i) == Edit(i) \/ Delete(i)

Next == \/ \E i \in Ingresses : User(i) \/ Deliver(i) \/ Start(i)
        \/ \E g \in Groups : DeliverStatus(g)
        \/ Worker
        \/ Crash

(* Watches deliver, a Reconcile call runs to its end, and the rate-limited *)
(* FIFO queue hands out every request sooner or later even while others    *)
(* keep failing.  Users, failures and restarts are not fair.               *)
Fairness == /\ \A i \in Ingresses : WF_vars(Deliver(i)) /\ SF_vars(Start(i))
            /\ \A g \in Groups : WF_vars(DeliverStatus(g))
            /\ WF_vars(Worker)

SafetySpec == Init /\ [][Next]_vars
FairSpec == SafetySpec /\ Fairness
-----------------------------------------------------------------------------
(* Properties *)

(* At any time a group has at most one distribution, whatever fails or     *)
(* restarts: createDistribution is only reached when ARNByGroup found none. *)
AtMostOneDistPerGroup ==
    \A d, e \in DistIds :
        (dist[d] # None /\ dist[e] # None /\ dist[d].group = dist[e].group) => d = e

(* reconcileFinalizer lets a deleted Ingress go only once no distribution  *)
(* of its group serves it, unless deletion is disabled and the group has   *)
(* become empty.                                                           *)
FinalizerSafety ==
    [][\A i \in Ingresses :
          (ing[i] # None /\ ing[i].deleting /\ ing[i].spec.group # None /\ ing'[i] = None)
            => \A d \in ARNByGroup(ing[i].spec.group) :
                  \/ i \notin dist[d].members
                  \/ ~DeletionEnabled /\ w.desired = {}]_vars

(* A step that neither deletes nor disables a distribution. *)
KeepsDistributions ==
    \A d \in DistIds : dist[d] # None => /\ dist'[d] # None
                                         /\ dist[d].enabled => dist'[d].enabled

(* A step that removes no address and no name's last TXT value. *)
KeepsRecords ==
    \A h \in Hosts : /\ \A t \in RRTypes : zone[h].addr[t] # None => zone'[h].addr[t] # None
                     /\ zone[h].txt # <<>> => zone'[h].txt # <<>>

(* With ENABLE_DELETION off no distribution is deleted or disabled and no  *)
(* address or ownership record is removed from the zone.                   *)
NothingDeletedWhenDisabled == [][~DeletionEnabled => KeepsDistributions /\ KeepsRecords]_vars

(* syncAliases removes a record only when its domain is not one of those   *)
(* the same reconciliation wants the distribution to have.                 *)
DeletesOnlyUndesired ==
    [][\A h \in Hosts, t \in RRTypes :
          (zone[h].addr[t] # None /\ zone'[h].addr[t] = None)
            => h \notin {d.host : d \in w.domains}]_vars

(* An Ingress that asks for a CDN and is entitled to one: with creation    *)
(* blocked it must be on the allow list or its group have a distribution.  *)
Live(i) == /\ ing[i] # None
           /\ IsCreationAllowed(i) \/ ARNByGroup(ing[i].spec.group) # {}
           /\ ~ing[i].deleting
           /\ ing[i].spec.group # None
           /\ ing[i].spec.lb
           /\ ing[i].spec.syntax = "ok"

HasRecords(d, ds) ==
    \A x \in ds : /\ \A t \in IF IPv6Enabled THEN RRTypes ELSE {"A"} :
                        zone[x.host].addr[t] = d
                  /\ zone[x.host].txt = <<Owner>>

Served(i) ==
    LET s == ing[i].spec IN
    /\ ing[i].fin
    /\ \E d \in ARNByGroup(s.group) :
          /\ dist[d].enabled
          /\ i \in dist[d].members
          /\ s.domains \subseteq dist[d].domains
          /\ CreateAlias => HasRecords(d, s.domains)
          /\ cdn[s.group] # None
          /\ cdn[s.group].id = d
          /\ cdn[s.group].refs[i] = "Synced"

Quiescent == w.pc = "idle" /\ queue = {} /\ cache = ing /\ cdnCache = cdn

(* When there is nothing left to do, every live Ingress has its finalizer, *)
(* is served by its group's enabled distribution under all its domains,    *)
(* with DNS records, and is reported Synced in the group's CDNStatus.      *)
QuiescentServed == Quiescent => \A i \in Ingresses : Live(i) => Served(i)

(* No Ingress of the cluster makes FetchBy fail. *)
AllParse == \A i \in Ingresses : ing[i] # None => ing[i].spec.syntax # "malformed"

(* Once users, failures and restarts have stopped, every live Ingress is   *)
(* served, and stays so, unless an Ingress that does not parse has been    *)
(* left in the cluster: retries after any mix of failures converge, and    *)
(* what FetchBy held up while such an Ingress was there is made up for     *)
(* once it has been mended or removed.                                     *)
EventuallyServed == <>[](AllParse => \A i \in Ingresses : Live(i) => Served(i))

(* A deleted Ingress does not stay Terminating: its finalizer goes, unless *)
(* it is found not to be valid itself (validateIngress comes before the    *)
(* deletion is looked at) or an Ingress that does not parse is met.        *)
DeletionCompletes ==
    \A i \in Ingresses :
        (ing[i] # None /\ ing[i].deleting)
          ~> \/ ing[i] = None
             \/ ing[i].spec.syntax # "ok"
             \/ ~AllParse

(* README, ENABLE_DELETION: when there is nothing left to do, a            *)
(* distribution serves only Ingresses that exist and are in its group.     *)
NoOrphanMembers ==
    (Quiescent /\ DeletionEnabled) =>
        \A d \in DistIds : dist[d] # None =>
            \A i \in dist[d].members :
                ing[i] # None /\ ing[i].spec.group = dist[d].group
=============================================================================
