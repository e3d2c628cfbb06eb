-------------------------- MODULE Finalizer_proofs --------------------------
(***************************************************************************)
(* The proof that reconcileFinalizer lets a deleted Ingress go only once   *)
(* the distribution of its group no longer serves it.                      *)
(*                                                                         *)
(* The difficulty is the informer cache.  A call reads the Ingress from it *)
(* when it starts and lists the group from it again in desiredState, and   *)
(* between the two the Ingress may have been deleted for good, created     *)
(* again and delivered.  The listing then has the new Ingress, and what    *)
(* keeps the call from removing a finalizer is the resourceVersion.        *)
(***************************************************************************)
EXTENDS Service_proofs

Reading == w.pc \in {"started", "dist", "aliasUpsert", "aliasDelete", "finalizer"}

IsDeleting(o) == o # None /\ o.deleting

(* Up to reconcileFinalizer, a call has not changed the Ingress it read. *)
ObjAsRead == Reading => w.read = w.obj

(* When an Ingress the cache shows as deleted is there and is not being    *)
(* deleted, it is a new one that no call has given a finalizer yet.        *)
ReplacedIsNew ==
    \A i \in Ingresses :
        (IsDeleting(cache[i]) /\ ing[i] # None /\ ~ing[i].deleting) => ~ing[i].fin

(* A call that read a deleted Ingress: as long as that one exists, it is   *)
(* not in the listing; once it is replaced, the new one has no finalizer.  *)
SeenDeleting ==
    (Reading /\ w.obj.deleting) =>
        /\ IsDeleting(ing[w.i]) => IsDeleting(cache[w.i]) /\ w.i \notin w.desired
        /\ (ing[w.i] # None /\ ~ing[w.i].deleting) => ~ing[w.i].fin

(* A call that read an Ingress that was not deleted: a deletion that is    *)
(* delivered meanwhile cannot be over before the call is.                  *)
SeenAlive ==
    (Reading /\ ~w.obj.deleting) => (IsDeleting(cache[w.i]) => IsDeleting(ing[w.i]))

(* After a syncDist without error, the group's distribution serves exactly *)
(* the Ingresses listed, if there is one; with deletion disabled a group   *)
(* that has become empty keeps its distribution.                           *)
Converged ==
    (w.pc \in {"aliasUpsert", "aliasDelete", "finalizer"} /\ ~w.errs) =>
        \A d \in ARNByGroup(w.obj.spec.group) :
            dist[d].members = w.desired \/ (~DeletionEnabled /\ w.desired = {})

FInv == IInv /\ ObjAsRead /\ ReplacedIsNew /\ SeenDeleting /\ SeenAlive /\ Converged

-----------------------------------------------------------------------------
(* What the steps of syncDist and syncAliases have in common. *)
LEMMA CallGoesOn ==
  ASSUME TypeOK,
         \/ SkipDeletion \/ DeleteDistribution \/ UpdateDistribution \/ CreateDistribution
         \/ UpsertAliases \/ DeleteAliases
  PROVE  /\ w.pc \in {"dist", "aliasUpsert", "aliasDelete"}
         /\ w'.pc \in {"aliasUpsert", "aliasDelete", "finalizer"}
         /\ w'.i = w.i /\ w'.obj = w.obj /\ w'.read = w.read
         /\ w'.desired = w.desired /\ w'.domains = w.domains /\ w'.base = w.base
         /\ UNCHANGED <<ing, queue, cache, cdn, cdnCache>>
<1>w. w \in Workers
  BY DEF TypeOK
<1>a. AfterDist \in {"aliasUpsert", "finalizer"}
  BY DEF AfterDist
<1>1. CASE SkipDeletion
  BY <1>1, <1>w, <1>a DEF SkipDeletion, distLeaves, workerLeaves, Workers
<1>2. CASE DeleteDistribution
  BY <1>2, <1>w, <1>a DEF DeleteDistribution, distLeaves, workerLeaves, Workers
<1>3. CASE UpdateDistribution
  BY <1>3, <1>w, <1>a DEF UpdateDistribution, Upserted, distLeaves, workerLeaves, Workers
<1>4. CASE CreateDistribution
  BY <1>4, <1>w, <1>a DEF CreateDistribution, Upserted, distLeaves, workerLeaves, Workers
<1>5. CASE UpsertAliases
  BY <1>5, <1>w DEF UpsertAliases, aliasLeaves, workerLeaves, Workers
<1>6. CASE DeleteAliases
  BY <1>6, <1>w DEF DeleteAliases, aliasLeaves, workerLeaves, Workers
<1> QED
  BY <1>1, <1>2, <1>3, <1>4, <1>5, <1>6

(* Users change one Ingress: its contents, which keep what deletion there  *)
(* is, or whether it is there, where a finalizer makes the difference.     *)
LEMMA UserParts ==
  ASSUME TypeOK, NEW i \in Ingresses, Edit(i) \/ Delete(i)
  PROVE  /\ \A j \in Ingresses \ {i} : ing'[j] = ing[j]
         /\ \/ ing[i] = None /\ ing'[i] # None /\ ~ing'[i].deleting /\ ~ing'[i].fin
            \/ /\ ing[i] # None /\ ing'[i] # None
               /\ ing'[i].deleting = ing[i].deleting /\ ing'[i].fin = ing[i].fin
            \/ ing[i] # None /\ ~ing[i].deleting /\ ing[i].fin /\ IsDeleting(ing'[i])
            \/ ing[i] # None /\ ~ing[i].deleting /\ ~ing[i].fin /\ ing'[i] = None
         /\ UNCHANGED userLeaves
<1>o. ing[i] # None => ing[i] \in Objects
  BY DEF TypeOK
<1>1. CASE Edit(i)
  <2>1. PICK s \in Specs[i] :
          ing' = [ing EXCEPT ![i] = IF ing[i] = None THEN NewObject(s)
                                    ELSE [ing[i] EXCEPT !.spec = s]]
    BY <1>1 DEF Edit
  <2>2. s \in IngressSpecs
    BY SpecsAssumption
  <2>3. ing[i] # None => /\ [ing[i] EXCEPT !.spec = s] \in Objects
                         /\ [ing[i] EXCEPT !.spec = s].deleting = ing[i].deleting
                         /\ [ing[i] EXCEPT !.spec = s].fin = ing[i].fin
    BY <1>o, <2>2 DEF Objects
  <2>4. NewObject(s) \in Objects /\ ~NewObject(s).deleting /\ ~NewObject(s).fin
    BY <2>2 DEF NewObject, Objects
  <2>5. ing'[i] = IF ing[i] = None THEN NewObject(s) ELSE [ing[i] EXCEPT !.spec = s]
    BY <2>1 DEF TypeOK
  <2>6. \A j \in Ingresses \ {i} : ing'[j] = ing[j]
    BY <2>1 DEF TypeOK
  <2> QED
    BY <1>1, <2>3, <2>4, <2>5, <2>6, NoneAssumption DEF Edit
<1>2. CASE Delete(i)
  <2>1. ing[i] # None /\ ~ing[i].deleting
    BY <1>2 DEF Delete
  <2>2. /\ [ing[i] EXCEPT !.deleting = TRUE] \in Objects
        /\ [ing[i] EXCEPT !.deleting = TRUE].deleting
    BY <1>o, <2>1 DEF Objects
  <2>3. ing'[i] = IF ing[i].fin THEN [ing[i] EXCEPT !.deleting = TRUE] ELSE None
    BY <1>2 DEF Delete, TypeOK
  <2>4. \A j \in Ingresses \ {i} : ing'[j] = ing[j]
    BY <1>2 DEF Delete, TypeOK
  <2> QED
    BY <1>2, <2>1, <2>2, <2>3, <2>4, NoneAssumption DEF Delete, IsDeleting
<1> QED
  BY <1>1, <1>2

(* The update of the Ingress in a Reconcile call. *)
LEMMA UpdateParts ==
  ASSUME TypeOK, HasRequest, w.pc # "idle", NEW fin \in BOOLEAN, NEW o, UpdateIngress(fin, o)
  PROVE  /\ \A j \in Ingresses \ {w.i} : ing'[j] = ing[j]
         /\ \/ ing' = ing
            \/ /\ ing[w.i] = w.read
               /\ IF ~fin /\ w.obj.deleting THEN ing'[w.i] = None
                  ELSE /\ ing'[w.i] = [w.obj EXCEPT !.fin = fin]
                       /\ ing'[w.i] \in Objects
                       /\ ing'[w.i].spec = w.obj.spec
                       /\ ing'[w.i].deleting = w.obj.deleting
                       /\ ing'[w.i].fin = fin
<1>1. w.i \in Ingresses /\ w.obj \in Objects
  BY DEF HasRequest
<1>2. ing' = ing \/ /\ ing[w.i] = w.read
                    /\ ing' = [ing EXCEPT ![w.i] = IF ~fin /\ w.obj.deleting THEN None
                                                   ELSE [w.obj EXCEPT !.fin = fin]]
  BY DEF UpdateIngress
<1>3. /\ [w.obj EXCEPT !.fin = fin] \in Objects
      /\ [w.obj EXCEPT !.fin = fin].spec = w.obj.spec
      /\ [w.obj EXCEPT !.fin = fin].deleting = w.obj.deleting
      /\ [w.obj EXCEPT !.fin = fin].fin = fin
  BY <1>1 DEF Objects
<1> QED
  BY <1>1, <1>2, <1>3 DEF TypeOK

(* The start of a call and the listing. *)
LEMMA StartParts ==
  ASSUME TypeOK, NEW i \in Ingresses, Start(i)
  PROVE  /\ \/ w' = Idle
            \/ /\ cache[i] # None /\ w'.pc = "started" /\ w'.i = i
               /\ w'.obj = cache[i] /\ w'.read = cache[i] /\ w'.desired = {} /\ ~w'.errs
         /\ queue' = queue \ {i}
         /\ UNCHANGED <<ing, cache, cdn, cdnCache, dist, zone>>
<1>1. /\ [Idle EXCEPT !.pc = "started", !.i = i, !.obj = cache[i], !.read = cache[i]].desired = {}
      /\ ~[Idle EXCEPT !.pc = "started", !.i = i, !.obj = cache[i], !.read = cache[i]].errs
  BY DEF Idle
<1>2. w' = Idle \/ /\ cache[i] # None
                   /\ w' = [Idle EXCEPT !.pc = "started", !.i = i,
                                        !.obj = cache[i], !.read = cache[i]]
  BY DEF Start
<1> QED
  BY <1>1, <1>2, IdleType DEF Start, workerLeaves, Workers

LEMMA DesiredParts ==
  ASSUME TypeOK, HasRequest, DesiredState
  PROVE  /\ w.pc = "started"
         /\ \/ Return(TRUE)
            \/ /\ w'.pc = "dist" /\ w'.i = w.i /\ w'.obj = w.obj /\ w'.read = w.read
               /\ w'.desired = desiredIngresses(w.obj.spec.group)
               /\ w'.errs = w.errs
               /\ UNCHANGED queue
         /\ UNCHANGED <<ing, cache, cdn, cdnCache, dist, zone>>
<1> DEFINE g == w.obj.spec.group
           js == desiredIngresses(g)
           ds == AlternateDomains(js)
           arn == IF ARNByGroup(g) = {} THEN None ELSE CHOOSE d \in ARNByGroup(g) : TRUE
           base == CachedStatus(g)
           st == IF base = None THEN newCDNStatus(js) ELSE base
<1>1. CASE /\ w' = [w EXCEPT !.pc = "dist", !.desired = js, !.domains = ds, !.arn = arn,
                             !.base = base, !.st = st]
           /\ UNCHANGED queue
  <2> HIDE DEF g, js, ds, arn, base, st
  <2>1. /\ w'.pc = "dist" /\ w'.i = w.i /\ w'.obj = w.obj /\ w'.read = w.read
        /\ w'.desired = js /\ w'.errs = w.errs
    BY <1>1 DEF TypeOK, Workers
  <2> USE DEF g, js, ds, arn, base, st
  <2> QED
    BY <1>1, <2>1 DEF DesiredState, workerLeaves
<1>2. CASE Return(TRUE)
  BY <1>2 DEF DesiredState, workerLeaves
<1> QED
  BY <1>1, <1>2, DesiredStateNext

(* Steps that end a call, or are past its reconcileFinalizer. *)
LEMMA CallEnds ==
  ASSUME TypeOK,
         RejectIngress \/ deleteCDNStatus \/ createCDNStatus \/ updateCDNStatus
  PROVE  /\ ~Reading'
         /\ UNCHANGED <<ing, cache, cdnCache, dist, zone>>
<1>w. w \in Workers /\ Idle.pc = "idle"
  BY IdleType DEF TypeOK
<1>1. CASE RejectIngress \/ deleteCDNStatus \/ updateCDNStatus
  <2>1. w' = Idle
    BY <1>1 DEF RejectIngress, deleteCDNStatus, updateCDNStatus, Return
  <2> QED
    BY <1>1, <1>w, <2>1 DEF Reading, RejectIngress, deleteCDNStatus, updateCDNStatus, statusLeaves,
                            workerLeaves
<1>2. CASE createCDNStatus
  <2>1. w' = Idle \/ w' = [w EXCEPT !.pc = "statusUpdate", !.base = CS!EmptyStatus]
    BY <1>2 DEF createCDNStatus, Return
  <2>2. w'.pc \in {"idle", "statusUpdate"}
    BY <1>w, <2>1 DEF Workers
  <2> QED
    BY <1>2, <2>2 DEF Reading, createCDNStatus, statusLeaves, workerLeaves
<1> QED
  BY <1>1, <1>2

(* A call keeps a finalizer unless it has met no error and the Ingress is  *)
(* on its way out.                                                         *)
LEMMA FinalizerParts ==
  ASSUME TypeOK, ReconcileFinalizer
  PROVE  LET fin == w.errs \/ ~IsBeingRemovedFromDesiredState(w.obj) IN
         /\ w.pc = "finalizer" /\ fin \in BOOLEAN
         /\ \E o \in Outcomes("ingress") : UpdateIngress(fin, o)
         /\ w'.pc \in {"statusDelete", "statusCreate", "statusUpdate"}
         /\ UNCHANGED <<queue, cache, cdn, cdnCache, dist, zone>>
<1>1. w'.pc \in {"statusDelete", "statusCreate", "statusUpdate"}
  BY DEF ReconcileFinalizer, TypeOK, Workers
<1> QED
  BY <1>1 DEF ReconcileFinalizer, workerLeaves

(* The part of the invariant that is about one Ingress. *)
LEMMA SeenStep ==
  FInv /\ [Next]_vars => ObjAsRead' /\ ReplacedIsNew' /\ SeenDeleting' /\ SeenAlive'
<1> SUFFICES ASSUME TypeOK, HasRequest, ObjAsRead, ReplacedIsNew, SeenDeleting, SeenAlive,
                    [Next]_vars
             PROVE  ObjAsRead' /\ ReplacedIsNew' /\ SeenDeleting' /\ SeenAlive'
  BY DEF FInv, IInv
<1>r. Reading => w.pc # "idle" /\ w.i \in Ingresses /\ w.obj \in Objects
  BY DEF Reading, HasRequest
<1>i. Idle.pc = "idle"
  BY IdleType
<1>0. ASSUME ~Reading', UNCHANGED <<ing, cache>>
      PROVE  ObjAsRead' /\ ReplacedIsNew' /\ SeenDeleting' /\ SeenAlive'
  BY <1>0 DEF ObjAsRead, ReplacedIsNew, SeenDeleting, SeenAlive
<1>1. CASE UNCHANGED <<ing, cache, w>>
  BY <1>1 DEF Reading, ObjAsRead, ReplacedIsNew, SeenDeleting, SeenAlive
<1>2. ASSUME NEW i \in Ingresses, Edit(i) \/ Delete(i)
      PROVE  ObjAsRead' /\ ReplacedIsNew' /\ SeenDeleting' /\ SeenAlive'
  <2>1. /\ \A j \in Ingresses \ {i} : ing'[j] = ing[j]
        /\ \/ ing[i] = None /\ ing'[i] # None /\ ~ing'[i].deleting /\ ~ing'[i].fin
           \/ /\ ing[i] # None /\ ing'[i] # None
              /\ ing'[i].deleting = ing[i].deleting /\ ing'[i].fin = ing[i].fin
           \/ ing[i] # None /\ ~ing[i].deleting /\ ing[i].fin /\ IsDeleting(ing'[i])
           \/ ing[i] # None /\ ~ing[i].deleting /\ ~ing[i].fin /\ ing'[i] = None
    BY <1>2, UserParts
  <2>2. cache' = cache /\ w' = w
    BY <1>2, UserParts DEF userLeaves
  <2>3. ReplacedIsNew'
    BY <2>1, <2>2 DEF ReplacedIsNew, IsDeleting
  <2>4. ObjAsRead'
    BY <2>2 DEF ObjAsRead, Reading
  <2>5. ASSUME Reading', w'.obj.deleting
        PROVE  /\ IsDeleting(ing'[w.i]) => IsDeleting(cache[w.i]) /\ w.i \notin w.desired
               /\ (ing'[w.i] # None /\ ~ing'[w.i].deleting) => ~ing'[w.i].fin
    <3>1. Reading /\ w.obj.deleting
      BY <2>2, <2>5 DEF Reading
    <3>2. CASE w.i = i
      BY <1>r, <2>1, <3>1, <3>2 DEF SeenDeleting, IsDeleting
    <3>3. CASE w.i # i
      BY <1>r, <2>1, <3>1, <3>3 DEF SeenDeleting
    <3> QED
      BY <3>2, <3>3
  <2>6. ASSUME Reading', ~w'.obj.deleting, IsDeleting(cache[w.i])
        PROVE  IsDeleting(ing'[w.i])
    <3>1. Reading /\ ~w.obj.deleting
      BY <2>2, <2>6 DEF Reading
    <3> QED
      BY <1>r, <2>1, <2>6, <3>1 DEF SeenAlive, IsDeleting
  <2> QED
    BY <2>2, <2>3, <2>4, <2>5, <2>6 DEF SeenDeleting, SeenAlive
<1>3. ASSUME NEW i \in Ingresses, Deliver(i)
      PROVE  ObjAsRead' /\ ReplacedIsNew' /\ SeenDeleting' /\ SeenAlive'
  <2>1. /\ cache'[i] = ing[i] /\ \A j \in Ingresses \ {i} : cache'[j] = cache[j]
        /\ ing' = ing /\ w' = w
    BY <1>3 DEF Deliver, informerLeaves, TypeOK
  <2>2. ReplacedIsNew'
    BY <2>1 DEF ReplacedIsNew, IsDeleting
  <2> QED
    BY <1>r, <2>1, <2>2 DEF Reading, ObjAsRead, SeenDeleting, SeenAlive, IsDeleting
<1>4. ASSUME NEW i \in Ingresses, Start(i)
      PROVE  ObjAsRead' /\ ReplacedIsNew' /\ SeenDeleting' /\ SeenAlive'
  <2>1. /\ \/ w' = Idle
           \/ /\ cache[i] # None /\ w'.pc = "started" /\ w'.i = i
              /\ w'.obj = cache[i] /\ w'.read = cache[i] /\ w'.desired = {}
        /\ UNCHANGED <<ing, cache>>
    BY <1>4, StartParts
  <2>2. CASE w' = Idle
    BY <1>0, <1>i, <2>1, <2>2 DEF Reading
  <2>3. CASE w' # Idle
    BY <2>1, <2>3 DEF ObjAsRead, ReplacedIsNew, SeenDeleting, SeenAlive, IsDeleting
  <2> QED
    BY <2>2, <2>3
<1>5. CASE RejectIngress \/ deleteCDNStatus \/ createCDNStatus \/ updateCDNStatus
  BY <1>0, <1>5, CallEnds
<1>6. CASE RemoveFinalizerUngrouped \/ ReconcileFinalizer
  <2>0. PICK fin \in BOOLEAN : \E o : UpdateIngress(fin, o)
    <3>1. CASE RemoveFinalizerUngrouped
      BY <3>1 DEF RemoveFinalizerUngrouped
    <3>2. CASE ReconcileFinalizer
      BY <3>2, FinalizerParts
    <3> QED
      BY <1>6, <3>1, <3>2
  <2>1. PICK o : UpdateIngress(fin, o)
    BY <2>0
  <2>2. Reading /\ ~Reading' /\ cache' = cache
    <3>1. CASE RemoveFinalizerUngrouped
      BY <3>1, <1>i DEF RemoveFinalizerUngrouped, Return, Reading, workerLeaves
    <3>2. CASE ReconcileFinalizer
      BY <3>2, FinalizerParts DEF Reading
    <3> QED
      BY <1>6, <3>1, <3>2
  <2>3. /\ \A j \in Ingresses \ {w.i} : ing'[j] = ing[j]
        /\ \/ ing' = ing
           \/ ing[w.i] = w.read /\ ing'[w.i] = None
           \/ ing[w.i] = w.read /\ ing'[w.i].deleting = w.obj.deleting
    BY <1>r, <2>1, <2>2, UpdateParts
  <2>4. ReplacedIsNew'
    <3> SUFFICES ASSUME NEW i \in Ingresses, IsDeleting(cache[i]), ing'[i] # None,
                        ~ing'[i].deleting
                 PROVE  ~ing'[i].fin
      BY <2>2 DEF ReplacedIsNew
    <3>1. CASE ing'[i] = ing[i]
      BY <3>1 DEF ReplacedIsNew
    <3>2. CASE ing'[i] # ing[i]
      <4>1. i = w.i /\ ing[w.i] = w.obj /\ ~w.obj.deleting
        BY <2>2, <2>3, <3>2 DEF ObjAsRead
      <4> QED
        BY <2>2, <4>1 DEF SeenAlive, IsDeleting
    <3> QED
      BY <3>1, <3>2
  <2> QED
    BY <2>2, <2>4 DEF ObjAsRead, SeenDeleting, SeenAlive
<1>7. CASE DesiredState
  <2>1. CASE Return(TRUE)
    BY <1>0, <1>7, <1>i, <2>1, DesiredParts DEF Return, Reading
  <2>2. CASE /\ w'.pc = "dist" /\ w'.i = w.i /\ w'.obj = w.obj /\ w'.read = w.read
             /\ w'.desired = desiredIngresses(w.obj.spec.group)
    <3>1. Reading /\ UNCHANGED <<ing, cache>>
      BY <1>7, DesiredParts DEF Reading
    <3>2. IsDeleting(cache[w.i]) => w.i \notin desiredIngresses(w.obj.spec.group)
      BY DEF desiredIngresses, isPartOfDesiredState, IsBeingRemovedFromDesiredState, IsDeleting
    <3> QED
      BY <2>2, <3>1, <3>2 DEF ObjAsRead, ReplacedIsNew, SeenDeleting, SeenAlive
  <2> QED
    BY <1>7, <2>1, <2>2, DesiredParts
<1>8. CASE \/ SkipDeletion \/ DeleteDistribution \/ UpdateDistribution \/ CreateDistribution
           \/ UpsertAliases \/ DeleteAliases
  <2>1. Reading /\ /\ w'.i = w.i /\ w'.obj = w.obj /\ w'.read = w.read /\ w'.desired = w.desired
                   /\ UNCHANGED <<ing, cache>>
    BY <1>8, CallGoesOn DEF Reading
  <2> QED
    BY <2>1 DEF ObjAsRead, ReplacedIsNew, SeenDeleting, SeenAlive
<1>9. CASE Crash
  <2>1. w' = Idle /\ cache' = ing /\ ing' = ing
    BY <1>9 DEF Crash
  <2> QED
    BY <1>i, <2>1 DEF Reading, ObjAsRead, ReplacedIsNew, SeenDeleting, SeenAlive, IsDeleting
<1> QED
  BY <1>1, <1>2, <1>3, <1>4, <1>5, <1>6, <1>7, <1>8, <1>9
     DEF Next, User, Worker, DeliverStatus, informerLeaves, vars

(* The two ways upsertDistribution writes the one distribution of a group. *)
LEMMA UpsertParts ==
  ASSUME IInv, UpdateDistribution \/ CreateDistribution
  PROVE  /\ w.pc = "dist" /\ w.desired # {}
         /\ \E d \in DistIds, ok \in BOOLEAN :
               /\ Upserted(d, ok)
               /\ ARNByGroup(w.obj.spec.group) \subseteq {d}
               /\ dist[d] = None \/ dist[d].group = w.obj.spec.group
               /\ \/ dist' = dist /\ ~ok
                  \/ /\ dist' = [dist EXCEPT ![d] = DesiredDistribution]
                     /\ DomainsAreFree(w.domains, d)
<1> USE DEF IInv
<1>1. CASE UpdateDistribution
  <2>1. PICK o \in Outcomes("distribution") :
          /\ dist' = IF o.applied /\ DomainsAreFree(w.domains, w.arn)
                       THEN [dist EXCEPT ![w.arn] = DesiredDistribution] ELSE dist
          /\ Upserted(w.arn, o.ok /\ DomainsAreFree(w.domains, w.arn))
    BY <1>1 DEF UpdateDistribution
  <2>2. w.pc = "dist" /\ w.desired # {} /\ w.arn # None /\ w.arn \in DistIds
    BY <1>1 DEF UpdateDistribution, TypeOK, Workers
  <2>3. dist[w.arn] # None /\ dist[w.arn].group = w.obj.spec.group
    BY <2>2 DEF ARNIsCurrent
  <2>4. ARNByGroup(w.obj.spec.group) \subseteq {w.arn}
    BY <2>2, <2>3 DEF AtMostOneDistPerGroup, ARNByGroup
  <2>5. o.ok => o.applied
    BY DEF Outcomes
  <2>6. (o.ok /\ DomainsAreFree(w.domains, w.arn)) \in BOOLEAN
    OBVIOUS
  <2> QED
    BY <2>1, <2>2, <2>3, <2>4, <2>5, <2>6
<1>2. CASE CreateDistribution
  <2>1. PICK o \in Outcomes("distribution") :
          /\ dist' = IF o.applied /\ DomainsAreFree(w.domains, None)
                       THEN [dist EXCEPT ![NewId] = DesiredDistribution] ELSE dist
          /\ Upserted(NewId, o.ok /\ DomainsAreFree(w.domains, None))
    BY <1>2 DEF CreateDistribution
  <2>2. w.pc = "dist" /\ w.desired # {} /\ w.arn = None
    BY <1>2 DEF CreateDistribution
  <2>3. NewId \in DistIds /\ dist[NewId] = None
    BY <1>2, NewIdType DEF CreateDistribution, Unused
  <2>4. ARNByGroup(w.obj.spec.group) = {}
    BY <2>2 DEF ARNIsCurrent
  <2>5. o.ok => o.applied
    BY DEF Outcomes
  <2>6. (o.ok /\ DomainsAreFree(w.domains, None)) \in BOOLEAN
    OBVIOUS
  <2>7. DomainsAreFree(w.domains, None) => DomainsAreFree(w.domains, NewId)
    BY NoneAssumption DEF DomainsAreFree
  <2> QED
    BY <2>1, <2>2, <2>3, <2>4, <2>5, <2>6, <2>7
<1> QED
  BY <1>1, <1>2

LEMMA ConvergedStep == FInv /\ [Next]_vars => Converged'
<1> SUFFICES ASSUME IInv, Converged, [Next]_vars
             PROVE  Converged'
  BY DEF FInv
<1>t. TypeOK /\ HasRequest
  BY DEF IInv
<1>i. Idle.pc = "idle"
  BY IdleType
<1>0. ASSUME w'.pc \notin {"aliasUpsert", "aliasDelete", "finalizer"}
      PROVE  Converged'
  BY <1>0 DEF Converged
<1>1. CASE UNCHANGED <<dist, w>>
  BY <1>1 DEF Converged, ARNByGroup
<1>2. ASSUME NEW i \in Ingresses, Start(i)
      PROVE  Converged'
  <2>1. w' = Idle \/ w'.pc = "started"
    BY <1>t, <1>2, StartParts
  <2> QED
    BY <1>0, <1>i, <2>1
<1>3. CASE RejectIngress \/ deleteCDNStatus \/ createCDNStatus \/ updateCDNStatus
  BY <1>0, <1>3, <1>t, CallEnds DEF Reading
<1>4. CASE ReconcileFinalizer
  BY <1>0, <1>4, <1>t, FinalizerParts
<1>5. CASE RemoveFinalizerUngrouped \/ Crash
  BY <1>0, <1>5, <1>i DEF RemoveFinalizerUngrouped, Crash, Return
<1>6. CASE DesiredState
  BY <1>0, <1>6, <1>t, <1>i, DesiredParts DEF Return
<1>7. CASE SkipDeletion
  <2>1. /\ w.pc = "dist" /\ w.desired = {} /\ (w.arn = None \/ ~DeletionEnabled)
        /\ dist' = dist
    BY <1>7 DEF SkipDeletion
  <2>2. w'.obj = w.obj /\ w'.desired = w.desired
    BY <1>7, <1>t, CallGoesOn
  <2>3. CASE w.arn = None
    BY <2>1, <2>2, <2>3 DEF IInv, ARNIsCurrent, ARNByGroup, Converged
  <2>4. CASE ~DeletionEnabled
    BY <2>1, <2>2, <2>4 DEF Converged
  <2> QED
    BY <2>1, <2>3, <2>4
<1>8. CASE DeleteDistribution
  <2>1. PICK o \in Outcomes("distribution"), timedOut \in BOOLEAN :
          /\ timedOut => ~o.ok /\ o.applied
          /\ dist' = IF ~o.applied THEN dist
                     ELSE IF timedOut THEN [dist EXCEPT ![w.arn].enabled = FALSE]
                     ELSE [dist EXCEPT ![w.arn] = None]
          /\ w' = [w EXCEPT !.pc = AfterDist, !.out = EmptyDesiredOutput, !.errs = ~o.ok]
    BY <1>8 DEF DeleteDistribution
  <2>2. w'.errs = ~o.ok /\ w'.obj = w.obj
    BY <2>1, <1>t DEF TypeOK, Workers
  <2>3. CASE o.ok
    <3>1. dist' = [dist EXCEPT ![w.arn] = None]
      BY <2>1, <2>3 DEF Outcomes
    <3>2. w.arn \in DistIds /\ dist[w.arn] # None /\ dist[w.arn].group = w.obj.spec.group
      BY <1>8, <1>t DEF DeleteDistribution, IInv, ARNIsCurrent, TypeOK, Workers
    <3>3. \A d \in DistIds : dist'[d] # None => dist'[d].group # w.obj.spec.group
      BY <3>1, <3>2, <1>t DEF IInv, AtMostOneDistPerGroup, TypeOK
    <3> QED
      BY <2>2, <3>3 DEF Converged, ARNByGroup
  <2>4. CASE ~o.ok
    BY <2>2, <2>4 DEF Converged
  <2> QED
    BY <2>3, <2>4
<1>9. CASE UpdateDistribution \/ CreateDistribution
  <2>1. PICK d \in DistIds, ok \in BOOLEAN :
               /\ Upserted(d, ok)
               /\ ARNByGroup(w.obj.spec.group) \subseteq {d}
               /\ \/ dist' = dist /\ ~ok
                  \/ dist' = [dist EXCEPT ![d] = DesiredDistribution]
    BY <1>9, UpsertParts
  <2>2. w'.errs = ~ok /\ w'.obj = w.obj /\ w'.desired = w.desired
    BY <2>1, <1>t DEF Upserted, TypeOK, Workers
  <2>3. CASE ok
    <3>1. dist' = [dist EXCEPT ![d] = DesiredDistribution]
      BY <2>1, <2>3
    <3>2. dist'[d].members = w.desired
      BY <3>1, <1>t DEF TypeOK, DesiredDistribution
    <3>3. \A e \in DistIds : e # d /\ dist'[e] # None => dist'[e].group # w.obj.spec.group
      BY <2>1, <3>1, <1>t DEF TypeOK, ARNByGroup
    <3> QED
      BY <2>2, <3>2, <3>3 DEF Converged, ARNByGroup
  <2>4. CASE ~ok
    BY <2>2, <2>4 DEF Converged
  <2> QED
    BY <2>3, <2>4
<1>10. CASE UpsertAliases \/ DeleteAliases
  <2>1. /\ w.pc \in {"aliasUpsert", "aliasDelete"}
        /\ w.errs => w'.errs
        /\ dist' = dist
    BY <1>10, <1>t DEF UpsertAliases, DeleteAliases, aliasLeaves, TypeOK, Workers
  <2>2. w'.obj = w.obj /\ w'.desired = w.desired
    BY <1>10, <1>t, CallGoesOn
  <2> QED
    BY <2>1, <2>2 DEF Converged, ARNByGroup
<1> QED
  BY <1>1, <1>2, <1>3, <1>4, <1>5, <1>6, <1>7, <1>8, <1>9, <1>10
     DEF Next, User, Worker, Edit, Delete, userLeaves, Deliver, DeliverStatus, informerLeaves, vars

LEMMA FinalizerInit == Init => FInv
<1> SUFFICES ASSUME Init PROVE FInv
  OBVIOUS
<1>1. w.pc = "idle" /\ \A i \in Ingresses : cache[i] = None
  BY IdleType DEF Init
<1> QED
  BY <1>1, InitInv DEF FInv, Reading, IsDeleting, ObjAsRead, ReplacedIsNew, SeenDeleting,
                       SeenAlive, Converged

LEMMA FinalizerStep == FInv /\ [Next]_vars => FInv'
  BY SeenStep, ConvergedStep, TypeStep, RequestStep, DistStep DEF FInv, IInv

(* The inductive invariant holds of every behaviour. *)
THEOREM FinalizerInvariance == SafetySpec => []FInv
  BY FinalizerInit, FinalizerStep, PTL DEF SafetySpec

(* One step that lets a deleted Ingress with a group go. *)
LEMMA ReleaseStep ==
  ASSUME FInv, [Next]_vars, NEW i \in Ingresses,
         ing[i] # None, ing[i].deleting, ing[i].spec.group # None, ing'[i] = None,
         NEW d \in ARNByGroup(ing[i].spec.group)
  PROVE  i \notin dist[d].members \/ (~DeletionEnabled /\ w.desired = {})
<1>t. TypeOK /\ HasRequest
  BY DEF FInv, IInv
<1>1. ASSUME NEW j \in Ingresses, Edit(j) \/ Delete(j)
      PROVE  FALSE
  BY <1>1, <1>t, UserParts DEF IsDeleting
<1>2. CASE RemoveFinalizerUngrouped
  <2>1. w.pc = "started" /\ w.obj.spec.group = None /\ \E o : UpdateIngress(FALSE, o)
    BY <1>2 DEF RemoveFinalizerUngrouped, HasGroupAnnotation
  <2>2. i = w.i /\ ing[w.i] = w.read
    BY <1>t, <2>1, UpdateParts
  <2>3. w.read = w.obj
    BY <2>1 DEF FInv, ObjAsRead, Reading
  <2> QED
    BY <2>1, <2>2, <2>3
<1>3. CASE ReconcileFinalizer
  <2> DEFINE fin == w.errs \/ ~IsBeingRemovedFromDesiredState(w.obj)
  <2>1. w.pc = "finalizer" /\ fin \in BOOLEAN /\ \E o : UpdateIngress(fin, o)
    BY <1>3, <1>t, FinalizerParts
  <2>2. i = w.i /\ ing[w.i] = w.read /\ ~fin
    <3> HIDE DEF fin
    <3>1. i = w.i /\ ing[w.i] = w.read
      BY <1>t, <2>1, UpdateParts
    <3>2. CASE fin
      <4>1. ing'[w.i] \in Objects
        BY <1>t, <2>1, <3>1, <3>2, UpdateParts
      <4> QED
        BY <3>1, <4>1, NoneAssumption
    <3> QED
      BY <3>1, <3>2
  <2>3. w.read = w.obj /\ w.obj.deleting
    BY <2>1, <2>2 DEF FInv, ObjAsRead, Reading
  <2>4. i \notin w.desired
    BY <2>1, <2>2, <2>3 DEF FInv, SeenDeleting, Reading, IsDeleting
  <2>5. dist[d].members = w.desired \/ (~DeletionEnabled /\ w.desired = {})
    BY <2>1, <2>2, <2>3 DEF FInv, Converged
  <2> QED
    BY <2>4, <2>5
<1>4. CASE UNCHANGED ing
  BY <1>4
<1> QED
  BY <1>1, <1>2, <1>3, <1>4
     DEF Next, User, Worker, Deliver, DeliverStatus, informerLeaves, Start, RejectIngress,
         DesiredState, SkipDeletion, DeleteDistribution, UpdateDistribution, CreateDistribution,
         distLeaves, UpsertAliases, DeleteAliases, aliasLeaves, deleteCDNStatus, createCDNStatus,
         updateCDNStatus, statusLeaves, Crash, vars

(* A deleted Ingress is let go only once no distribution of its group has  *)
(* its origin and behaviors, however stale the cache was when the call     *)
(* listed the group, unless deletion is disabled and the group is empty.   *)
THEOREM FinalizerIsSafe == SafetySpec => FinalizerSafety
<1> DEFINE A == \A i \in Ingresses :
                   (ing[i] # None /\ ing[i].deleting /\ ing[i].spec.group # None /\ ing'[i] = None)
                     => \A d \in ARNByGroup(ing[i].spec.group) :
                           \/ i \notin dist[d].members
                           \/ ~DeletionEnabled /\ w.desired = {}
<1>1. FInv /\ [Next]_vars => [A]_vars
  BY ReleaseStep
<1> QED
  BY <1>1, FinalizerInvariance, PTL DEF SafetySpec, FinalizerSafety
=============================================================================
