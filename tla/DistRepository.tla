--------------------------- MODULE DistRepository ---------------------------
(***************************************************************************)
(* The calls of internal/cloudfront/repository.go and oac_repository.go    *)
(* for the distribution of one group, request by request: Create, which    *)
(* ends in a Sync; Sync, which creates or updates one Origin Access        *)
(* Control (OAC) per bucket origin, updates the distribution under its     *)
(* ETag and then deletes the OACs it no longer needs; and Delete, which    *)
(* disables the distribution, waits until that is deployed and deletes it. *)
(* Any request may fail, with or without effect, and the whole call is     *)
(* then repeated from the start.  People use the AWS console meanwhile.    *)
(*                                                                         *)
(* An ETag is represented by the configuration it was returned with.       *)
(***************************************************************************)
EXTENDS Naturals

CONSTANTS
    Origins,         \* hosts of custom origins
    OACIds,          \* identifiers of Origin Access Controls
    ACLs,            \* WAF WebACLs
    Extras,          \* settings the controller does not manage: default root
                     \* object, error responses, restrictions
    DefaultExtras,   \* what CloudFront sets them to at creation
    None,            \* no value
    DeletionEnabled, \* config: ENABLE_DELETION
    MaxChanges,      \* bound: changes of the desired state
    MaxConsole,      \* bound: changes made in the console
    MaxFaults        \* bound: failed requests

ASSUME NoneAssumption == /\ None \notin OACIds
                         /\ None \notin ACLs
                         /\ None \notin Origins
ASSUME PlainOriginsAssumption == {"absent", "public", "bucket"} \cap OACIds = {}
ASSUME ExtrasAssumption == DefaultExtras \in Extras
ASSUME BoundsAssumption == /\ DeletionEnabled \in BOOLEAN
                           /\ MaxChanges \in Nat
                           /\ MaxConsole \in Nat
                           /\ MaxFaults \in Nat

Kinds == {"absent", "public", "bucket"}

(* The desired state: which origins, of which kind, and the WebACL of the  *)
(* Ingresses' annotations, if any.                                         *)
Desired == [kinds : [Origins -> Kinds], acl : ACLs \cup {None}]

(* A configured origin: absent, public, a bucket without OAC, or an OAC.   *)
Configs == [enabled : BOOLEAN,
            origins : [Origins -> Kinds \cup OACIds],
            webACL  : ACLs \cup {None},
            extras  : Extras]

(* None is no configuration, and nothing the contract below has in its     *)
(* place.                                                                  *)
ASSUME NoValueAssumption == /\ None \notin Configs
                            /\ None \notin [Origins -> Kinds]
                            /\ None \notin [enabled : BOOLEAN, kinds : [Origins -> Kinds]]

VARIABLES
    want,     \* the desired state Ingresses currently express
    dirty,    \* a reconciliation is due
    cf,       \* CloudFront: the distribution's configuration, or None
    deployed, \* CloudFront: whether its status is Deployed
    oacs,     \* CloudFront: oacs[x] is the origin OAC x is named after
    call,     \* the locals of the call in progress
    changes, console, faults   \* how much of each bound is used up

vars == <<want, dirty, cf, deployed, oacs, call, changes, console, faults>>

PCs == {"idle", "create", "sync", "syncOACs", "deleteOACs",
        "delete", "disable", "wait", "remove"}

Calls == [pc   : PCs,
          d    : Desired,                  \* the Distribution passed in
          read : Configs \cup {None},      \* DistributionConfigByID
          etag : Configs \cup {None},      \* ETag of the last waitUntilDeployed
          todo : SUBSET Origins,           \* OACs still to be synced
          ids  : [Origins -> OACIds \cup {None}],
          drop : SUBSET OACIds]            \* OACs still to be deleted

Nothing == [kinds |-> [o \in Origins |-> "absent"], acl |-> None]

NoCall == [pc |-> "idle", d |-> Nothing, read |-> None, etag |-> None, todo |-> {},
           ids |-> [o \in Origins |-> None], drop |-> {}]

(* The type invariant. *)
TypeOK == /\ want \in Desired
          /\ dirty \in BOOLEAN
          /\ cf \in Configs \cup {None}
          /\ deployed \in BOOLEAN
          /\ oacs \in [OACIds -> Origins \cup {None}]
          /\ call \in Calls
          /\ changes \in 0 .. MaxChanges
          /\ console \in 0 .. MaxConsole
          /\ faults \in 0 .. MaxFaults

Init == /\ want = Nothing /\ dirty = FALSE
        /\ cf = None /\ deployed = FALSE
        /\ oacs = [x \in OACIds |-> None]
        /\ call = NoCall
        /\ changes = 0 /\ console = 0 /\ faults = 0

-----------------------------------------------------------------------------
(* The surroundings *)

ChangeDesired ==
    /\ changes < MaxChanges
    /\ want' \in Desired \ {want}
    /\ dirty' = TRUE
    /\ changes' = changes + 1
    /\ UNCHANGED <<cf, deployed, oacs, call, console, faults>>

consoleLeaves == <<want, dirty, oacs, call, changes, faults>>

(* Somebody edits the distribution in the console, or deletes it there. *)
Console ==
    /\ console < MaxConsole /\ cf # None
    /\ \/ /\ \E acl \in ACLs \cup {None}, x \in Extras :
                cf' = [cf EXCEPT !.webACL = acl, !.extras = x]
          /\ cf' # cf
          /\ deployed' = FALSE
       \/ /\ ~cf.enabled /\ deployed
          /\ cf' = None
          /\ UNCHANGED deployed
    /\ console' = console + 1
    /\ UNCHANGED consoleLeaves

(* A new configuration reaches the edge locations. *)
Deploy == /\ cf # None /\ ~deployed
          /\ deployed' = TRUE
          /\ UNCHANGED <<cf, console, consoleLeaves>>

-----------------------------------------------------------------------------
(* Requests and returns *)

Outcomes == {[applied |-> TRUE, ok |-> TRUE]} \cup
            (IF faults < MaxFaults THEN {[applied |-> a, ok |-> FALSE] : a \in BOOLEAN}
             ELSE {})

Charge(o) == faults' = IF o.ok THEN faults ELSE faults + 1

(* Mutant of Fail: the reconciliation is not repeated. *)
FailQuietly == call' = NoCall /\ UNCHANGED dirty

Return == call' = NoCall /\ UNCHANGED dirty
Fail == call' = NoCall /\ dirty' = TRUE
Continue(c) == call' = c /\ UNCHANGED dirty

callLeaves == <<want, changes, console>>

(* Mutant of IfMatch: the ETag is ignored. *)
IfExists(etag) == cf # None

(* CloudFront refuses a change whose ETag is not the current one. *)
IfMatch(etag) == cf = etag

IsEmpty(d) == \A o \in Origins : d.kinds[o] = "absent"

-----------------------------------------------------------------------------
(* newDistribution and keepCurrentWebACLConfig read the current WebACL     *)
(* when no Ingress names one; syncDist then picks the call.                *)
Prepare ==
    /\ call.pc = "idle" /\ dirty
    /\ LET acl == IF want.acl = None /\ cf # None THEN cf.webACL ELSE want.acl
           pc == IF IsEmpty(want)
                   THEN IF cf # None /\ DeletionEnabled THEN "delete" ELSE "idle"
                   ELSE IF cf = None THEN "create" ELSE "sync"
       IN  call' = IF pc = "idle" THEN NoCall
                   ELSE [NoCall EXCEPT !.pc = pc, !.d = [want EXCEPT !.acl = acl]]
    /\ dirty' = FALSE
    /\ UNCHANGED <<cf, deployed, oacs, faults, callLeaves>>

(* Mutant of newAWSDistributionConfig: unmanaged settings are dropped. *)
configWithoutExtras(d, ids, extras) ==
    [enabled |-> TRUE,
     origins |-> [o \in Origins |-> IF ids[o] # None THEN ids[o] ELSE d.kinds[o]],
     webACL  |-> d.acl,
     extras  |-> None]

(* Mutant of newAWSDistributionConfig: a disabled distribution stays so. *)
configAsEnabled(d, ids, extras) ==
    [enabled |-> cf = None \/ cf.enabled,
     origins |-> [o \in Origins |-> IF ids[o] # None THEN ids[o] ELSE d.kinds[o]],
     webACL  |-> d.acl,
     extras  |-> extras]

(* newAWSDistributionConfig: enabled, and bucket origins without an OAC. *)
newAWSDistributionConfig(d, ids, extras) ==
    [enabled |-> TRUE,
     origins |-> [o \in Origins |-> IF ids[o] # None THEN ids[o] ELSE d.kinds[o]],
     webACL  |-> d.acl,
     extras  |-> extras]

Create ==
    /\ call.pc = "create"
    /\ \E o \in Outcomes :
          /\ Charge(o)
          /\ IF o.applied
               THEN /\ cf' = newAWSDistributionConfig(call.d, NoCall.ids, DefaultExtras)
                    /\ deployed' = FALSE
               ELSE UNCHANGED <<cf, deployed>>
          /\ IF o.ok THEN Continue([call EXCEPT !.pc = "sync"]) ELSE Fail
    /\ UNCHANGED <<oacs, callLeaves>>

-----------------------------------------------------------------------------
(* Sync *)

OACsOf(config, os) == {config.origins[o] : o \in os} \cap OACIds

(* DistributionConfigByID and diffDesiredAndObservedOACs. *)
ReadConfig ==
    /\ call.pc = "sync"
    /\ \E o \in Outcomes :
          /\ Charge(o)
          /\ IF o.ok /\ cf # None
               THEN Continue([call EXCEPT !.pc = "syncOACs",
                       !.read = cf,
                       !.todo = {x \in Origins : call.d.kinds[x] = "bucket"},
                       !.drop = OACsOf(cf, {x \in Origins : call.d.kinds[x] = "absent"})])
               ELSE Fail
    /\ UNCHANGED <<cf, deployed, oacs, callLeaves>>

(* oacRepository.Sync: the OAC is found by name and overwritten, or made. *)
SyncOAC ==
    /\ call.pc = "syncOACs" /\ call.todo # {}
    /\ \E x \in call.todo, o \in Outcomes :
          LET found == {y \in OACIds : oacs[y] = x}
              fresh == {y \in OACIds : oacs[y] = None}
          IN  \E y \in IF found # {} THEN found ELSE fresh :
                 /\ Charge(o)
                 /\ oacs' = IF o.applied THEN [oacs EXCEPT ![y] = x] ELSE oacs
                 /\ IF o.ok THEN Continue([call EXCEPT !.todo = @ \ {x}, !.ids[x] = y])
                    ELSE Fail
    /\ UNCHANGED <<cf, deployed, callLeaves>>

(* UpdateDistribution keeps the settings that were read and is refused     *)
(* when the distribution has changed since.                                *)
UpdateConfig ==
    /\ call.pc = "syncOACs" /\ call.todo = {}
    /\ LET match == IfMatch(call.read) IN
       \E o \in Outcomes :
          /\ Charge(o)
          /\ IF o.applied /\ match
               THEN /\ cf' = newAWSDistributionConfig(call.d, call.ids, call.read.extras)
                    /\ deployed' = FALSE
               ELSE UNCHANGED <<cf, deployed>>
          /\ IF o.ok /\ match THEN Continue([call EXCEPT !.pc = "deleteOACs"]) ELSE Fail
    /\ UNCHANGED <<oacs, callLeaves>>

-----------------------------------------------------------------------------
(* oacRepository.Delete, one OAC at a time, after Sync's update or         *)
(* Delete's deletion.  CloudFront refuses to delete an OAC that is in use. *)

InUse(y) == cf # None /\ y \in OACsOf(cf, Origins)

DeleteOAC ==
    /\ call.pc = "deleteOACs"
    /\ \E y \in call.drop, o \in Outcomes :
          LET done == ~DeletionEnabled \/ ~InUse(y) IN
          /\ Charge(o)
          /\ oacs' = IF o.applied /\ DeletionEnabled /\ ~InUse(y)
                       THEN [oacs EXCEPT ![y] = None] ELSE oacs
          /\ IF o.ok /\ done THEN Continue([call EXCEPT !.drop = @ \ {y}]) ELSE Fail
    /\ UNCHANGED <<cf, deployed, callLeaves>>

(* The last OAC is gone: Delete returns, Sync goes on to TagResource. *)
FinishOACs ==
    /\ call.pc = "deleteOACs" /\ call.drop = {}
    /\ \E o \in Outcomes :
          /\ IsEmpty(call.d) => o.ok
          /\ Charge(o)
          /\ IF o.ok THEN Return ELSE Fail
    /\ UNCHANGED <<cf, deployed, oacs, callLeaves>>

-----------------------------------------------------------------------------
(* Delete.  NoSuchDistribution is not an error at any point; only after    *)
(* DeleteDistribution does the call still go on to the OACs.               *)

ReadForDelete ==
    /\ call.pc = "delete"
    /\ \E o \in Outcomes :
          /\ Charge(o)
          /\ IF ~o.ok THEN Fail
             ELSE IF cf = None THEN Return
             ELSE Continue([call EXCEPT !.pc = IF cf.enabled THEN "disable" ELSE "wait",
                                        !.read = cf,
                                        !.drop = OACsOf(cf, Origins)])
    /\ UNCHANGED <<cf, deployed, oacs, callLeaves>>

disableDist ==
    /\ call.pc = "disable"
    /\ LET match == IfMatch(call.read) IN
       \E o \in Outcomes :
          /\ Charge(o)
          /\ IF o.applied /\ match
               THEN cf' = [cf EXCEPT !.enabled = FALSE] /\ deployed' = FALSE
               ELSE UNCHANGED <<cf, deployed>>
          /\ IF o.ok /\ cf = None THEN Return
             ELSE IF o.ok /\ match THEN Continue([call EXCEPT !.pc = "wait"])
             ELSE Fail
    /\ UNCHANGED <<oacs, callLeaves>>

(* A poll that finds the distribution deployed, or gone. *)
waitUntilDeployed ==
    /\ call.pc = "wait"
    /\ cf # None => deployed
    /\ IF cf = None THEN Return ELSE Continue([call EXCEPT !.pc = "remove", !.etag = cf])
    /\ UNCHANGED <<cf, deployed, oacs, faults, callLeaves>>

(* Mutant of WaitTimeout: giving up is taken for success. *)
WaitTimeoutReturns ==
    /\ call.pc = "wait"
    /\ cf # None /\ ~deployed
    /\ Return
    /\ UNCHANGED <<cf, deployed, oacs, faults, callLeaves>>

(* The time is up while the distribution is still being deployed. *)
WaitTimeout ==
    /\ call.pc = "wait"
    /\ cf # None /\ ~deployed
    /\ Fail
    /\ UNCHANGED <<cf, deployed, oacs, faults, callLeaves>>

(* DeleteDistribution is refused when the ETag is old or the distribution  *)
(* is enabled or not deployed.                                             *)
Remove ==
    /\ call.pc = "remove"
    /\ LET done == cf # None => (IfMatch(call.etag) /\ ~cf.enabled /\ deployed) IN
       \E o \in Outcomes :
          /\ Charge(o)
          /\ cf' = IF o.applied /\ done THEN None ELSE cf
          /\ IF o.ok /\ done THEN Continue([call EXCEPT !.pc = "deleteOACs"]) ELSE Fail
    /\ UNCHANGED <<deployed, oacs, callLeaves>>

-----------------------------------------------------------------------------
Repository == \/ Prepare \/ Create
              \/ ReadConfig \/ SyncOAC \/ UpdateConfig \/ DeleteOAC \/ FinishOACs
              \/ ReadForDelete \/ disableDist \/ waitUntilDeployed \/ Remove

Next == ChangeDesired \/ Console \/ Deploy \/ Repository \/ WaitTimeout

SafetySpec == Init /\ [][Next]_vars

(* Calls run to their end and are retried, CloudFront deploys; a timeout   *)
(* may happen any number of times.                                         *)
FairSpec == SafetySpec /\ WF_vars(Repository) /\ WF_vars(Deploy)

-----------------------------------------------------------------------------
(* Properties *)

(* Settings the controller does not manage survive every request it makes, *)
(* also when they are edited in the middle of a Sync or a Delete: the      *)
(* update carries the ETag of the configuration it copied them from.       *)
ExtrasPreserved ==
    [][(cf # None /\ cf' # None /\ console' = console) => cf'.extras = cf.extras]_vars

(* The distribution is as desired: every bucket origin has an OAC of its   *)
(* own that exists, and the WebACL of the annotation is attached.          *)
Configured ==
    IF IsEmpty(want) THEN DeletionEnabled => cf = None
    ELSE /\ cf # None
         /\ cf.enabled
         /\ \A o \in Origins :
               IF want.kinds[o] = "bucket"
                 THEN cf.origins[o] \in OACIds /\ oacs[cf.origins[o]] = o
                 ELSE cf.origins[o] = want.kinds[o]
         /\ want.acl # None /\ console = 0 => cf.webACL = want.acl

(* Whatever requests failed on the way, and after whichever of them, when  *)
(* the call has finally returned success the distribution is as desired.   *)
SuccessMeansConfigured ==
    (call.pc = "idle" /\ ~dirty) => Configured

(* Once failures stop, every desired state is reached, and an emptied      *)
(* distribution is disabled and deleted, however often the wait times out. *)
EventuallyConfigured == <>[]Configured

KindsOf(config) ==
    [o \in Origins |-> IF config.origins[o] \in OACIds THEN "bucket" ELSE config.origins[o]]

DistOf(config) == IF config = None THEN None
                  ELSE [enabled |-> config.enabled, kinds |-> KindsOf(config)]

GoalOf(c) == IF c.pc = "idle" THEN None ELSE c.d.kinds

Lifecycle == INSTANCE DistLifecycle WITH
    want <- want.kinds, due <- dirty, dist <- DistOf(cf), goal <- GoalOf(call)

(* Request by request, with failures, timeouts and edits in the console,   *)
(* the calls keep the contract of DistLifecycle: no update disables the    *)
(* distribution or leaves it between two configurations, nothing enabled   *)
(* is deleted, and no call returns success short of its goal.              *)
KeepsLifecycle == Lifecycle!Spec

(* README, WebACL: "The controller will not remove a WebACL from an        *)
(* existing distribution during reconciliation".                           *)
WebACLNotRemoved ==
    [][(cf # None /\ cf' # None /\ console' = console /\ cf.webACL # None)
         => cf'.webACL # None]_vars
=============================================================================
