# A TLA+ verification of cdn-origin-controller

cdn-origin-controller watches Kubernetes Ingresses and keeps, for every
`cdn.group`, one CloudFront distribution with an origin and behaviors per
Ingress, the Route 53 alias records of its alternate domains, and a `CDNStatus`
resource that reports on it. These modules model the reconciliation and the
repositories it calls, TLC checks them on small instances, and TLAPS proves the
main safety properties for instances of any size.

Paths below are relative to the repository (`src/`).

## 1. Inventory of the system

| Part | State | Operations | Interacts with |
|---|---|---|---|
| Controller and event filter (`controllers/`) | work queue | filter an event, start a reconciliation, queue again on error | watches of the API server; `Service.Reconcile` |
| CloudFront service (`internal/cloudfront/service.go`) | the locals of one `Reconcile` call | compute the desired distribution; sync distribution, aliases, finalizer, status | all the repositories; Kubernetes API |
| Distribution repository (`internal/cloudfront/repository.go`, `aws_models.go`) | none of its own; CloudFront's distribution and ETag | `ARNByGroup`, `Create`, `Sync`, `Delete` with its wait | CloudFront, tagging API, OAC repository |
| OAC repository (`oac_repository.go`, `oac.go`, `oac_lister.go`) | CloudFront's Origin Access Controls | `Sync`, `Delete` | CloudFront |
| Alias repository (`internal/route53/`) | the hosted zone | `Upsert`, `Delete` with ownership TXT records | Route 53, shared with other controllers and people |
| CDNStatus (`api/v1alpha1/cdnstatus_types.go`) | info, DNS records, Ingress references | setters called during a reconciliation | Kubernetes API |
| Ingress parsing and merging (`internal/k8s/`) | none | parse annotations, merge WebACLs, paths and functions of a group | service |
| Builders (`distribution.go`, `origin.go`, `function.go`, `service_helpers.go`) | none | origins by host, behaviors by pattern, validation | service |
| Behavior ordering (`sort.go`) | none | order patterns by specificity | `aws_models.go` |
| Certificate discovery (`internal/certificate/`) | none | list ACM certificates, match them to domains | service |
| Configuration, wiring, helpers | flags | read the environment, connect the parts | all |

What is hard here, and hard to test: Ingresses and CDNStatuses are read from
caches that lag; the calls of one reconciliation go to three remote systems, any
of them may fail with or without having taken effect, and nothing is rolled
back; the process may restart between any two of them; several controllers and
people write to one hosted zone without a lock; CloudFront configurations are
protected by an ETag only between the last read and the write; the wait for a
distribution to be disabled times out and is repeated; Ingresses of one group
are listed in no fixed order and written by different teams. `PROJECT.json`
lists each of these hazards at the line where it bites, with the properties that
cover it or the reason why none does yet.

What correctness means, part by part:

* service: one distribution per group; live Ingresses end up served; deleted
  ones end up gone, and only after the distribution has let go of them; with
  `ENABLE_DELETION` off nothing is deleted;
* alias repository: nobody's record is claimed by two classes, and a
  controller's address and its ownership value come and go together (in full for A
  records, with named exceptions for AAAA);
* distribution repository: success means configured; settings outside the
  controller's remit survive;
* merging and building: no function gets lost, order does not matter, refusals
  have a reason;
* behavior ordering: a request reaches the origin the Ingresses route it to;
* certificate discovery: a certificate that fits is found, and the one found fits
  every domain.

## 2. Modules

| Module | Models | Remarks |
|---|---|---|
| `Route53` | `internal/route53`: domains, aliases, validation, ownership, change batches | operators only; used by the next two |
| `CDNStatus` | methods of the resource | operators only; instantiated by `Service` as `CS` |
| `Service` | controller, filter, queue, caches, `Service.Reconcile` | one action per remote call |
| `AliasRepository` | `Upsert` and `Delete` call by call, several controllers, third parties | one action per Route 53 request |
| `DistRepository` | `Create`, `Sync`, `Delete` and the OACs, for one group | one action per CloudFront request |
| `DistLifecycle` | the contract of `Create`, `Sync` and `Delete`, for one group | abstract; implemented by `DistRepository` |
| `BehaviorOrder` | `sort.go` and, external, how CloudFront picks a behavior | operators only; used by `DistributionBuilder` |
| `Certificates` | `internal/certificate` | operators only; used by `DistributionBuilder` |
| `DistributionBuilder` | from the Ingresses of a group to the request sent to CloudFront | one action, a whole `desiredState` |
| `MC*` | instances for TLC | values of constants only |
| `*_proofs` | theorems | extend the module of the same name and TLAPS; `DistLifecycle_proofs` extends `DistRepository_proofs`, `Finalizer_proofs` and then `Convergence_proofs` extend `Service_proofs` |

### Service

`ing` and `cdn` are the objects in the Kubernetes API, `cache` and `cdnCache`
what the informers have delivered, `queue` the work queue, `dist` CloudFront,
`zone` Route 53, and `w` the locals of the `Reconcile` call in progress with a
program counter. The steps of one call are, in the order of the code:

`Start` (read the Ingress from the cache) → `RejectIngress` (class or function
associations) or `RemoveFinalizerUngrouped` → `DesiredState` (list, look up the
ARN, validate creation, read the status) → one of `SkipDeletion`, `DeleteDistribution`, `UpdateDistribution`, `CreateDistribution`
→ `UpsertAliases` → `DeleteAliases` → `ReconcileFinalizer` → `deleteCDNStatus`,
or `updateCDNStatus`/`createCDNStatus` → `Return`, which queues the request
again after an error. Around it `Edit`, `Delete` (users), `Deliver`,
`DeliverStatus` (watches; `Deliver` applies `ingressPredicate`) and `Crash`, after
which the caches are listed anew and every object raises a create event.

Abstractions. A Kubernetes `resourceVersion` is represented by the contents of
the object read: an update is refused when the stored object differs. This is
weaker than a counter only for an object that was changed and changed back. An
Ingress's specification is reduced to its group, whether its load balancer
exists, its alternate domains and whether it parses; a distribution to its group,
the Ingresses it serves, its domains and whether it is enabled. `DistRepo` calls
are atomic here and fail with or without effect; `DistRepository` opens them up.
A failing call is any of `Outcomes`: an error before the effect, or after it (the
answer is lost).

Assumed: one worker (the default `MaxConcurrentReconciles`) in one replica; the
tagging API answers from the current state of CloudFront; every Ingress has the
controller's class. Two spellings of one domain in a change batch (`a` and `a.`),
which Route 53 would refuse, are merged.

### AliasRepository

Every controller has its own class (`OwnerOf`), distribution (`TargetOf`) and
`CF_ENABLE_IPV6` setting, which a new deployment may change: `IPv6[c]` is the set of
settings it is run with. A call keeps the one it began with (`call[c].ipv6`), and so
do its entries; with `FailedUpdates`, a `Delete` may also come from the zero
`Distribution` of a failed update, which has IPv6 off (`IPv6Enabled`). `Begin`
starts an `Upsert` or a `Delete` of a set of names; `ListAddress` and `ListTXT` read
an entry and validate it; `ChangeUpsert` and `ChangeDelete` send the batch computed
from what was read, which Route 53 applies as a whole or refuses. `Abort` drops a
call at any point; a panic, as at an address record that is not an alias
(`repository.go:108`), is such an end. `ForeignTXT` and `ForeignAddress` are other
writers. Third parties do not remove ownership values and do not point their records
at a controller's distribution.

### DistRepository

`want` is what the Ingresses ask for, `cf` the configuration in CloudFront,
`oacs` the existing OACs, `call` the locals. An ETag is the configuration it was
returned with. `Prepare` is the part of `desiredState` that reads CloudFront (the
WebACL to keep). `Console` are edits by people; `Deploy` is CloudFront reaching
`Deployed`; `WaitTimeout` is `waitUntilDeployed` giving up.

`DistLifecycle` is what the service may rely on, without requests, ETags or OACs:
the distribution is absent, or enabled or disabled with certain origins; while a
call runs it only moves towards the call's goal; a failed call, whether or not it
had an effect, leaves a reconciliation due; a successful one has reached its goal.
The mapping forgets OACs, ETag, WebACL and extras (`DistOf`, `KindsOf`) and reads
the goal off the call in progress (`GoalOf`, none once the call has answered).
`KeepsLifecycle` says that `DistRepository` implements it under this mapping. The
atomic `DeleteDistribution`, `UpdateDistribution` and `CreateDistribution` of
`Service` are this contract with every call run to its end: they may fail with or
without effect, a timed-out deletion leaves the distribution disabled, and an
update enables it again.

Two kinds of OAC that nobody will ever delete are reachable in the model as in
the code: that of a bucket origin that becomes public under the same host (it is
still "in" the desired distribution for `filterOACs`), and those of a deleted
distribution whose OAC deletion failed (the retry finds no distribution). No
document promises otherwise, so no property is stated about them.

### DistributionBuilder

The state is the group's Ingresses, as the list of origins each contributes, what
ACM lists, and the result of the last reconciliation. `Reconcile` takes the
Ingresses in any order, as the cache does, drops invalid function associations,
merges WebACLs and paths, looks for a certificate, builds a map with one origin per
host (`WithOrigin`: the last Ingress of a host remains) with
defaults for what the Ingress leaves out, merges tags, validates, sorts the
behaviors and splits their functions into the two lists of the request. The order
of behaviors with equal patterns is left open (`SortedCustomBehaviors` is a set of
outcomes), since origins come out of a map.

A path is a sequence of character codes, since the order of behaviors depends on
characters; a domain a sequence of labels, since certificates are matched by
label; a certificate the set of its names. One header stands for all, and one
request policy for the policies of an origin. `keepCurrentWebACLConfig` is in
`DistRepository` (`Prepare`). `Matches` and `ServedBy` are CloudFront's documented
rule, that the first behavior in order whose pattern matches serves a request.

## 3. Runs

### Passing

| Run | Properties | Size | Shows |
|---|---|---|---|
| `delete` | `TypeOK`, `AtMostOneDistPerGroup`, `QuiescentServed`, `FinalizerSafety` | 2.6 M states | two Ingresses of a group, deletion on, two user actions, one failed Kubernetes write |
| `keep` | `QuiescentServed`, `NothingDeletedWhenDisabled` | 2.5 M | an Ingress moves between two groups or leaves, another loses its load balancer or is invalid, deletion off, any one remote call fails |
| `live` | `EventuallyServed`, `DeletionCompletes` | 0.25 M | convergence after a failure, deletion off, aliases on, creation blocked for one of two Ingresses, one of which may not parse for a while |
| `teardown` | `EventuallyServed`, `DeletionCompletes` | 0.30 M | convergence after a failure and a restart, deletion on, aliases off |
| `races` | `TypeOK`, `OneOwner`, `AddressHasOwner`, `IPv6LosesOwner` | 3.7 M | two controllers, one without IPv6 and one redeployed with and without it, and a third party, two names |
| `dist_sync` | `TypeOK`, `SuccessMeansConfigured`, `ExtrasPreserved`, `KeepsLifecycle`, `EventuallyConfigured` | 1.9 M | two origins, three changes of the desired state, one failed request, one console edit, timeouts without limit |
| `merge` | `FunctionsKept`, `RefusedForAReason`, `CertificateCoversAll`, `RoutedAsIngress`, `SameAgain` | 0.09 M | three Ingresses with a shared host; two with up to two paths on each of two hosts; two with domains, tags and headers; all listing orders |

Why the bounds are enough. Two Ingresses of one group are the least with which
one can go while the other stays, and a third adds no relation between them that
a pair does not have. One fault in a call leaves each of its prefixes behind, and
the retry then runs against it. Three changes of the desired state make a
distribution come, go and come again, or an origin change its kind twice. Two user actions make an Ingress come and go, or change and go, inside one
reconciliation. One distribution ID more than there are groups lets a second
distribution for a group appear. Two OAC IDs for two origins is the least with
which an OAC may be mistaken for the other's. Six paths, with and without a trailing
slash, one a prefix of another by elements and one only by characters, and twelve
requests on and below them are the cases the ordering can tell apart; two paths
on each of two hosts let a path of one host lie inside and around one of the
other. Two domains, a parent and a child, and certificates for one, the other,
both or neither, alone or behind others on a page, are the cases of `certMatches`.
Two controllers that differ in their IPv6 setting, one of which changes it, are the
least with which a batch can leave an AAAA record of the other's or of its own behind.
(With the other controller changing its setting `races` has 8.3 M states and
passes too.) The two names of that run are interchangeable, and it has no liveness
property, so that TLC may use their symmetry.
`MaxEdits`, `MaxFaults`, `MaxCrashes`,
`MaxChanges` and `MaxConsole` are guards of the actions they bound; nothing else
is cut off. Deadlock is not checked where the system may come to rest (all of
`Service` and `DistRepository`); in `AliasRepository` and `DistributionBuilder` a
call can always be made and it is checked.

The two liveness runs split the configuration (deletion on with aliases off, and
the reverse) because with both on deletion does *not* always complete: that is
the finding `stuck_delete`. `EventuallyServed` and `DeletionCompletes` promise
nothing while some Ingress does not parse, because `FetchBy` then fails for all;
`live` lets an Ingress be malformed from the start or become so, and be mended or
deleted, and shows that nothing of the time in between remains. In the same run
creation is blocked for the second Ingress: it fails until the first one has
created the distribution, and its own retries then bring it in.

Fairness. Watches deliver (`WF` on `Deliver`, `DeliverStatus`); a call that has
begun goes on (`WF` on `Worker`); the rate-limited FIFO queue hands out every
request sooner or later although others keep coming back (`SF` on `Start`, as it
is disabled while the worker is busy). In `DistRepository`, the call goes on and is
repeated after an error, and CloudFront finishes deploying. Users, failures,
restarts and timeouts are never fair and never required.

### Disagreements between the code and what is written about it

Each run below states a sentence of the repository as a property, and TLC finds
the code does otherwise. `PROJECT.json` has the quotations and the lines.

| Run | Property | What happens |
|---|---|---|
| `failed_update` | `DeletesOnlyUndesired` | a failed update makes `syncAliases` delete records live Ingresses want |
| `stuck_delete` | `DeletionCompletes` | records deleted, status not saved: every retry refuses to delete what is gone |
| `late_finalizer` | `NoOrphanMembers` | an Ingress deleted during its first reconciliation leaves its distribution behind (`QuiescentServed`, which is about live Ingresses, does not see it) |
| `dist_webacl` | `WebACLNotRemoved` | a WebACL attached after the desired state was built, and before `Sync` reads the configuration, is removed |
| `certs` | `CertificateFound` | a certificate on the second page of the listing is never looked at |

### Other behaviors worth knowing

The models also have these behaviors of the code. They are limits of what the
properties above can say, and no property claims their absence.

* A record whose CDNStatus entry was not saved (a conflict) is forgotten when the
  Ingress goes: `newAliases` deletes only what the status lists (`service.go:407`).
* `DNS.Synced` is set to true after the last save (`service.go:476`), so after one
  failed alias call it stays false although the zone is as wanted.
* Removing the group annotation removes the finalizer and nothing else
  (`service.go:74`); the old group's distribution keeps the Ingress until another
  Ingress of that group is reconciled.
* An Ingress that loses its group between the event and the first read goes on
  with the empty group and gets a distribution tagged with it: only Ingresses
  that have the finalizer are checked (`service.go:74`).
* With `BLOCK_CREATION` on, reconciling an Ingress that is being deleted creates
  the distribution of the others if the group has none (`service.go:123`).
* One Ingress that does not parse, of whatever group, makes every listing fail
  (`ingress_fetcher_v1.go:47`).
* A restart between the removal of the last finalizer and the deletion of the
  CDNStatus leaves the CDNStatus behind (`service.go:104-117`).
* An unmanaged address record, or another controller's claim, that appears
  between the List and the Change of an `Upsert` is overwritten
  (`route53/repository.go:73-85`). `OneOwner` and `AddressHasOwner` hold all the same:
  the A record and the ownership value change hands together. The AAAA record goes
  with them only if both batches have IPv6 on. A batch without IPv6, computed when
  the name was free, takes the A and TXT records over and leaves the other
  controller's AAAA record behind, without its ownership value and out of its reach.
* An AAAA record also loses its owner without another controller. When IPv6 was
  turned off, or the distribution could not be updated and `newAliases` got a zero
  `Distribution` (`service.go:335`, `service.go:420`), the owner deletes the A and TXT
  records only. A name with such a leftover is refused to every controller with
  IPv6, the owner included, until somebody removes it by hand
  (`route53/repository.go:222`); one without IPv6 does not see it. `races` reaches
  all of these, and `IPv6LosesOwner` says that there is no further way.
* Two Ingresses that want different parameters of one origin host are not
  refused, the last one listed wins (`distribution.go:135`): hence the premise of
  `SameAgain`.
* An alternate domain that moves to another group together with its Ingress is
  refused by CloudFront until the old group's distribution is updated, which
  nothing but a reconciliation of another Ingress of that group does.
* Function associations are validated per Ingress and not after the merge
  (`function_association.go:123`): one Ingress may bring a CloudFront function for
  viewer-request and another a Lambda@Edge function for viewer-response, which
  `README.md:211` rules out. `FunctionsKept` does not see it: it compares the functions
  of each path and pattern as sets, and nothing is lost.
* An Ingress is validated before its deletion is looked at (`service.go:62`): one
  that was edited to be invalid and then deleted stays Terminating until mended.
* An Exact path `/foo/`, or `/`, of one host is shadowed by the longer pattern
  `/foo/*`, or `/*`, of the Prefix path of another: hence `Plain` in the premise of
  `RoutedAsIngress`.
* The same pattern on two hosts is not refused; which of the two is reached is
  left to map order and an unstable sort (`sort.go:77`).
* `certMatches` takes a certificate for `foo.com` that does not name `*.foo.com` to
  match `www.foo.com` (`certificate/service.go:86`): the exception in
  `CertificateCoversAll`.
* The certificate must match all the domains of the group
  (`certificate/service.go:63-72`), where `README.md:103` says any.
* With TLS on, a certificate is looked for even when the group has become empty
  (`service.go:222`). Any certificate then matches, but with none issued the last
  Ingress cannot be deleted.
* Tags of an Ingress go on top of the tags the distribution is found by
  (`distribution.go:228`): an Ingress with a `cdn.group` tag makes `ARNByGroup` lose
  the distribution, and the next reconciliation creates another. `Service` takes
  the group tag to be the group.
* `HasEqualParameters` does not compare headers (`origin.go:83`).
* `/foo` as a Prefix and as an Exact path give one behavior the functions of both
  (`origin.go:156`), possibly two for one event, which CloudFront refuses.

## 4. Proofs

All are of the form `Spec => []Inv`, `Spec => [][A]_vars` or, for the refinement,
`Spec => AbstractSpec`, for every value of the
constants the named assumptions allow: any numbers of Ingresses, groups, domains,
paths, requests and controllers, any bounds, any flags. Every invariant and every
action property that a passing run checks is stated by a theorem.

| Module | Theorem | Inductive invariant |
|---|---|---|
| `Service_proofs` | `TypeCorrect`, `OneDistPerGroup`, `DisabledDeletesNothing` | `IInv` |
| `Finalizer_proofs` | `FinalizerIsSafe` | `FInv` |
| `Convergence_proofs` | `QuiescentIsServed`, if `AliasesStay` | `CInv` |
| `AliasRepository_proofs` | `TypeCorrect`, `OneOwnerAlways` | `OwnerInv` |
| | `AddressHasOwnerAlways`, `IPv6LosesOwnerOnlySo` | `AddressInv` |
| `DistRepository_proofs` | `TypeCorrect`, `ExtrasArePreserved` | `IInv` |
| `DistLifecycle_proofs` | `GoalInvariance`, `LifecycleKept` | `GInv` |
| | `SuccessIsConfigured` | `SInv` |
| `DistributionBuilder_proofs` | `FunctionsAreKept`, `CertificateIsValid`, `RoutingIsRight`, `SameAlways` | `InputsKept`, `ResultIsDesired` |
| | `RefusalsHaveReasons`, if `SinglePage` | the same |

`Route53_proofs` holds the lemmas about validation and change batches that
`AliasRepository_proofs` and the proofs about `Service` share.

* **One distribution per group.** `AtMostOneDistPerGroup` is not inductive: a
  worker about to create could find that somebody else did meanwhile. `IInv` adds
  that the ARN the worker holds is the current one of its group (`ARNIsCurrent`,
  which holds because there is one worker and only it creates and deletes), that a
  busy worker has a request (`HasRequest`) and that a distribution handed to
  `syncAliases` has a target (`OutputHasTarget`).
* **Nothing is deleted when deletion is off.** An action property; the
  distribution half is by cases on the actions, the record half needs that an
  `Upsert` writes the target it was given, hence `OutputHasTarget`.
* **The finalizer is safe.** The worker decides on the object it read at the beginning
  of the call, and lists the group later; in between, the informer may show the Ingress
  deleted for good, created again, or both. `FInv` says what is there then: if the Ingress read
  was being deleted and still exists, the listing leaves it out, and one that has taken
  its place has no finalizer yet (`SeenDeleting`, `ReplacedIsNew`); if it was live, a
  deletion delivered since cannot be over (`SeenAlive`). It also says that the call has
  not changed the object it read (`ObjAsRead`), so that Kubernetes refuses the update if
  somebody else has, and that after a `syncDist` without an error the members of
  the distribution are those listed, or the group is empty and deletion is off
  (`Converged`).
* **A quiet controller has served everybody.** The longest argument. `CInv` says of
  every Ingress that the cache shows as live, and that neither waits in the queue nor
  is the request in progress, that it is served as the cache has it. A call for
  another Ingress rewrites the distribution, the records and the CDNStatus it depends
  on, from a listing that may be stale; each delivery since the listing has queued
  its Ingress again, and for those without a delivery the listing is right. The
  theorem has a hypothesis on the configuration,
  `AliasesStay == CreateAlias => ~DeletionEnabled /\ OneSpelling`. Both halves are
  needed. With aliases and deletion on, a failed update makes `syncAliases` delete the
  records of the whole group (finding `failed_update`). If the Ingress of that call has
  no finalizer yet, because an earlier call for it failed, and the user has deleted it
  since the call read it from the cache, the retry finds no Ingress and ends; the other
  Ingress of the group is never queued again and stays without records. TLC finds that state on
  the instance of `failed_update`; `delete`, whose faults are in Kubernetes writes,
  does not reach it. And a domain written with and without the trailing dot is one name in
  Route 53 but two in CloudFront, so that two distributions claim it.
* **One owner.** A call may write a TXT sequence it read long ago. `CallsSawOneOwner`
  says that what each call has read, and will write back, has at most one ownership value;
  `validateOwnership` is what establishes it.
* **Address has owner.** An A record and its ownership value come and go together:
  every batch, with IPv6 or without, has both, so no hypothesis on IPv6 is needed. But
  batches are stale. A delete batch is applied only if the A record is still the one
  that was read, which must therefore be the controller's own (`SeenIsOwn`); that
  follows from the validation, which sees two answers of different times: the first
  is as consistent as the zone (`FirstIsPaired`), and the second shows no ownership
  value of the controller that the first did not, because only its own calls, one at
  a time, write it (`OwnValueIsSeen`). The AAAA record is not in every batch.
  `IPv6LosesOwnerOnlySo` goes through the steps: a batch with AAAA entries writes or
  removes both, third parties do not touch the ownership values, so that only a batch without AAAA
  entries is left, another's `Upsert` or an own `Delete`.
* **Extras are preserved.** An update writes the extras that were read, and is
  accepted only while the ETag, that is the configuration read, is current.
  `ConfigRead` and `CreatesWhatIsMissing` say what is known of the read
  configuration at each program counter.
* **The contract is kept.** Initial states map to initial states and every step maps
  to a step of `DistLifecycle` or to none (`RefineStep`, one case per action). That a
  request of a deletion only disables or removes what is there, and that the end of
  a call is at its goal, depends on what the call has read and done before. `GInv`
  adds to `IInv` that only calls that want origins are at the steps of `Create` and
  `Sync`, and only calls that want none at those of `Delete` (`GoalFits`); that only
  bucket origins get OACs, so that the configuration sent has the origins asked for
  (`OACsFit`); and that the goal is reached once only OACs are left to be deleted
  (`GoalReached`).
* **Success means configured.** `SInv` adds to `GInv` what the steps of a call leave
  to each other: an OAC that the distribution refers to is that of the origin
  (`OwnOACs`); while OACs are synced, those done exist and no bucket is forgotten
  (`SyncedOACs`); unless another reconciliation is due, the call is for the latest
  desired state (`UpToDate`); and once only superfluous OACs are left to be deleted,
  every bucket has its OAC and the WebACL is the one of the call, unless it was edited
  in the console (`Protected`).
* **The builder.** The state of `DistributionBuilder` remembers little, so the invariant is
  short: the inputs do not change, and the result is one that `desiredState` allows for
  some order of the Ingresses. What takes the length is what the loops of the code
  compute. The provers cannot use an induction theorem that has a predicate as a
  parameter. They can use a set, so induction is done through the least number of a
  set that is not what is claimed (`LeastNumber`, `UpTo`), and for each fold and each recursive
  function a lemma shows that the function its definition chooses exists and satisfies
  the equation (`MergedStepwise`, `OriginsStepwise`, `TagsStepwise`,
  `FlattenSeqElements`, `ReachStepwise`).
  * Functions: the merge of paths keeps what every Ingress seen so far asks for, adds
    nothing that none of them has, and stops only at a conflict (`MergedPaths`); the
    sort loses no behavior (`SortedInOrder`, for which `isInMostSpecificOrder` is shown
    to be a total order of distinct patterns).
  * Certificates: what passes `certMatches` for a domain is valid for it
    (`MatchCovers`), and the filter asks for all the domains of the group.
  * Refusals: each error of `desiredState` is traced to the Ingresses that cause it.
    The hypothesis `SinglePage` says that ACM's listings have one page; with more the
    claim is false, which is the finding `certs`.
  * Order: whether the merge fails, what it yields, the origins and the tags are
    characterised without the order (`RefusedPaths`, `MergedOf`, `OriginsOfAll`,
    `Tagged`), from which two orders give one result; without shared patterns
    there is one way to sort (`SortedOneWay`).
  * Routing: a pattern without wildcards matches itself, `t/*` what begins with `t/`
    (`LiteralMatches`, `WildcardMatches`), so that an Ingress path matches a request
    exactly when one of its patterns does (`PlainMatches`); the first behavior that
    matches is before all others that do (`FirstServes`); and a literal pattern comes
    before the wildcard one it lies under unless it ends in `/` (`LiteralFirst`), which
    is why `Plain` leaves such paths out.

Assumptions. The proofs use the `ASSUME`s of the modules, which TLC evaluates on
every run: `None` is no value of any other kind; patterns and requests are strings that
begin with `/`; domains and names on certificates have labels; a group has finitely
many Ingresses, each of which contributes well-formed origins with finitely many paths;
a listing of ACM has a page, if only an empty one.

The strengthened invariants were checked by TLC before they were proved: `SInv` on
the instance of `dist_sync`, `AddressInv` on that of `races`, `FInv` on that of `delete`, `CInv` on that of `keep`
(2.5 M states), on the same with aliases off and deletion on (1.4 M), and on a fixed group
with two edits and a restart (1.8 M).

Checked by TLC only: liveness (`EventuallyServed`, `DeletionCompletes`,
`EventuallyConfigured`), which needs `ENABLED` and fairness.

## 5. Not modelled, and the plan

Not modelled: OAC names, the access log, price class and description, recorded
events, YAML decoding and the deprecated viewer function annotation, environment
parsing, leader election, generated code and mocks (see `components` in
`PROJECT.json`). Environment parsing and decoding are conversions without state;
what they can yield, the refused input included, is what the models start from.

What could follow:

1. `Service` with the result of `DistributionBuilder` in the place of its abstract
   desired distribution, so that certificates and tags take part in the
   reconciliation (an emptied group without certificate, an overwritten group tag).
2. OAC names: shortened names of two origins or groups that meet (`oac.go:61`).
3. One domain that moves from a group to another; two replicas without leader election.

Theorems to add: what the steps of `Service` that call `DistRepository` and
`AliasRepository` as a whole may assume of these modules, and a refinement of an
abstract specification of the reconciliation by `Service`.
