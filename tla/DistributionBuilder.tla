------------------------ MODULE DistributionBuilder ------------------------
(***************************************************************************)
(* How the Ingresses of a group become one desired distribution:           *)
(* NewSharedIngressParams of internal/k8s merges WebACLs and, per origin   *)
(* host and path, function associations; newDistribution of                *)
(* internal/cloudfront builds one origin per host with its behaviors.      *)
(*                                                                         *)
(* The Ingresses come from the informer cache, whose List has no fixed     *)
(* order.  Every reconciliation of an unchanged group therefore runs the   *)
(* same loops over another permutation of the same Ingresses.              *)
(***************************************************************************)
EXTENDS BehaviorOrder, Certificates

CONSTANTS
    Names,          \* Ingresses of the group
    Groups,         \* what the Ingresses may contribute (see Init)
    Hosts,          \* hosts of origins
    DefaultHost,    \* config: CF_DEFAULT_ORIGIN_DOMAIN
    DefaultTimeout, \* response timeout of an origin that sets none
    Timeouts,       \* response timeouts
    Policies,       \* request policies; cache and response ones are alike
    DefaultPolicies,\* config: the request policy of each kind of access
    Headers,        \* values an Ingress may give to the origin header
    HostTemplate,   \* the value "{{origin.host}}"
    ARNs,           \* functions
    ACLs,           \* WAF WebACLs
    Patterns,       \* the paths Ingresses and user origins name
    Domains,        \* alternate domains
    TagKeys,        \* keys of tags, "owned" and "group" among them
    TagValues,      \* values of tags
    CustomTags,     \* config: CF_CUSTOM_TAGS
    TLSEnabled,     \* config: whether CF_SECURITY_POLICY is set
    Listings,       \* what ACM may list
    Requests,       \* paths viewers ask for
    None            \* no value

(* CloudFront functions and Lambda@Edge functions, by the event they serve. *)
Events == {"viewer-request", "viewer-response", "origin-request", "origin-response"}
Functions == [arn : ARNs, type : {"cloudfront", "edge"}, body : BOOLEAN]
FunctionAssociations ==
    {fa \in [Events -> Functions \cup {None}] :
        \A e \in Events : fa[e] # None =>
            /\ e \in {"origin-request", "origin-response"} => fa[e].type = "edge"
            /\ e \in {"viewer-response", "origin-response"} => ~fa[e].body}

(* A path of an Ingress with its PathType, which those of user origins do *)
(* not have.                                                               *)
Paths == [pattern : Patterns,
          type : {"Prefix", "Exact", "ImplementationSpecific", "unset"}]

Tags == [TagKeys -> TagValues \cup {None}]

(* One origin an Ingress contributes: its load balancer or a user origin.  *)
(* fas maps the paths it names to their function associations; None stands *)
(* for an annotation the Ingress does not have.                            *)
IsCDNIngress(c) == /\ DOMAIN c = {"host", "access", "timeout", "policy", "headers",
                                  "acl", "domains", "tags", "fas"}
                   /\ c.host \in Hosts
                   /\ c.access \in {"Public", "Bucket"}
                   /\ c.timeout \in Timeouts \cup {None}
                   /\ c.policy \in Policies \cup {None}
                   /\ c.headers \in Headers \cup {HostTemplate, None}
                   /\ c.acl \in ACLs \cup {None}
                   /\ c.domains \subseteq Domains
                   /\ c.tags \in Tags
                   /\ DOMAIN c.fas \subseteq Paths /\ IsFiniteSet(DOMAIN c.fas)
                   /\ \A p \in DOMAIN c.fas : c.fas[p] \in FunctionAssociations

ASSUME HostsAssumption == DefaultHost \in Hosts /\ DefaultTimeout \in Timeouts
ASSUME PoliciesAssumption == DefaultPolicies \in [{"Public", "Bucket"} -> Policies]
ASSUME PatternsAssumption ==
    \A p \in Patterns \cup Requests : p \in Seq(Nat) /\ Len(p) > 0 /\ p[1] = Slash
ASSUME DomainsAssumption == \A d \in Domains : d \in Seq(STRING) /\ Len(d) > 0
ASSUME TagsAssumption == /\ {"owned", "group"} \subseteq TagKeys
                         /\ {"true", "this"} \subseteq TagValues
                         /\ CustomTags \in Tags
(* A listing has a page, if only an empty one, and names have labels. *)
ASSUME ListingsAssumption ==
    /\ TLSEnabled \in BOOLEAN
    /\ \A l \in Listings : /\ l \in Seq(Seq(SUBSET (Seq(STRING) \ {<<>>})))
                           /\ Len(l) > 0
                           /\ \A k \in DOMAIN l : \A j \in DOMAIN l[k] : l[k][j] # None
ASSUME GroupsAssumption ==
    /\ IsFiniteSet(Names)
    /\ \A g \in Groups : \A n \in Names :
          /\ g[n] \in Seq({g[n][k] : k \in DOMAIN g[n]})
          /\ \A k \in DOMAIN g[n] : IsCDNIngress(g[n][k])

VARIABLES
    group,   \* group[n]: the origins Ingress n contributes, in order
    acm,     \* the certificates ACM lists, in pages
    result   \* the desired distribution of the last reconciliation

vars == <<group, acm, result>>

-----------------------------------------------------------------------------
(* Function associations of one path *)

NoFunctions == [e \in Events |-> None]

isCompatibleWith(request, response) ==
    (request # None /\ response # None) => request.type = response.type

Validate(fa) ==
    /\ fa["viewer-request"] # None =>
          ~(fa["viewer-request"].type = "cloudfront" /\ fa["viewer-request"].body)
    /\ isCompatibleWith(fa["viewer-request"], fa["viewer-response"])

(* pathsForFunctionAssociations: invalid ones are logged and left out.  An *)
(* invalid user origin makes the listing fail and is not an input here.    *)
pathsForFunctionAssociations(c) ==
    [c EXCEPT !.fas = [p \in DOMAIN c.fas |->
                         IF Validate(c.fas[p]) THEN c.fas[p] ELSE NoFunctions]]

Conflicting(fa, other) ==
    \E e \in Events : fa[e] # None /\ other[e] # None /\ fa[e] # other[e]

(* Mutant of Merge: only what the first Ingress says is kept. *)
MergeFirstWins(fa, other) == fa

Merge(fa, other) == [e \in Events |-> IF fa[e] = None THEN other[e] ELSE fa[e]]

-----------------------------------------------------------------------------
(* NewSharedIngressParams *)

(* Mutant of mergedWebACL: an Ingress without WebACL counts as one. *)
mergedWebACLWithEmpty(s) == {s[k].acl : k \in DOMAIN s}

mergedWebACL(s) == {s[k].acl : k \in DOMAIN s} \ {None}

mergeIngress(acc, c) ==
    LET seen == acc.fas[c.host]
        both == DOMAIN seen \cap DOMAIN c.fas
    IN  IF ~acc.ok \/ \E p \in both : Conflicting(seen[p], c.fas[p])
          THEN [acc EXCEPT !.ok = FALSE]
          ELSE [acc EXCEPT !.fas[c.host] =
                  [p \in DOMAIN seen \cup DOMAIN c.fas |->
                     IF p \in both THEN Merge(seen[p], c.fas[p])
                     ELSE IF p \in DOMAIN seen THEN seen[p] ELSE c.fas[p]]]

mergedPaths(s) ==
    FoldLeft(mergeIngress, [ok |-> TRUE, fas |-> [h \in Hosts |-> <<>>]], s)

-----------------------------------------------------------------------------
(* newDistribution *)

TrimSuffix(path) == IF path[Len(path)] = Slash THEN Front(path) ELSE path

buildPatternsForPrefix(path) ==
    IF path = <<Slash>> THEN {<<Slash, Star>>}
    ELSE {TrimSuffix(path), TrimSuffix(path) \o <<Slash, Star>>}

pathPatternsForPath(p) ==
    IF p.type = "Prefix" THEN buildPatternsForPrefix(p.pattern) ELSE {p.pattern}

(* Mutant of PathsFromOrigin: an origin only gets its own Ingress's paths. *)
OwnPaths(c, fas) == c.fas

PathsFromOrigin(c, fas) == fas[c.host]

(* originHeaders.get: the template becomes the host of the origin. *)
originHeaders(c) == IF c.headers = HostTemplate THEN c.host ELSE c.headers

WithDefault(value, default) == IF value = None THEN default ELSE value

(* The parameters of an origin, those of NewOriginBuilder unless the       *)
(* Ingress has its own.                                                    *)
OriginBuilder(c) == [timeout |-> WithDefault(c.timeout, DefaultTimeout),
                     access  |-> c.access,
                     policy  |-> WithDefault(c.policy, DefaultPolicies[c.access]),
                     headers |-> originHeaders(c)]

(* WithBehavior, for each pattern of each path: the functions of all paths *)
(* that end up on the same pattern are appended to one behavior.  The list *)
(* of functions is a set here: how often it has one and where is left out. *)
addBehaviors(ps) ==
    [pp \in UNION {pathPatternsForPath(p) : p \in DOMAIN ps} |->
        UNION {{[event |-> e, fn |-> ps[p][e]] : e \in Events} :
               p \in {q \in DOMAIN ps : pp \in pathPatternsForPath(q)}}]

newOrigin(c, fas) == [params    |-> OriginBuilder(c),
                      behaviors |-> addBehaviors(PathsFromOrigin(c, fas))]

(* The map of origins by host: the last of a host remains. *)
WithOrigin(os, c, fas) ==
    [h \in DOMAIN os \cup {c.host} |-> IF h = c.host THEN newOrigin(c, fas) ELSE os[h]]

customOrigins(s, fas) == FoldLeft(LAMBDA os, c : WithOrigin(os, c, fas), <<>>, s)

(* validate: there is one custom origin per host, so the only host met     *)
(* twice is that of the default origin.  HasEqualParameters does not look  *)
(* at headers.                                                             *)
validate(os) == DefaultHost \in DOMAIN os =>
                    /\ os[DefaultHost].params.timeout = DefaultTimeout
                    /\ os[DefaultHost].params.access = "Public"

MergeMapString(tags, other) ==
    [k \in TagKeys |-> IF other[k] # None THEN other[k] ELSE tags[k]]

defaultTags == [k \in TagKeys |-> CASE k = "owned" -> "true"
                                    [] k = "group" -> "this"
                                    [] OTHER -> None]

(* AppendTags of every Ingress, then of the configuration; generateTags    *)
(* puts the result on top of the tags the distribution is found by.        *)
generateTags(s) ==
    FoldLeft(MergeMapString, defaultTags, [k \in DOMAIN s |-> s[k].tags] \o <<CustomTags>>)

(* WithAlternateDomains *)
alternateDomains(s) == UNION {s[k].domains : k \in DOMAIN s}

(* discoverCert; without TLS none is looked for. *)
discoverCert(s) ==
    IF TLSEnabled THEN DiscoverByHost(alternateDomains(s), acm, None) ELSE None

-----------------------------------------------------------------------------
(* The request sent to CloudFront *)

(* newCacheBehavior: CloudFront functions and Lambda@Edge functions go to  *)
(* lists of their own.                                                     *)
newCacheBehavior(h, o, pp) ==
    [pattern   |-> pp,
     host      |-> h,
     policy    |-> o.params.policy,
     functions |-> {[event |-> f.event, arn |-> f.fn.arn] :
                      f \in {g \in o.behaviors[pp] : g.fn # None /\ g.fn.type = "cloudfront"}},
     lambdas   |-> {[event |-> f.event, arn |-> f.fn.arn, body |-> f.fn.body] :
                      f \in {g \in o.behaviors[pp] : g.fn # None /\ g.fn.type = "edge"}}]

(* The origins, each behavior of which becomes a cache behavior. *)
cacheBehaviors(os) ==
    UNION {{newCacheBehavior(h, os[h], pp) : pp \in DOMAIN os[h].behaviors} : h \in DOMAIN os}

Refused(err) == [ok |-> FALSE, err |-> err]

(* desiredState and what newAWSDistributionConfig makes of it: the checks  *)
(* in the order they are made.                                             *)
desiredState(s) ==
    LET acl == mergedWebACL(s)
        merged == mergedPaths(s)
        os == customOrigins(s, merged.fas)
        cert == discoverCert(s)
    IN  IF \E x, y \in acl : x # y THEN {Refused("acl")}
        ELSE IF ~merged.ok THEN {Refused("paths")}
        ELSE IF TLSEnabled /\ cert = None THEN {Refused("cert")}
        ELSE IF ~validate(os) THEN {Refused("origins")}
        ELSE {[ok |-> TRUE, acl |-> acl, cert |-> cert,
               domains |-> alternateDomains(s), tags |-> generateTags(s),
               origins |-> [h \in DOMAIN os |->
                              [timeout |-> os[h].params.timeout, access |-> os[h].params.access,
                               headers |-> os[h].params.headers]],
               behaviors |-> bs] : bs \in SortedCustomBehaviors(cacheBehaviors(os))}

-----------------------------------------------------------------------------
listed(n) == [k \in DOMAIN group[n] |-> pathsForFunctionAssociations(group[n][k])]

(* A reconciliation: FetchBy in some order, then desiredState. *)
Reconcile ==
    /\ \E order \in SetToSeqs(Names) :
          result' \in desiredState(FlattenSeq([k \in DOMAIN order |-> listed(order[k])]))
    /\ UNCHANGED <<group, acm>>

Init == /\ group \in Groups
        /\ acm \in Listings
        /\ result = None

Next == Reconcile

Spec == Init /\ [][Next]_vars

-----------------------------------------------------------------------------
(* Properties *)

Contributions == UNION {{listed(n)[k] : k \in DOMAIN group[n]} : n \in Names}

PatternsOf(c) == UNION {pathPatternsForPath(p) : p \in DOMAIN c.fas}

(* Those who share a host agree on its origin, all agree on tags, and no   *)
(* pattern is served by two hosts.                                         *)
ContributionsAgree ==
    \A c, d \in Contributions :
        /\ c.host = d.host => OriginBuilder(c) = OriginBuilder(d)
        /\ c.host # d.host => PatternsOf(c) \cap PatternsOf(d) = {}
        /\ \A k \in TagKeys : None \in {c.tags[k], d.tags[k]} \/ c.tags[k] = d.tags[k]

Built == result # None /\ result.ok

(* Every function an Ingress associates with a path is attached, in the    *)
(* list of its type, to the cache behavior of each pattern of that path,   *)
(* whoever else has the host and the path.                                 *)
FunctionsKept ==
    Built => \A c \in Contributions : \A p \in DOMAIN c.fas, e \in Events :
        LET f == c.fas[p][e] IN
        f # None =>
            \A pp \in pathPatternsForPath(p) :
                \E k \in DOMAIN result.behaviors :
                    LET b == result.behaviors[k] IN
                    /\ b.host = c.host /\ b.pattern = pp
                    /\ IF f.type = "cloudfront"
                         THEN [event |-> e, arn |-> f.arn] \in b.functions
                         ELSE [event |-> e, arn |-> f.arn, body |-> f.body] \in b.lambdas

(* The names a certificate is valid for. *)
Covers(name, domain) ==
    name = domain \/ (Len(name) > 1 /\ name[1] = "*" /\ Tail(name) = Tail(domain))

Issued == UNION {{acm[k][l] : l \in DOMAIN acm[k]} : k \in DOMAIN acm}

(* A group is refused only for a reason its users can see: two WebACLs,    *)
(* two functions for one event of a path, no issued certificate for all of *)
(* its domains, or a custom origin on the default origin's host with other *)
(* parameters.                                                             *)
RefusedForAReason ==
    (result # None /\ ~result.ok) =>
        \/ TLSEnabled /\ \A cert \in Issued : \E c \in Contributions :
              \E d \in c.domains : \A name \in cert : ~Covers(name, d)
        \/ \E c, d \in Contributions :
              \/ c.acl # None /\ d.acl # None /\ c.acl # d.acl
              \/ c.host = d.host /\ \E p \in DOMAIN c.fas \cap DOMAIN d.fas :
                                       Conflicting(c.fas[p], d.fas[p])
              \/ /\ c.host = DefaultHost
                 /\ c.timeout \notin {DefaultTimeout, None} \/ c.access # "Public"

(* README, TLS: "If it finds a certificate matching any of the             *)
(* Distribution's alternate domain names, it will bind that certificate to *)
(* the Distribution".  Here even all of the domains are covered.           *)
CertificateFound ==
    (result # None /\ ~result.ok /\ result.err = "cert") =>
        \A cert \in Issued : \E c \in Contributions :
            \E d \in c.domains : \A name \in cert : ~Covers(name, d)

(* The one certificate of a distribution is valid for the domains of all   *)
(* its Ingresses, but for one case: certMatches takes a certificate for    *)
(* "foo.com" that does not name "*.foo.com" to match "www.foo.com" too.    *)
CertificateCoversAll ==
    (Built /\ TLSEnabled) =>
        \A c \in Contributions : \A d \in c.domains :
            \/ \E name \in result.cert : Covers(name, d)
            \/ Tail(d) \in result.cert /\ <<"*">> \o Tail(d) \notin result.cert

(* Kubernetes matches a Prefix path element by element. *)
IngressMatches(p, path) ==
    \/ path = p.pattern
    \/ p.type = "Prefix" /\ IsPrefix(TrimSuffix(p.pattern) \o <<Slash>>, path \o <<Slash>>)

(* The path Kubernetes prefers: the longest, and Exact before Prefix. *)
Preferred(p, q) ==
    \/ Len(TrimSuffix(p.pattern)) > Len(TrimSuffix(q.pattern))
    \/ /\ Len(TrimSuffix(p.pattern)) = Len(TrimSuffix(q.pattern))
       /\ p.type = "Exact" \/ q.type = "Prefix"

(* Three kinds of path are left out.  An Exact path that ends in "/": the  *)
(* pattern "/foo/*" of the Prefix "/foo" is longer than "/foo/" and takes  *)
(* its requests.  For the same reason a Prefix path that ends in "//",     *)
(* which Kubernetes refuses.  And a path with "*" or "?", which stand for  *)
(* themselves in an Ingress.                                               *)
Plain(p) ==
    LET t == TrimSuffix(p.pattern) IN
    /\ p.type = "Prefix" \/ (p.type = "Exact" /\ t = p.pattern)
    /\ t = <<>> \/ t[Len(t)] # Slash
    /\ \A k \in DOMAIN t : t[k] \notin {Star, Question}

(* A request is served by the origin of the path the Ingresses would route *)
(* it to, whichever Ingress that path is in, or by the default origin when *)
(* no path matches.                                                        *)
RoutedAsIngress ==
    (Built /\ ContributionsAgree /\ \A c \in Contributions : \A p \in DOMAIN c.fas : Plain(p)) =>
        \A r \in Requests :
            LET host == ServedBy(result.behaviors, r, DefaultHost)
                routes == UNION {{[host |-> c.host, path |-> p] :
                                    p \in {q \in DOMAIN c.fas : IngressMatches(q, r)}} :
                                 c \in Contributions}
            IN  IF routes = {} THEN host = DefaultHost
                ELSE \E x \in routes : /\ host = x.host
                                       /\ \A y \in routes : Preferred(x.path, y.path)

(* Reconciling an unchanged group again asks for the same distribution, or *)
(* is refused for the same reason, in whatever order its Ingresses are     *)
(* listed, provided that they agree: otherwise the last one listed wins.   *)
SameAgain ==
    [][(ContributionsAgree /\ result # None) => result' = result]_vars
=============================================================================
