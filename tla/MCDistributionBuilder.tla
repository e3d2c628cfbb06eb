----------------------- MODULE MCDistributionBuilder -----------------------
(* Instances of DistributionBuilder for TLC. *)
EXTENDS DistributionBuilder

CONSTANTS n1, n2, n3, lb, s3, a1, a2, acl1, acl2, p1, p2

Fn(x, t) == [arn |-> x, type |-> t, body |-> FALSE]
On(e, f) == [NoFunctions EXCEPT ![e] = f]

(* Characters and paths: "a" and "b" are 97 and 98. *)
Tree == {<<Slash>>, <<Slash, 97>>, <<Slash, 97, Slash>>, <<Slash, 98>>,
         <<Slash, 97, Slash, 98>>, <<Slash, 97, 98>>}
MoreRequests == Tree \cup {<<Slash, 97, Slash, 97>>, <<Slash, 97, Slash, 98, Slash>>,
                           <<Slash, 97, Slash, 98, Slash, 97>>, <<Slash, 98, Slash>>,
                           <<Slash, 97, 98, Slash, 97>>, <<Slash, 98, 98>>}

PathOf(s, t) == [pattern |-> s, type |-> t]
foo == <<Slash, 97>>
bar == <<Slash, 98>>

(* Domain names *)
com == <<"foo", "com">>
www == <<"www", "foo", "com">>
wild == <<"*", "foo", "com">>
TwoDomains == {com, www}

PoliciesByAccess == [x \in {"Public", "Bucket"} |-> IF x = "Public" THEN p1 ELSE p2]
NoTags == [k \in TagKeys |-> None]

From(h, path, fa, acl) ==
    [host |-> h, access |-> "Public", timeout |-> None, policy |-> None, acl |-> acl,
     headers |-> None, domains |-> {}, tags |-> NoTags, fas |-> path :> fa]

SomeFunctions ==
    {NoFunctions,
     On("viewer-request", Fn(a1, "cloudfront")),
     On("viewer-request", Fn(a2, "cloudfront")),
     On("viewer-response", Fn(a1, "edge")),
     On("origin-response", Fn(a2, "edge")),
     (* invalid: the types of the viewer functions differ *)
     [On("viewer-request", Fn(a1, "cloudfront")) EXCEPT !["viewer-response"] = Fn(a2, "edge")]}

(* What one Ingress of the load balancer lb may be, with one path. *)
OnePath == {<<From(lb, PathOf(foo, t), fa, acl)>> :
              t \in {"Prefix", "Exact"}, fa \in SomeFunctions, acl \in {None, acl1, acl2}}

(* A third one that may ask for other parameters of lb, and has a bucket   *)
(* as well, the default origin's host.                                     *)
WithBucket == {<<[From(lb, PathOf(foo, "Prefix"), On("origin-response", Fn(a2, "edge")), None)
                    EXCEPT !.timeout = t, !.policy = p],
                 [From(s3, PathOf(bar, "unset"), On("viewer-request", Fn(a2, "edge")), None)
                    EXCEPT !.access = x]>> :
               t \in {30, 60}, p \in {p1, p2}, x \in {"Public", "Bucket"}}

(* Two Ingresses on two hosts with up to two paths each. *)
Routes(h) == {<<[From(h, p, NoFunctions, None) EXCEPT !.fas = (p :> NoFunctions) @@ (q :> NoFunctions)]>> :
                p, q \in {PathOf(s, t) : s \in Tree, t \in {"Prefix", "Exact"}}}

(* Two Ingresses on one host, each with domains, tags and a header. *)
Named == {<<[From(lb, PathOf(foo, "Prefix"), NoFunctions, None)
               EXCEPT !.domains = ds, !.tags[k] = v, !.headers = x]>> :
            ds \in SUBSET {com, www}, k \in {"team", "group"}, v \in {None, "x", "y"},
            x \in {lb, HostTemplate}}

Three(s1, s2, s3s) == {(n1 :> x) @@ (n2 :> y) @@ (n3 :> z) : x \in s1, y \in s2, z \in s3s}

MergeGroups == Three(OnePath, OnePath, WithBucket)
               \cup Three(Routes(lb), Routes(s3), {<<>>})
               \cup Three(Named, Named, {<<>>})
CertGroups == Three(Named \cup {<<>>}, {<<>>}, {<<>>})

(* One page, with a certificate for both domains at its end or with none.  *)
(* Two pages: the certificate is on the first or on the second.            *)
Both == {com, wild}
Other == {<<"bar", "com">>}
OnePage == {<<<<{wild}, Other, Both>>>>, <<<<{wild}>>>>}
TwoPages == {<<<<Both>>, <<Other>>>>, <<<<Other>>, <<Both>>>>}
=============================================================================
