----------------------------- MODULE MCService -----------------------------
(* Instances of Service for TLC. *)
EXTENDS Service, TLC

CONSTANTS i1, i2, g1, g2, a, b

Dom(h) == [host |-> h, dot |-> FALSE]
Want(g, ds) == [group |-> g, lb |-> TRUE, domains |-> {Dom(h) : h \in ds}, syntax |-> "ok"]
NoLB(s) == [s EXCEPT !.lb = FALSE]
Dotted(s) == [s EXCEPT !.domains = {[d EXCEPT !.dot = TRUE] : d \in s.domains}]
Bad(s, x) == [s EXCEPT !.syntax = x]

(* Two Ingresses of one group; i1 may have a domain, written "a.". *)
SharedGroup == (i1 :> {Dotted(Want(g1, {a})), Want(g1, {})}) @@ (i2 :> {Want(g1, {})})
(* i1 moves between two groups, with a domain in each, or leaves both; i2  *)
(* may be without load balancer or have an invalid function association.   *)
Moving == (i1 :> {Want(g1, {a}), Want(g2, {b}), Want(None, {})}) @@
          (i2 :> {Want(g1, {}), NoLB(Want(g1, {})), Bad(Want(g1, {}), "badfn")})

(* Each Ingress comes and goes, with contents that never change. *)
Fixed == (i1 :> {Want(g1, {a})}) @@ (i2 :> {Want(g1, {})})
(* i2 may have an annotation that cannot be parsed, from the start or      *)
(* after an edit, and be mended.                                           *)
Mended == (i1 :> {Want(g1, {a})}) @@
          (i2 :> {Want(g1, {}), Bad(Want(g1, {}), "malformed")})
=============================================================================
