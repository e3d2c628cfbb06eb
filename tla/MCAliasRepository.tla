------------------------- MODULE MCAliasRepository -------------------------
(* Instances of AliasRepository for TLC: two controllers in one zone. *)
EXTENDS AliasRepository, TLC

CONSTANTS c1, c2, o1, o2, t1, t2, a, b

Owners == (c1 :> o1) @@ (c2 :> o2)
Addresses == (c1 :> t1) @@ (c2 :> t2)

(* c1 is redeployed with and without IPv6, c2 never has it. *)
Redeployed == (c1 :> {TRUE, FALSE}) @@ (c2 :> {FALSE})

(* No definition tells the two names apart. *)
Symmetry == Permutations({a, b})
=============================================================================
