--------------------------- MODULE BehaviorOrder ---------------------------
(***************************************************************************)
(* The order of cache behaviors, internal/cloudfront/sort.go, and the use  *)
(* CloudFront makes of it: a request is served by the first behavior whose *)
(* path pattern matches it.                                                *)
(*                                                                         *)
(* A path or pattern is a sequence of characters, a character its code.    *)
(***************************************************************************)
EXTENDS Naturals, Sequences, FiniteSets, Functions

Star == 42
Slash == 47
Question == 63

(* Mutant of Precedes: wildcards are characters like any other. *)
PrecedesByCode(c, d) == c < d

(* The switch of isInMostSpecificOrder at the first character that differs. *)
Precedes(c, d) == /\ c # Star
                  /\ \/ d = Star
                     \/ c # Question /\ (d = Question \/ c < d)

isInMostSpecificOrder(i, j) ==
    IF Len(i) # Len(j) THEN Len(i) > Len(j)
    ELSE \/ i = j
         \/ \E k \in DOMAIN i : /\ i[k] # j[k] /\ Precedes(i[k], j[k])
                                /\ \A m \in 1 .. (k - 1) : i[m] = j[m]

(* The results SortedCustomBehaviors may have for the behaviors bs of all  *)
(* origins.  The origins come out of a map and isInMostSpecificOrder holds *)
(* of equal patterns both ways, so behaviors with the same pattern (of     *)
(* different hosts) end up in any order.                                   *)
SortedCustomBehaviors(bs) ==
    LET hosts == {b.host : b \in bs}
        shared == {b.pattern : b \in {c \in bs : \E d \in bs : /\ d # c
                                                               /\ d.pattern = c.pattern}}
        Before(b, c, tie) ==
            IF b.pattern = c.pattern THEN tie[b.pattern][b.host] < tie[b.pattern][c.host]
            ELSE isInMostSpecificOrder(b.pattern, c.pattern)
    IN  {[k \in 1 .. Cardinality(bs) |->
            CHOOSE b \in bs : Cardinality({c \in bs \ {b} : Before(c, b, tie)}) = k - 1] :
         tie \in [shared -> Bijection(hosts, 1 .. Cardinality(hosts))]}

-----------------------------------------------------------------------------
(* CloudFront *)

(* "*" stands for any characters, "/" among them, and "?" for exactly one. *)
(* reach[i] has the lengths of what the pattern's first i characters may   *)
(* stand for at the beginning of the path.                                 *)
Matches(pattern, path) ==
    LET reach[i \in 0 .. Len(pattern)] ==
            IF i = 0 THEN {0}
            ELSE IF pattern[i] = Star THEN UNION {l .. Len(path) : l \in reach[i - 1]}
            ELSE {l + 1 : l \in {k \in reach[i - 1] :
                                   k < Len(path) /\ pattern[i] \in {Question, path[k + 1]}}}
    IN  Len(path) \in reach[Len(pattern)]

(* The host that serves a request, given the behaviors in order. *)
ServedBy(behaviors, path, default) ==
    LET matching == {k \in DOMAIN behaviors : Matches(behaviors[k].pattern, path)}
    IN  IF matching = {} THEN default
        ELSE behaviors[CHOOSE k \in matching : \A l \in matching : k <= l].host
=============================================================================
