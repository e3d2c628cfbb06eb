--------------------------- MODULE DistLifecycle ---------------------------
(***************************************************************************)
(* What the rest of the controller relies on when it calls DistRepository: *)
(* the contract of Create, Sync and Delete for the distribution of one     *)
(* group, without the requests they are made of.                           *)
(*                                                                         *)
(* While a call runs, the distribution only ever changes towards its goal: *)
(* a call that wants origins replaces the whole configuration at once and  *)
(* enables it, only a call that wants none disables, and only a disabled   *)
(* distribution is deleted.  A call that fails may have had its effect or  *)
(* not and leaves another reconciliation due; one that succeeds leaves the *)
(* distribution at its goal.                                               *)
(***************************************************************************)
CONSTANTS
    Origins,         \* hosts of custom origins
    None,            \* no value
    DeletionEnabled  \* config: ENABLE_DELETION

VARIABLES
    want,   \* the origins Ingresses currently express
    due,    \* a reconciliation is due
    dist,   \* the distribution: whether enabled and its origins, or None
    goal    \* the origins the call in progress wants, or None

vars == <<want, due, dist, goal>>

Kinds == [Origins -> {"absent", "public", "bucket"}]

Empty(kinds) == \A o \in Origins : kinds[o] = "absent"

Reached(kinds, d) == IF Empty(kinds) THEN d = None
                     ELSE d = [enabled |-> TRUE, kinds |-> kinds]

Init == /\ want \in {k \in Kinds : Empty(k)}
        /\ due = FALSE
        /\ dist = None
        /\ goal = None

(* The Ingresses of the group change. *)
Request == /\ want' \in Kinds
           /\ due' = TRUE
           /\ UNCHANGED <<dist, goal>>

(* A call starts, unless there is nothing to delete or deletion is off. *)
Start == /\ due /\ goal = None
         /\ due' = FALSE
         /\ goal' = IF Empty(want) /\ (dist = None \/ ~DeletionEnabled) THEN None ELSE want
         /\ UNCHANGED <<want, dist>>

(* A request of the call in progress, and the end of the call if it is     *)
(* the last.                                                               *)
Work == /\ goal # None
        /\ \/ UNCHANGED dist
           \/ ~Empty(goal) /\ dist' = [enabled |-> TRUE, kinds |-> goal]
           \/ Empty(goal) /\ dist # None /\ dist' = [enabled |-> FALSE, kinds |-> dist.kinds]
           \/ Empty(goal) /\ dist # None /\ ~dist.enabled /\ dist' = None
        /\ \/ UNCHANGED <<due, goal>>
           \/ goal' = None /\ due' = TRUE
           \/ goal' = None /\ Reached(goal, dist') /\ UNCHANGED due
        /\ UNCHANGED want

(* Somebody deletes a disabled distribution in the console. *)
Vanish == /\ dist # None /\ ~dist.enabled
          /\ dist' = None
          /\ UNCHANGED <<want, due, goal>>

Next == Request \/ Start \/ Work \/ Vanish

Spec == Init /\ [][Next]_vars
=============================================================================
