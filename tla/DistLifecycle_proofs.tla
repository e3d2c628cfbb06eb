------------------------ MODULE DistLifecycle_proofs ------------------------
(***************************************************************************)
(* The proofs about what a call of DistRepository achieves: that request   *)
(* by request it implements the contract DistLifecycle, and that once it   *)
(* has returned success the distribution is as desired, OACs and WebACL    *)
(* included.                                                               *)
(***************************************************************************)
EXTENDS DistRepository_proofs

(* What a call knows about its goal: which calls want origins and which    *)
(* none, that OACs are only synced for bucket origins, and that the goal   *)
(* is reached once only OACs are left to be deleted.                       *)
GoalFits ==
    /\ call.pc \in {"create", "sync", "syncOACs"} => ~IsEmpty(call.d)
    /\ call.pc \in {"delete", "disable", "wait", "remove"} => IsEmpty(call.d)

OACsFit ==
    /\ \A o \in Origins : call.ids[o] # None => call.d.kinds[o] = "bucket"
    /\ \A o \in call.todo : call.d.kinds[o] = "bucket"

GoalReached ==
    call.pc = "deleteOACs" =>
        IF IsEmpty(call.d) THEN cf = None
        ELSE cf # None /\ cf.enabled /\ KindsOf(cf) = call.d.kinds

GInv == IInv /\ GoalFits /\ OACsFit /\ GoalReached

(* The configuration sent to CloudFront has the origins that were asked    *)
(* for, an OAC standing for a bucket.                                      *)
LEMMA ConfigKinds ==
  ASSUME NEW d \in Desired, NEW ids \in [Origins -> OACIds \cup {None}], NEW extras,
         \A o \in Origins : ids[o] # None => d.kinds[o] = "bucket"
  PROVE  /\ newAWSDistributionConfig(d, ids, extras).enabled
         /\ KindsOf(newAWSDistributionConfig(d, ids, extras)) = d.kinds
<1> DEFINE c == newAWSDistributionConfig(d, ids, extras)
<1>1. c.enabled /\ c.origins = [o \in Origins |-> IF ids[o] # None THEN ids[o] ELSE d.kinds[o]]
  BY DEF newAWSDistributionConfig
<1>2. d.kinds \in [Origins -> Kinds]
  BY DEF Desired
<1>3. ASSUME NEW o \in Origins
      PROVE  (IF c.origins[o] \in OACIds THEN "bucket" ELSE c.origins[o]) = d.kinds[o]
  <2>1. CASE ids[o] # None
    <3>1. ids[o] \in OACIds /\ c.origins[o] = ids[o]
      BY <2>1, <1>1
    <3> QED
      BY <2>1, <3>1
  <2>2. CASE ids[o] = None
    <3>1. c.origins[o] = d.kinds[o]
      BY <2>2, <1>1
    <3>2. d.kinds[o] \notin OACIds
      BY <1>2, PlainOriginsAssumption DEF Kinds
    <3> QED
      BY <3>1, <3>2
  <2> QED
    BY <2>1, <2>2
<1>4. KindsOf(c) = [o \in Origins |-> d.kinds[o]]
  BY <1>3 DEF KindsOf
<1> QED
  BY <1>1, <1>2, <1>4

(* Nothing is under way in an idle repository. *)
LEMMA IdleFits ==
  ASSUME call = NoCall
  PROVE  GoalFits /\ OACsFit /\ GoalReached
BY NoCallType DEF NoCall, GoalFits, OACsFit, GoalReached, Calls

(* A step that goes on with the same Distribution and OACs, and whose      *)
(* steps belong to the same kind of call.                                  *)
LEMMA GoalStep == GInv /\ [Next]_vars => GoalFits' /\ OACsFit' /\ GoalReached'
<1> SUFFICES ASSUME TypeOK, ConfigRead, GoalFits, OACsFit, GoalReached, [Next]_vars
             PROVE  GoalFits' /\ OACsFit' /\ GoalReached'
  BY DEF GInv, IInv
<1>c. call \in Calls
  BY DEF TypeOK
<1>0. ASSUME call' = NoCall
      PROVE  GoalFits' /\ OACsFit' /\ GoalReached'
  BY <1>0, NoCallType DEF NoCall, GoalFits, OACsFit, GoalReached, IsEmpty, KindsOf, Calls
<1>1. CASE UNCHANGED <<cf, call>>
  BY <1>1 DEF GoalFits, OACsFit, GoalReached, IsEmpty, KindsOf
<1>2. CASE Console
  <2>1. call' = call
    BY <1>2 DEF Console, consoleLeaves
  <2>2. CASE call.pc = "deleteOACs"
    <3>1. CASE cf.enabled
      <4>1. cf \in Configs /\ cf # None
        BY <1>2 DEF Console, TypeOK
      <4>2. PICK acl \in ACLs \cup {None}, x \in Extras :
               cf' = [cf EXCEPT !.webACL = acl, !.extras = x]
        BY <1>2, <3>1 DEF Console
      <4>3. cf' \in Configs /\ cf'.enabled /\ cf'.origins = cf.origins
        BY <4>1, <4>2, <3>1 DEF Configs
      <4>4. cf' # None /\ KindsOf(cf') = KindsOf(cf)
        BY <4>3, NoValueAssumption DEF KindsOf
      <4> QED
        BY <2>1, <2>2, <3>1, <4>1, <4>3, <4>4 DEF GoalFits, OACsFit, GoalReached, IsEmpty
    <3>2. CASE ~cf.enabled
      <4>1. cf # None
        BY <1>2 DEF Console
      <4> QED
        BY <2>2, <3>2, <4>1 DEF GoalReached
    <3> QED
      BY <3>1, <3>2
  <2>3. CASE call.pc # "deleteOACs"
    BY <2>1, <2>3 DEF GoalFits, OACsFit, GoalReached, IsEmpty
  <2> QED
    BY <2>2, <2>3
<1>4. CASE Prepare
  <2>1. CASE call' = NoCall
    BY <1>0, <2>1
  <2>2. CASE call' # NoCall
    <3> DEFINE acl == IF want.acl = None /\ cf # None THEN cf.webACL ELSE want.acl
               pc == IF IsEmpty(want)
                       THEN IF cf # None /\ DeletionEnabled THEN "delete" ELSE "idle"
                       ELSE IF cf = None THEN "create" ELSE "sync"
    <3>1. call' = [NoCall EXCEPT !.pc = pc, !.d = [want EXCEPT !.acl = acl]]
      BY <1>4, <2>2 DEF Prepare
    <3>2. call'.pc = pc /\ call'.d.kinds = want.kinds
          /\ call'.ids = NoCall.ids /\ call'.todo = NoCall.todo
      BY <3>1, NoCallType DEF Calls, TypeOK, Desired
    <3>3. IsEmpty(call'.d) <=> IsEmpty(want)
      BY <3>2 DEF IsEmpty
    <3>4. \/ pc \in {"create", "sync"} /\ ~IsEmpty(want)
          \/ pc \in {"delete", "idle"} /\ IsEmpty(want)
      OBVIOUS
    <3>5. call'.ids = [o \in Origins |-> None] /\ call'.todo = {}
      BY <3>2 DEF NoCall
    <3> HIDE DEF pc, acl
    <3> QED
      BY <3>2, <3>3, <3>4, <3>5 DEF GoalFits, OACsFit, GoalReached, IsEmpty
  <2> QED
    BY <2>1, <2>2
<1>5. CASE Create
  <2>1. call' = NoCall \/ call' = [call EXCEPT !.pc = "sync"]
    BY <1>5 DEF Create, Continue, Fail
  <2>2. CASE call' = [call EXCEPT !.pc = "sync"]
    <3>1. call'.pc = "sync" /\ call'.d = call.d /\ call'.ids = call.ids /\ call'.todo = call.todo
      BY <1>c, <2>2 DEF Calls
    <3>2. call.pc = "create"
      BY <1>5 DEF Create
    <3> QED
      BY <3>1, <3>2 DEF GoalFits, OACsFit, GoalReached, IsEmpty
  <2> QED
    BY <1>0, <2>1, <2>2
<1>6. CASE ReadConfig
  <2>1. call' = NoCall \/ /\ call'.pc = "syncOACs" /\ call'.d = call.d /\ call'.ids = call.ids
                          /\ call'.todo = {x \in Origins : call.d.kinds[x] = "bucket"}
    BY <1>6, <1>c DEF ReadConfig, Continue, Fail, Calls
  <2>2. call.pc = "sync"
    BY <1>6 DEF ReadConfig
  <2>3. CASE call' # NoCall
    BY <2>1, <2>2, <2>3 DEF GoalFits, OACsFit, GoalReached, IsEmpty
  <2> QED
    BY <1>0, <2>3
<1>7. CASE SyncOAC
  <2> PICK x \in call.todo, o \in Outcomes : SyncOAC!2!(x, o)
    BY <1>7 DEF SyncOAC
  <2>1. CASE call' # NoCall
    <3>1. PICK y \in OACIds : call' = [call EXCEPT !.todo = @ \ {x}, !.ids[x] = y]
      BY <2>1 DEF Continue, Fail
    <3>2. /\ call'.pc = call.pc /\ call'.d = call.d /\ call'.todo = call.todo \ {x}
          /\ call'.ids = [call.ids EXCEPT ![x] = y]
      BY <3>1, <1>c DEF Calls
    <3>3. x \in Origins /\ call.d.kinds[x] = "bucket"
      BY <1>c DEF Calls, OACsFit
    <3>4. \A z \in Origins : z # x => call'.ids[z] = call.ids[z]
      BY <3>2, <1>c DEF Calls
    <3>5. call.pc = "syncOACs"
      BY <1>7 DEF SyncOAC
    <3> QED
      BY <3>2, <3>3, <3>4, <3>5 DEF GoalFits, OACsFit, GoalReached, IsEmpty
  <2> QED
    BY <1>0, <2>1
<1>8. CASE UpdateConfig
  <2> PICK o \in Outcomes : UpdateConfig!2!1!(o)
    BY <1>8 DEF UpdateConfig
  <2>1. CASE call' # NoCall
    <3>1. o.ok /\ IfMatch(call.read) /\ call' = [call EXCEPT !.pc = "deleteOACs"]
      BY <2>1 DEF Continue, Fail
    <3>2. o.applied
      BY <3>1 DEF Outcomes
    <3>3. cf' = newAWSDistributionConfig(call.d, call.ids, call.read.extras)
      BY <3>1, <3>2
    <3>4. call'.pc = "deleteOACs" /\ call'.d = call.d /\ call'.ids = call.ids /\ call'.todo = call.todo
      BY <3>1, <1>c DEF Calls
    <3>5. cf'.enabled /\ KindsOf(cf') = call.d.kinds
      BY <3>3, ConfigKinds, <1>c DEF Calls, OACsFit
    <3>6. ~IsEmpty(call.d)
      BY <1>8 DEF UpdateConfig, GoalFits
    <3>7. cf' # None
      BY <3>1, <3>3, ConfigType, NoValueAssumption, <1>8, <1>c
         DEF IfMatch, UpdateConfig, ConfigRead, TypeOK, Calls, Configs
    <3> QED
      BY <3>4, <3>5, <3>6, <3>7 DEF GoalFits, OACsFit, GoalReached, IsEmpty
  <2> QED
    BY <1>0, <2>1
<1>9. CASE DeleteOAC
  <2> PICK y \in call.drop, o \in Outcomes : DeleteOAC!2!(y, o)
    BY <1>9 DEF DeleteOAC
  <2>1. CASE call' # NoCall
    <3>1. call' = [call EXCEPT !.drop = @ \ {y}] /\ cf' = cf
      BY <2>1, <1>9 DEF Continue, Fail, DeleteOAC
    <3>2. call'.pc = call.pc /\ call'.d = call.d /\ call'.ids = call.ids /\ call'.todo = call.todo
      BY <3>1, <1>c DEF Calls
    <3> QED
      BY <3>1, <3>2 DEF GoalFits, OACsFit, GoalReached, IsEmpty, KindsOf
  <2> QED
    BY <1>0, <2>1
<1>10. CASE FinishOACs
  BY <1>0, <1>10 DEF FinishOACs, Return, Fail
<1>11. CASE ReadForDelete
  <2>1. CASE call' # NoCall
    <3>1. /\ call'.pc \in {"disable", "wait"} /\ call'.d = call.d
          /\ call'.ids = call.ids /\ call'.todo = call.todo
      BY <1>11, <2>1, <1>c DEF ReadForDelete, Return, Continue, Fail, Calls
    <3>2. call.pc = "delete"
      BY <1>11 DEF ReadForDelete
    <3> QED
      BY <3>1, <3>2 DEF GoalFits, OACsFit, GoalReached, IsEmpty
  <2> QED
    BY <1>0, <2>1
<1>12. CASE disableDist
  <2>1. CASE call' # NoCall
    <3>1. /\ call'.pc = "wait" /\ call'.d = call.d
          /\ call'.ids = call.ids /\ call'.todo = call.todo
      BY <1>12, <2>1, <1>c DEF disableDist, Return, Continue, Fail, Calls
    <3>2. call.pc = "disable"
      BY <1>12 DEF disableDist
    <3> QED
      BY <3>1, <3>2 DEF GoalFits, OACsFit, GoalReached, IsEmpty
  <2> QED
    BY <1>0, <2>1
<1>13. CASE waitUntilDeployed
  <2>1. CASE call' # NoCall
    <3>1. /\ call'.pc = "remove" /\ call'.d = call.d
          /\ call'.ids = call.ids /\ call'.todo = call.todo
      BY <1>13, <2>1, <1>c DEF waitUntilDeployed, Return, Continue, Calls
    <3>2. call.pc = "wait"
      BY <1>13 DEF waitUntilDeployed
    <3> QED
      BY <3>1, <3>2 DEF GoalFits, OACsFit, GoalReached, IsEmpty
  <2> QED
    BY <1>0, <2>1
<1>14. CASE WaitTimeout
  BY <1>0, <1>14 DEF WaitTimeout, Fail
<1>15. CASE Remove
  <2> PICK o \in Outcomes : Remove!2!1!(o)
    BY <1>15 DEF Remove
  <2>1. CASE call' # NoCall
    <3>1. /\ o.ok /\ cf # None => IfMatch(call.etag) /\ ~cf.enabled /\ deployed
          /\ call' = [call EXCEPT !.pc = "deleteOACs"]
      BY <2>1 DEF Continue, Fail
    <3>2. o.applied
      BY <2>1 DEF Outcomes, Continue, Fail
    <3>3. cf' = None
      BY <2>1, <3>2 DEF Continue, Fail
    <3>4. call'.pc = "deleteOACs" /\ call'.d = call.d /\ call'.ids = call.ids /\ call'.todo = call.todo
      BY <3>1, <1>c DEF Calls
    <3>5. IsEmpty(call.d)
      BY <1>15 DEF Remove, GoalFits
    <3> QED
      BY <3>3, <3>4, <3>5 DEF GoalFits, OACsFit, GoalReached, IsEmpty
  <2> QED
    BY <1>0, <2>1
<1> QED
  BY <1>1, <1>2, <1>4, <1>5, <1>6, <1>7, <1>8, <1>9, <1>10, <1>11, <1>12, <1>13, <1>14, <1>15
     DEF Next, Repository, vars, ChangeDesired, Deploy, consoleLeaves

(* The invariant of the refinement holds of every behaviour. *)
THEOREM GoalInvariance == SafetySpec => []GInv
<1>1. Init => GInv
  <2>1. Init => IInv
    BY TypeInit DEF IInv, Init, NoCall, ConfigRead, CreatesWhatIsMissing
  <2> QED
    BY <2>1, IdleFits DEF GInv, Init
<1>2. GInv /\ [Next]_vars => GInv'
  BY TypeStep, CallStep, GoalStep DEF GInv, IInv
<1> QED
  BY <1>1, <1>2, PTL DEF SafetySpec

-----------------------------------------------------------------------------
(* The refinement mapping *)

LEMMA KindsOfType ==
  ASSUME NEW c \in Configs
  PROVE  KindsOf(c) \in [Origins -> Kinds]
<1>1. c.origins \in [Origins -> Kinds \cup OACIds]
  BY DEF Configs
<1>2. ASSUME NEW o \in Origins
      PROVE  (IF c.origins[o] \in OACIds THEN "bucket" ELSE c.origins[o]) \in Kinds
  BY <1>1 DEF Kinds
<1> QED
  BY <1>2 DEF KindsOf

LEMMA DistOfConfig ==
  ASSUME NEW c \in Configs
  PROVE  /\ c # None
         /\ DistOf(c) = [enabled |-> c.enabled, kinds |-> KindsOf(c)]
         /\ DistOf(c) # None
<1>1. c # None
  BY NoValueAssumption
<1>2. DistOf(c) = [enabled |-> c.enabled, kinds |-> KindsOf(c)]
  BY <1>1 DEF DistOf
<1>3. DistOf(c) \in [enabled : BOOLEAN, kinds : [Origins -> Kinds]]
  BY <1>2, KindsOfType DEF Configs
<1> QED
  BY <1>1, <1>2, <1>3, NoValueAssumption

(* A request of a call in progress is a step of the contract: what it may  *)
(* do to the distribution and how the call may go on.                      *)
LEMMA WorkStep ==
  ASSUME TypeOK, call.pc # "idle", want' = want,
         \/ cf' = cf
         \/ ~IsEmpty(call.d) /\ cf' \in Configs /\ cf'.enabled /\ KindsOf(cf') = call.d.kinds
         \/ IsEmpty(call.d) /\ cf # None /\ cf' = [cf EXCEPT !.enabled = FALSE]
         \/ IsEmpty(call.d) /\ cf # None /\ ~cf.enabled /\ cf' = None,
         \/ call'.pc # "idle" /\ call'.d = call.d /\ dirty' = dirty
         \/ call' = NoCall /\ dirty' = TRUE
         \/ /\ call' = NoCall /\ dirty' = dirty
            /\ IF IsEmpty(call.d) THEN cf' = None
               ELSE cf' \in Configs /\ cf'.enabled /\ KindsOf(cf') = call.d.kinds
  PROVE  Lifecycle!Work
<1> DEFINE kinds == call.d.kinds
<1>1. kinds \in [Origins -> Kinds] /\ GoalOf(call) = kinds /\ GoalOf(call) # None
  BY NoValueAssumption DEF TypeOK, Calls, Desired, GoalOf
<1>2. Lifecycle!Empty(GoalOf(call)) <=> IsEmpty(call.d)
  BY <1>1 DEF Lifecycle!Empty, IsEmpty
<1>3. GoalOf(NoCall) = None
  BY DEF GoalOf, NoCall
<1>4. ASSUME NEW c \in Configs, c.enabled, KindsOf(c) = kinds
      PROVE  DistOf(c) = [enabled |-> TRUE, kinds |-> kinds]
  <2>1. c.enabled = TRUE
    BY <1>4 DEF Configs
  <2> QED
    BY <2>1, <1>4, DistOfConfig
<1>5. DistOf(None) = None
  BY DEF DistOf
<1>6. \/ DistOf(cf') = DistOf(cf)
      \/ ~Lifecycle!Empty(GoalOf(call)) /\ DistOf(cf') = [enabled |-> TRUE, kinds |-> GoalOf(call)]
      \/ /\ Lifecycle!Empty(GoalOf(call)) /\ DistOf(cf) # None
         /\ DistOf(cf') = [enabled |-> FALSE, kinds |-> DistOf(cf).kinds]
      \/ /\ Lifecycle!Empty(GoalOf(call)) /\ DistOf(cf) # None
         /\ ~DistOf(cf).enabled /\ DistOf(cf') = None
  <2>1. CASE cf' = cf
    BY <2>1
  <2>2. CASE ~IsEmpty(call.d) /\ cf' \in Configs /\ cf'.enabled /\ KindsOf(cf') = kinds
    BY <2>2, <1>1, <1>2, <1>4
  <2>3. CASE IsEmpty(call.d) /\ cf # None /\ cf' = [cf EXCEPT !.enabled = FALSE]
    <3>1. cf \in Configs
      BY <2>3 DEF TypeOK
    <3>2. cf' \in Configs /\ cf'.enabled = FALSE /\ cf'.origins = cf.origins
      BY <2>3, <3>1 DEF Configs
    <3>3. KindsOf(cf') = KindsOf(cf)
      BY <3>2 DEF KindsOf
    <3>4. DistOf(cf') = [enabled |-> FALSE, kinds |-> KindsOf(cf)]
      BY <3>2, <3>3, DistOfConfig
    <3>5. DistOf(cf) = [enabled |-> cf.enabled, kinds |-> KindsOf(cf)] /\ DistOf(cf) # None
      BY <3>1, DistOfConfig
    <3> QED
      BY <2>3, <1>2, <3>4, <3>5
  <2>4. CASE IsEmpty(call.d) /\ cf # None /\ ~cf.enabled /\ cf' = None
    <3>1. cf \in Configs
      BY <2>4 DEF TypeOK
    <3>2. ~DistOf(cf).enabled /\ DistOf(cf) # None
      BY <2>4, <3>1, DistOfConfig
    <3> QED
      BY <2>4, <3>2, <1>2, <1>5
  <2> QED
    BY <2>1, <2>2, <2>3, <2>4
<1>7. \/ GoalOf(call') = GoalOf(call) /\ dirty' = dirty
      \/ GoalOf(call') = None /\ dirty' = TRUE
      \/ GoalOf(call') = None /\ Lifecycle!Reached(GoalOf(call), DistOf(cf')) /\ dirty' = dirty
  <2>1. CASE call'.pc # "idle" /\ call'.d = call.d /\ dirty' = dirty
    BY <2>1, <1>1 DEF GoalOf
  <2>2. CASE call' = NoCall /\ dirty' = TRUE
    BY <2>2, <1>3
  <2>3. CASE /\ call' = NoCall /\ dirty' = dirty
             /\ IF IsEmpty(call.d) THEN cf' = None
                ELSE cf' \in Configs /\ cf'.enabled /\ KindsOf(cf') = kinds
    <3>1. CASE IsEmpty(call.d)
      BY <2>3, <3>1, <1>2, <1>3, <1>5 DEF Lifecycle!Reached
    <3>2. CASE ~IsEmpty(call.d)
      BY <2>3, <3>2, <1>1, <1>2, <1>3, <1>4 DEF Lifecycle!Reached
    <3> QED
      BY <3>1, <3>2
  <2> QED
    BY <2>1, <2>2, <2>3
<1>8. want.kinds' = want.kinds
  OBVIOUS
<1> QED
  BY <1>1, <1>6, <1>7, <1>8 DEF Lifecycle!Work, Lifecycle!Reached, Lifecycle!Empty

LEMMA RefineStep ==
  ASSUME GInv, [Next]_vars
  PROVE  [Lifecycle!Next]_(Lifecycle!vars)
<1> USE DEF GInv, IInv
<1>c. call \in Calls /\ TypeOK
  BY DEF TypeOK
<1>i. NoCall.pc = "idle"
  BY DEF NoCall
<1>w. ASSUME Lifecycle!Work PROVE [Lifecycle!Next]_(Lifecycle!vars)
  BY <1>w DEF Lifecycle!Next
<1>1. CASE UNCHANGED <<want, dirty, cf, call>>
  BY <1>1 DEF Lifecycle!vars
<1>2. CASE ChangeDesired
  <2>1. want.kinds' \in [Origins -> Kinds] /\ dirty' = TRUE /\ cf' = cf /\ call' = call
    BY <1>2 DEF ChangeDesired, Desired
  <2>2. Lifecycle!Request
    BY <2>1 DEF Lifecycle!Request, Lifecycle!Kinds, Kinds
  <2> QED
    BY <2>2 DEF Lifecycle!Next
<1>3. CASE Console
  <2>0. call' = call /\ want' = want /\ dirty' = dirty /\ cf \in Configs
    BY <1>3 DEF Console, consoleLeaves, TypeOK
  <2>1. CASE \E acl \in ACLs \cup {None}, x \in Extras :
                cf' = [cf EXCEPT !.webACL = acl, !.extras = x]
    <3>1. cf' \in Configs /\ cf'.enabled = cf.enabled /\ cf'.origins = cf.origins
      BY <2>0, <2>1 DEF Configs
    <3>2. KindsOf(cf') = KindsOf(cf)
      BY <3>1 DEF KindsOf
    <3>3. DistOf(cf') = DistOf(cf)
      BY <2>0, <3>1, <3>2, DistOfConfig
    <3> QED
      BY <2>0, <3>3 DEF Lifecycle!vars
  <2>2. CASE ~cf.enabled /\ cf' = None
    <3>1. ~DistOf(cf).enabled /\ DistOf(cf) # None
      BY <2>0, <2>2, DistOfConfig
    <3>2. DistOf(cf') = None
      BY <2>2 DEF DistOf
    <3>3. Lifecycle!Vanish
      BY <2>0, <3>1, <3>2 DEF Lifecycle!Vanish
    <3> QED
      BY <3>3 DEF Lifecycle!Next
  <2> QED
    BY <1>3, <2>1, <2>2 DEF Console
<1>4. CASE Prepare
  <2> DEFINE acl == IF want.acl = None /\ cf # None THEN cf.webACL ELSE want.acl
             pc == IF IsEmpty(want)
                     THEN IF cf # None /\ DeletionEnabled THEN "delete" ELSE "idle"
                     ELSE IF cf = None THEN "create" ELSE "sync"
  <2>1. dirty /\ call.pc = "idle" /\ dirty' = FALSE /\ want' = want /\ cf' = cf
    BY <1>4 DEF Prepare, callLeaves
  <2>2. call' = IF pc = "idle" THEN NoCall
                ELSE [NoCall EXCEPT !.pc = pc, !.d = [want EXCEPT !.acl = acl]]
    BY <1>4 DEF Prepare
  <2>3. GoalOf(call') = IF pc = "idle" THEN None ELSE want.kinds
    <3>1. CASE pc = "idle"
      BY <2>2, <3>1, <1>i DEF GoalOf
    <3>2. CASE pc # "idle"
      <4>1. call'.pc = pc /\ call'.d.kinds = want.kinds
        BY <2>2, <3>2, NoCallType DEF Calls, TypeOK, Desired
      <4> QED
        BY <3>2, <4>1 DEF GoalOf
    <3> QED
      BY <3>1, <3>2
  <2>4. pc = "idle" <=> IsEmpty(want) /\ (cf = None \/ ~DeletionEnabled)
    OBVIOUS
  <2>5. cf = None <=> DistOf(cf) = None
    BY DistOfConfig DEF TypeOK, DistOf
  <2>6. Lifecycle!Empty(want.kinds) <=> IsEmpty(want)
    BY DEF Lifecycle!Empty, IsEmpty
  <2>7. GoalOf(call) = None
    BY <2>1 DEF GoalOf
  <2> HIDE DEF pc, acl
  <2>8. Lifecycle!Start
    BY <2>1, <2>3, <2>4, <2>5, <2>6, <2>7 DEF Lifecycle!Start
  <2> QED
    BY <2>8 DEF Lifecycle!Next
<1>5. CASE Create
  <2> PICK o \in Outcomes : Create!2!(o)
    BY <1>5 DEF Create
  <2>1. call.pc = "create" /\ ~IsEmpty(call.d) /\ want' = want
    BY <1>5 DEF Create, callLeaves, GoalFits
  <2>2. \/ cf' = cf
        \/ cf' \in Configs /\ cf'.enabled /\ KindsOf(cf') = call.d.kinds
    <3>1. NoCall.ids \in [Origins -> OACIds \cup {None}] /\ \A x \in Origins : NoCall.ids[x] = None
      BY DEF NoCall
    <3>2. call.d \in Desired
      BY <1>c DEF Calls
    <3> QED
      BY <3>1, <3>2, ConfigKinds, ConfigType, ExtrasAssumption
  <2>3. \/ call'.pc # "idle" /\ call'.d = call.d /\ dirty' = dirty
        \/ call' = NoCall /\ dirty' = TRUE
    BY <1>c DEF Continue, Fail, Calls
  <2> QED
    BY <1>c, <1>w, <2>1, <2>2, <2>3, WorkStep
<1>6. CASE ReadConfig
  <2>1. call.pc = "sync" /\ want' = want /\ cf' = cf
    BY <1>6 DEF ReadConfig, callLeaves
  <2>2. \/ call'.pc # "idle" /\ call'.d = call.d /\ dirty' = dirty
        \/ call' = NoCall /\ dirty' = TRUE
    BY <1>6, <1>c DEF ReadConfig, Continue, Fail, Calls
  <2> QED
    BY <1>c, <1>w, <2>1, <2>2, WorkStep
<1>7. CASE SyncOAC
  <2>1. call.pc = "syncOACs" /\ want' = want /\ cf' = cf
    BY <1>7 DEF SyncOAC, callLeaves
  <2>2. \/ call'.pc # "idle" /\ call'.d = call.d /\ dirty' = dirty
        \/ call' = NoCall /\ dirty' = TRUE
    BY <1>7, <1>c DEF SyncOAC, Continue, Fail, Calls
  <2> QED
    BY <1>c, <1>w, <2>1, <2>2, WorkStep
<1>8. CASE UpdateConfig
  <2> PICK o \in Outcomes : UpdateConfig!2!1!(o)
    BY <1>8 DEF UpdateConfig
  <2>1. call.pc = "syncOACs" /\ ~IsEmpty(call.d) /\ want' = want
    BY <1>8 DEF UpdateConfig, callLeaves, GoalFits
  <2>2. \/ cf' = cf
        \/ cf' \in Configs /\ cf'.enabled /\ KindsOf(cf') = call.d.kinds
    <3>1. CASE o.applied /\ IfMatch(call.read)
      <4>1. call.read \in Configs
        BY <2>1, <1>c DEF ConfigRead, Calls
      <4>2. call.read.extras \in Extras /\ call.d \in Desired
            /\ call.ids \in [Origins -> OACIds \cup {None}]
        BY <4>1, <1>c DEF Configs, Calls
      <4> QED
        BY <3>1, <4>2, ConfigKinds, ConfigType DEF OACsFit
    <3> QED
      BY <3>1
  <2>3. \/ call'.pc # "idle" /\ call'.d = call.d /\ dirty' = dirty
        \/ call' = NoCall /\ dirty' = TRUE
    BY <1>c DEF Continue, Fail, Calls
  <2> QED
    BY <1>c, <1>w, <2>1, <2>2, <2>3, WorkStep
<1>9. CASE DeleteOAC
  <2>1. call.pc = "deleteOACs" /\ want' = want /\ cf' = cf
    BY <1>9 DEF DeleteOAC, callLeaves
  <2>2. \/ call'.pc # "idle" /\ call'.d = call.d /\ dirty' = dirty
        \/ call' = NoCall /\ dirty' = TRUE
    BY <1>9, <1>c DEF DeleteOAC, Continue, Fail, Calls
  <2> QED
    BY <1>c, <1>w, <2>1, <2>2, WorkStep
<1>10. CASE FinishOACs
  <2>1. call.pc = "deleteOACs" /\ want' = want /\ cf' = cf
    BY <1>10 DEF FinishOACs, callLeaves
  <2>2. call' = NoCall /\ (dirty' = TRUE \/ dirty' = dirty)
    BY <1>10 DEF FinishOACs, Return, Fail
  <2>3. IF IsEmpty(call.d) THEN cf' = None
        ELSE cf' \in Configs /\ cf'.enabled /\ KindsOf(cf') = call.d.kinds
    BY <2>1 DEF GoalReached, TypeOK
  <2> QED
    BY <1>c, <1>w, <2>1, <2>2, <2>3, WorkStep
<1>11. CASE ReadForDelete
  <2>1. call.pc = "delete" /\ IsEmpty(call.d) /\ want' = want /\ cf' = cf
    BY <1>11 DEF ReadForDelete, callLeaves, GoalFits
  <2>2. \/ call'.pc # "idle" /\ call'.d = call.d /\ dirty' = dirty
        \/ call' = NoCall /\ dirty' = TRUE
        \/ call' = NoCall /\ dirty' = dirty /\ cf = None
    BY <1>11, <1>c DEF ReadForDelete, Return, Continue, Fail, Calls
  <2> QED
    BY <1>c, <1>w, <2>1, <2>2, WorkStep
<1>12. CASE disableDist
  <2> PICK o \in Outcomes : disableDist!2!1!(o)
    BY <1>12 DEF disableDist
  <2>1. call.pc = "disable" /\ IsEmpty(call.d) /\ want' = want
    BY <1>12 DEF disableDist, callLeaves, GoalFits
  <2>2. cf' = cf \/ (cf # None /\ cf' = [cf EXCEPT !.enabled = FALSE])
    BY <2>1 DEF IfMatch, ConfigRead
  <2>3. \/ call'.pc # "idle" /\ call'.d = call.d /\ dirty' = dirty
        \/ call' = NoCall /\ dirty' = TRUE
        \/ call' = NoCall /\ dirty' = dirty /\ cf = None
    BY <1>c DEF Return, Continue, Fail, Calls
  <2> QED
    BY <1>c, <1>w, <2>1, <2>2, <2>3, WorkStep
<1>13. CASE waitUntilDeployed
  <2>1. call.pc = "wait" /\ IsEmpty(call.d) /\ want' = want /\ cf' = cf
    BY <1>13 DEF waitUntilDeployed, callLeaves, GoalFits
  <2>2. \/ call'.pc # "idle" /\ call'.d = call.d /\ dirty' = dirty
        \/ call' = NoCall /\ dirty' = dirty /\ cf = None
    BY <1>13, <1>c DEF waitUntilDeployed, Return, Continue, Calls
  <2> QED
    BY <1>c, <1>w, <2>1, <2>2, WorkStep
<1>14. CASE WaitTimeout
  <2>1. call.pc = "wait" /\ want' = want /\ cf' = cf /\ call' = NoCall /\ dirty' = TRUE
    BY <1>14 DEF WaitTimeout, callLeaves, Fail
  <2> QED
    BY <1>c, <1>w, <2>1, WorkStep
<1>15. CASE Remove
  <2> PICK o \in Outcomes : Remove!2!1!(o)
    BY <1>15 DEF Remove
  <2>1. call.pc = "remove" /\ IsEmpty(call.d) /\ want' = want
    BY <1>15 DEF Remove, callLeaves, GoalFits
  <2>2. cf' = cf \/ (cf # None /\ ~cf.enabled /\ cf' = None)
    OBVIOUS
  <2>3. \/ call'.pc # "idle" /\ call'.d = call.d /\ dirty' = dirty
        \/ call' = NoCall /\ dirty' = TRUE
    BY <1>c DEF Continue, Fail, Calls
  <2> QED
    BY <1>c, <1>w, <2>1, <2>2, <2>3, WorkStep
<1> QED
  BY <1>1, <1>2, <1>3, <1>4, <1>5, <1>6, <1>7, <1>8, <1>9, <1>10, <1>11, <1>12, <1>13, <1>14, <1>15
     DEF Next, Repository, vars, Deploy, consoleLeaves

(* DistRepository implements DistLifecycle: for any origins, OACs, bounds  *)
(* and console edits, and whichever requests fail, Service may take a call *)
(* to be one step towards its goal.                                        *)
THEOREM LifecycleKept == SafetySpec => KeepsLifecycle
<1>1. Init => Lifecycle!Init
  <2> SUFFICES ASSUME Init PROVE Lifecycle!Init
    OBVIOUS
  <2>1. DistOf(cf) = None /\ GoalOf(call) = None /\ dirty = FALSE
    BY DEF Init, DistOf, GoalOf, NoCall
  <2>2. want.kinds \in Lifecycle!Kinds /\ Lifecycle!Empty(want.kinds)
    BY DEF Init, Nothing, Lifecycle!Kinds, Lifecycle!Empty
  <2> QED
    BY <2>1, <2>2 DEF Lifecycle!Init
<1>2. GInv /\ [Next]_vars => [Lifecycle!Next]_(Lifecycle!vars)
  BY RefineStep
<1> QED
  BY <1>1, <1>2, GoalInvariance, PTL DEF SafetySpec, KeepsLifecycle, Lifecycle!Spec

-----------------------------------------------------------------------------
(* What success means.  The goal of the contract says nothing of OACs and  *)
(* of the WebACL; the invariant below adds them.                           *)

(* An OAC the distribution refers to exists and is the one of that origin. *)
OwnOACs ==
    cf # None =>
        \A o \in Origins : cf.origins[o] \in OACIds => oacs[cf.origins[o]] = o

(* Before OACs are synced a call knows none; while they are, those already *)
(* done exist, and no bucket origin has been forgotten.                    *)
SyncedOACs ==
    /\ call.pc \in {"create", "sync"} => \A o \in Origins : call.ids[o] = None
    /\ call.pc = "syncOACs" =>
          \A o \in Origins :
              /\ call.ids[o] # None => oacs[call.ids[o]] = o
              /\ call.d.kinds[o] = "bucket" => o \in call.todo \/ call.ids[o] # None

(* Unless another reconciliation is due, the call in progress is for the   *)
(* latest desired state.                                                   *)
UpToDate ==
    (call.pc # "idle" /\ ~dirty) =>
        /\ call.d.kinds = want.kinds
        /\ want.acl # None => call.d.acl = want.acl

(* Once only superfluous OACs are left to be deleted, every bucket has an  *)
(* OAC and the WebACL is the call's, unless it was edited in the console.  *)
Protected ==
    (call.pc = "deleteOACs" /\ ~IsEmpty(call.d)) =>
        /\ \A o \in Origins : call.d.kinds[o] = "bucket" => cf.origins[o] \in OACIds
        /\ console = 0 => cf.webACL = call.d.acl

SInv == /\ GInv
        /\ OwnOACs /\ SyncedOACs /\ UpToDate /\ Protected
        /\ SuccessMeansConfigured

(* An answer without an error has had its effect. *)
LEMMA OKApplied ==
  ASSUME NEW o \in Outcomes, o.ok
  PROVE  o.applied
  BY DEF Outcomes

(* Syncing the OAC of one origin takes none away from another. *)
LEMMA SyncKeepsOACs ==
  ASSUME TypeOK, NEW x \in Origins, NEW y \in OACIds, oacs[y] \in {x, None},
         NEW a \in BOOLEAN, oacs' = IF a THEN [oacs EXCEPT ![y] = x] ELSE oacs
  PROVE  /\ \A z \in OACIds, o \in Origins : oacs[z] = o => oacs'[z] = o
         /\ a => oacs'[y] = x
  BY NoneAssumption DEF TypeOK

(* The parts of SyncOAC the proofs below use. *)
LEMMA SyncOACParts ==
  ASSUME TypeOK, SyncOAC
  PROVE  \E x \in call.todo, y \in OACIds, o \in Outcomes :
            /\ x \in Origins /\ oacs[y] \in {x, None} /\ o.applied \in BOOLEAN
            /\ oacs' = IF o.applied THEN [oacs EXCEPT ![y] = x] ELSE oacs
            /\ IF o.ok THEN call' = [call EXCEPT !.todo = @ \ {x}, !.ids[x] = y] /\ dirty' = dirty
               ELSE call' = NoCall /\ dirty' = TRUE
            /\ cf' = cf /\ want' = want /\ console' = console
<1> PICK x \in call.todo, o \in Outcomes : SyncOAC!2!(x, o)
  BY DEF SyncOAC
<1>1. PICK y \in IF {z \in OACIds : oacs[z] = x} # {} THEN {z \in OACIds : oacs[z] = x}
                 ELSE {z \in OACIds : oacs[z] = None} :
         /\ Charge(o)
         /\ oacs' = IF o.applied THEN [oacs EXCEPT ![y] = x] ELSE oacs
         /\ IF o.ok THEN Continue([call EXCEPT !.todo = @ \ {x}, !.ids[x] = y]) ELSE Fail
  OBVIOUS
<1>2. x \in Origins /\ y \in OACIds /\ oacs[y] \in {x, None}
  BY DEF TypeOK, Calls
<1>3. o.applied \in BOOLEAN
  BY <1>1, OutcomesType
<1>4. cf' = cf /\ want' = want /\ console' = console
  BY DEF SyncOAC, callLeaves
<1> QED
  BY <1>1, <1>2, <1>3, <1>4 DEF Continue, Fail

(* No origin ever points at an OAC that is missing or another origin's. *)
LEMMA OwnStep == SInv /\ [Next]_vars => OwnOACs'
<1> SUFFICES ASSUME TypeOK, ConfigRead, OACsFit, OwnOACs, SyncedOACs, [Next]_vars
             PROVE  OwnOACs'
  BY DEF SInv, GInv, IInv
<1>c. call \in Calls
  BY DEF TypeOK
<1>0. ASSUME oacs' = oacs, cf \in Configs, cf'.origins = cf.origins
      PROVE  OwnOACs'
  <2>1. cf # None
    BY <1>0, NoValueAssumption
  <2> QED
    BY <1>0, <2>1 DEF OwnOACs
<1>1. CASE UNCHANGED <<cf, oacs>>
  BY <1>1 DEF OwnOACs
<1>2. CASE cf' = None
  BY <1>2 DEF OwnOACs
<1>3. CASE Console
  <2>1. cf \in Configs /\ oacs' = oacs
    BY <1>3 DEF Console, consoleLeaves, TypeOK
  <2>2. cf' = None \/ cf'.origins = cf.origins
    BY <1>3, <2>1 DEF Console, Configs
  <2> QED
    BY <1>0, <1>2, <2>1, <2>2
<1>4. CASE Create
  <2> PICK o \in Outcomes : Create!2!(o)
    BY <1>4 DEF Create
  <2>1. CASE cf' = cf
    BY <1>4, <1>1, <2>1 DEF Create
  <2>2. CASE cf' = newAWSDistributionConfig(call.d, NoCall.ids, DefaultExtras)
    <3>1. \A x \in Origins : cf'.origins[x] = call.d.kinds[x]
      BY <2>2 DEF newAWSDistributionConfig, NoCall
    <3>2. \A x \in Origins : call.d.kinds[x] \notin OACIds
      BY <1>c, PlainOriginsAssumption DEF Calls, Desired, Kinds
    <3> QED
      BY <3>1, <3>2 DEF OwnOACs
  <2> QED
    BY <2>1, <2>2
<1>5. CASE SyncOAC
  <2>1. PICK x \in call.todo, y \in OACIds, o \in Outcomes :
            /\ x \in Origins /\ oacs[y] \in {x, None} /\ o.applied \in BOOLEAN
            /\ oacs' = IF o.applied THEN [oacs EXCEPT ![y] = x] ELSE oacs
            /\ cf' = cf
    BY <1>5, SyncOACParts
  <2>2. \A z \in OACIds, p \in Origins : oacs[z] = p => oacs'[z] = p
    BY <2>1, SyncKeepsOACs
  <2> QED
    BY <2>1, <2>2 DEF OwnOACs
<1>6. CASE UpdateConfig
  <2> PICK o \in Outcomes : UpdateConfig!2!1!(o)
    BY <1>6 DEF UpdateConfig
  <2>0. oacs' = oacs /\ call.pc = "syncOACs"
    BY <1>6 DEF UpdateConfig
  <2>1. CASE cf' = cf
    BY <1>1, <2>0, <2>1
  <2>2. CASE cf' = newAWSDistributionConfig(call.d, call.ids, call.read.extras)
    <3>1. cf'.origins = [x \in Origins |-> IF call.ids[x] # None THEN call.ids[x]
                                           ELSE call.d.kinds[x]]
      BY <2>2 DEF newAWSDistributionConfig
    <3>2. \A x \in Origins : call.d.kinds[x] \notin OACIds
      BY <1>c, PlainOriginsAssumption DEF Calls, Desired, Kinds
    <3>3. \A x \in Origins : call.ids[x] # None => oacs[call.ids[x]] = x
      BY <2>0 DEF SyncedOACs
    <3> QED
      BY <2>0, <3>1, <3>2, <3>3 DEF OwnOACs
  <2> QED
    BY <2>1, <2>2
<1>7. CASE DeleteOAC
  <2> PICK y \in call.drop, o \in Outcomes : DeleteOAC!2!(y, o)
    BY <1>7 DEF DeleteOAC
  <2>1. cf' = cf
    BY <1>7 DEF DeleteOAC
  <2>2. oacs' = oacs \/ (~InUse(y) /\ oacs' = [oacs EXCEPT ![y] = None])
    OBVIOUS
  <2>3. CASE ~InUse(y) /\ oacs' = [oacs EXCEPT ![y] = None]
    <3>1. ASSUME cf # None, NEW x \in Origins, cf.origins[x] \in OACIds
          PROVE  oacs'[cf.origins[x]] = x
      <4>1. cf.origins[x] # y
        BY <2>3, <3>1 DEF InUse, OACsOf
      <4> QED
        BY <2>3, <3>1, <4>1 DEF OwnOACs, TypeOK
    <3> QED
      BY <2>1, <3>1 DEF OwnOACs
  <2> QED
    BY <1>1, <2>1, <2>2, <2>3
<1>8. CASE disableDist
  <2> PICK o \in Outcomes : disableDist!2!1!(o)
    BY <1>8 DEF disableDist
  <2>1. oacs' = oacs /\ call.pc = "disable"
    BY <1>8 DEF disableDist
  <2>2. CASE o.applied /\ IfMatch(call.read)
    <3>1. cf \in Configs /\ cf' = [cf EXCEPT !.enabled = FALSE]
      BY <2>1, <2>2 DEF IfMatch, ConfigRead, TypeOK
    <3> QED
      BY <1>0, <2>1, <3>1 DEF Configs
  <2> QED
    BY <1>1, <2>1, <2>2
<1>9. CASE Remove
  <2>1. oacs' = oacs /\ (cf' = cf \/ cf' = None)
    BY <1>9 DEF Remove
  <2> QED
    BY <1>1, <1>2, <2>1
<1> QED
  BY <1>1, <1>3, <1>4, <1>5, <1>6, <1>7, <1>8, <1>9
     DEF Next, Repository, vars, ChangeDesired, Deploy, consoleLeaves, Prepare, ReadConfig,
         FinishOACs, ReadForDelete, waitUntilDeployed, WaitTimeout

(* The call in progress is for the latest desired state, or is followed by *)
(* one that is.                                                            *)
LEMMA UpToDateStep == SInv /\ [Next]_vars => UpToDate'
<1> SUFFICES ASSUME TypeOK, UpToDate, [Next]_vars
             PROVE  UpToDate'
  BY DEF SInv, GInv, IInv
<1>c. call \in Calls
  BY DEF TypeOK
<1>0. CASE call' = NoCall \/ dirty'
  BY <1>0 DEF UpToDate, NoCall
<1>1. ASSUME call.pc # "idle", call'.d = call.d, dirty' = dirty, want' = want
      PROVE  UpToDate'
  BY <1>1 DEF UpToDate
<1>2. CASE UNCHANGED <<call, dirty, want>>
  BY <1>2 DEF UpToDate
<1>3. CASE ChangeDesired
  BY <1>0, <1>3 DEF ChangeDesired
<1>4. CASE Prepare
  <2> DEFINE acl == IF want.acl = None /\ cf # None THEN cf.webACL ELSE want.acl
             pc == IF IsEmpty(want)
                     THEN IF cf # None /\ DeletionEnabled THEN "delete" ELSE "idle"
                     ELSE IF cf = None THEN "create" ELSE "sync"
  <2>1. call' = NoCall \/ call' = [NoCall EXCEPT !.pc = pc, !.d = [want EXCEPT !.acl = acl]]
    BY <1>4 DEF Prepare
  <2>2. want' = want
    BY <1>4 DEF Prepare, callLeaves
  <2>3. CASE call' = [NoCall EXCEPT !.pc = pc, !.d = [want EXCEPT !.acl = acl]]
    <3>1. call'.d = [want EXCEPT !.acl = acl]
      BY <2>3, NoCallType DEF Calls
    <3>2. call'.d.kinds = want.kinds /\ call'.d.acl = acl
      BY <3>1 DEF TypeOK, Desired
    <3> QED
      BY <2>2, <3>2 DEF UpToDate
  <2> QED
    BY <1>0, <2>1, <2>3
<1>5. CASE Create
  <2>1. want' = want /\ call.pc = "create"
    BY <1>5 DEF Create, callLeaves
  <2>2. (call' = NoCall \/ dirty') \/ (call'.d = call.d /\ dirty' = dirty)
    BY <1>5, <1>c DEF Create, Continue, Fail, Calls
  <2> QED
    BY <1>0, <1>1, <2>1, <2>2
<1>6. CASE ReadConfig
  <2>1. want' = want /\ call.pc = "sync"
    BY <1>6 DEF ReadConfig, callLeaves
  <2>2. (call' = NoCall \/ dirty') \/ (call'.d = call.d /\ dirty' = dirty)
    BY <1>6, <1>c DEF ReadConfig, Continue, Fail, Calls
  <2> QED
    BY <1>0, <1>1, <2>1, <2>2
<1>7. CASE SyncOAC
  <2>1. want' = want /\ call.pc = "syncOACs"
    BY <1>7 DEF SyncOAC, callLeaves
  <2>2. (call' = NoCall \/ dirty') \/ (call'.d = call.d /\ dirty' = dirty)
    BY <1>7, <1>c DEF SyncOAC, Continue, Fail, Calls
  <2> QED
    BY <1>0, <1>1, <2>1, <2>2
<1>8. CASE UpdateConfig
  <2>1. want' = want /\ call.pc = "syncOACs"
    BY <1>8 DEF UpdateConfig, callLeaves
  <2>2. (call' = NoCall \/ dirty') \/ (call'.d = call.d /\ dirty' = dirty)
    BY <1>8, <1>c DEF UpdateConfig, Continue, Fail, Calls
  <2> QED
    BY <1>0, <1>1, <2>1, <2>2
<1>9. CASE DeleteOAC
  <2>1. want' = want /\ call.pc = "deleteOACs"
    BY <1>9 DEF DeleteOAC, callLeaves
  <2>2. (call' = NoCall \/ dirty') \/ (call'.d = call.d /\ dirty' = dirty)
    BY <1>9, <1>c DEF DeleteOAC, Continue, Fail, Calls
  <2> QED
    BY <1>0, <1>1, <2>1, <2>2
<1>10. CASE FinishOACs \/ WaitTimeout
  BY <1>0, <1>10 DEF FinishOACs, WaitTimeout, Return, Fail
<1>11. CASE ReadForDelete
  <2>1. want' = want /\ call.pc = "delete"
    BY <1>11 DEF ReadForDelete, callLeaves
  <2>2. (call' = NoCall \/ dirty') \/ (call'.d = call.d /\ dirty' = dirty)
    BY <1>11, <1>c DEF ReadForDelete, Return, Continue, Fail, Calls
  <2> QED
    BY <1>0, <1>1, <2>1, <2>2
<1>12. CASE disableDist
  <2>1. want' = want /\ call.pc = "disable"
    BY <1>12 DEF disableDist, callLeaves
  <2>2. (call' = NoCall \/ dirty') \/ (call'.d = call.d /\ dirty' = dirty)
    BY <1>12, <1>c DEF disableDist, Return, Continue, Fail, Calls
  <2> QED
    BY <1>0, <1>1, <2>1, <2>2
<1>13. CASE waitUntilDeployed
  <2>1. want' = want /\ call.pc = "wait"
    BY <1>13 DEF waitUntilDeployed, callLeaves
  <2>2. (call' = NoCall \/ dirty') \/ (call'.d = call.d /\ dirty' = dirty)
    BY <1>13, <1>c DEF waitUntilDeployed, Return, Continue, Calls
  <2> QED
    BY <1>0, <1>1, <2>1, <2>2
<1>14. CASE Remove
  <2>1. want' = want /\ call.pc = "remove"
    BY <1>14 DEF Remove, callLeaves
  <2>2. (call' = NoCall \/ dirty') \/ (call'.d = call.d /\ dirty' = dirty)
    BY <1>14, <1>c DEF Remove, Continue, Fail, Calls
  <2> QED
    BY <1>0, <1>1, <2>1, <2>2
<1> QED
  BY <1>2, <1>3, <1>4, <1>5, <1>6, <1>7, <1>8, <1>9, <1>10, <1>11, <1>12, <1>13, <1>14
     DEF Next, Repository, vars, Console, Deploy, consoleLeaves

(* What a Sync has found out about OACs stays true while it goes on. *)
LEMMA SyncedStep == SInv /\ [Next]_vars => SyncedOACs'
<1> SUFFICES ASSUME TypeOK, SyncedOACs, [Next]_vars
             PROVE  SyncedOACs'
  BY DEF SInv, GInv, IInv
<1>c. call \in Calls
  BY DEF TypeOK
<1>i. NoCall.pc = "idle"
  BY DEF NoCall
<1>0. ASSUME call'.pc \notin {"create", "sync", "syncOACs"}
      PROVE  SyncedOACs'
  BY <1>0 DEF SyncedOACs
<1>1. CASE UNCHANGED <<call, oacs>>
  BY <1>1 DEF SyncedOACs
<1>2. CASE Prepare
  <2>1. call'.ids = NoCall.ids /\ call'.pc # "syncOACs"
    BY <1>2, <1>i, NoCallType DEF Prepare, Calls
  <2> QED
    BY <2>1 DEF SyncedOACs, NoCall
<1>3. CASE Create
  <2>1. call' = NoCall \/ (call'.pc = "sync" /\ call'.ids = call.ids)
    BY <1>3, <1>c DEF Create, Continue, Fail, Calls
  <2>2. call.pc = "create"
    BY <1>3 DEF Create
  <2> QED
    BY <1>0, <1>i, <2>1, <2>2 DEF SyncedOACs
<1>4. CASE ReadConfig
  <2>1. \/ call' = NoCall
        \/ /\ call'.pc = "syncOACs" /\ call'.d = call.d /\ call'.ids = call.ids
           /\ call'.todo = {x \in Origins : call.d.kinds[x] = "bucket"}
    BY <1>4, <1>c DEF ReadConfig, Continue, Fail, Calls
  <2>2. call.pc = "sync"
    BY <1>4 DEF ReadConfig
  <2> QED
    BY <1>0, <1>i, <2>1, <2>2 DEF SyncedOACs
<1>5. CASE SyncOAC
  <2>1. PICK x \in call.todo, y \in OACIds, o \in Outcomes :
            /\ x \in Origins /\ oacs[y] \in {x, None} /\ o.applied \in BOOLEAN
            /\ oacs' = IF o.applied THEN [oacs EXCEPT ![y] = x] ELSE oacs
            /\ IF o.ok THEN call' = [call EXCEPT !.todo = @ \ {x}, !.ids[x] = y] /\ dirty' = dirty
               ELSE call' = NoCall /\ dirty' = TRUE
    BY <1>5, SyncOACParts
  <2>2. CASE ~o.ok
    BY <1>0, <1>i, <2>1, <2>2
  <2>3. CASE o.ok
    <3>1. /\ \A z \in OACIds, p \in Origins : oacs[z] = p => oacs'[z] = p
          /\ oacs'[y] = x
      BY <2>1, <2>3, OKApplied, SyncKeepsOACs
    <3>2. /\ call'.pc = call.pc /\ call'.d = call.d /\ call'.todo = call.todo \ {x}
          /\ call'.ids = [call.ids EXCEPT ![x] = y]
      BY <2>1, <2>3, <1>c DEF Calls
    <3>3. call'.ids[x] = y /\ \A z \in Origins : z # x => call'.ids[z] = call.ids[z]
      BY <3>2, <2>1, <1>c DEF Calls
    <3>4. call.pc = "syncOACs" /\ call.ids \in [Origins -> OACIds \cup {None}]
      BY <1>5, <1>c DEF SyncOAC, Calls
    <3>5. ASSUME NEW z \in Origins
          PROVE  /\ call'.ids[z] # None => oacs'[call'.ids[z]] = z
                 /\ call.d.kinds[z] = "bucket" => z \in call'.todo \/ call'.ids[z] # None
      <4>1. CASE z = x
        BY <4>1, <3>1, <3>3, NoneAssumption
      <4>2. CASE z # x
        BY <4>2, <3>1, <3>2, <3>3, <3>4 DEF SyncedOACs
      <4> QED
        BY <4>1, <4>2
    <3> QED
      BY <3>2, <3>4, <3>5 DEF SyncedOACs
  <2> QED
    BY <2>2, <2>3
<1>6. CASE UpdateConfig
  <2>1. call'.pc \in {"idle", "deleteOACs"}
    BY <1>6, <1>i, <1>c DEF UpdateConfig, Continue, Fail, Calls
  <2> QED
    BY <1>0, <2>1
<1>7. CASE DeleteOAC
  <2>1. call'.pc \in {"idle", "deleteOACs"}
    BY <1>7, <1>i, <1>c DEF DeleteOAC, Continue, Fail, Calls
  <2> QED
    BY <1>0, <2>1
<1>8. CASE FinishOACs \/ WaitTimeout
  <2>1. call'.pc = "idle"
    BY <1>8, <1>i DEF FinishOACs, WaitTimeout, Return, Fail
  <2> QED
    BY <1>0, <2>1
<1>9. CASE ReadForDelete
  <2>1. call'.pc \in {"idle", "disable", "wait"}
    BY <1>9, <1>i, <1>c DEF ReadForDelete, Return, Continue, Fail, Calls
  <2> QED
    BY <1>0, <2>1
<1>10. CASE disableDist
  <2>1. call'.pc \in {"idle", "wait"}
    BY <1>10, <1>i, <1>c DEF disableDist, Return, Continue, Fail, Calls
  <2> QED
    BY <1>0, <2>1
<1>11. CASE waitUntilDeployed
  <2>1. call'.pc \in {"idle", "remove"}
    BY <1>11, <1>i, <1>c DEF waitUntilDeployed, Return, Continue, Calls
  <2> QED
    BY <1>0, <2>1
<1>12. CASE Remove
  <2>1. call'.pc \in {"idle", "deleteOACs"}
    BY <1>12, <1>i, <1>c DEF Remove, Continue, Fail, Calls
  <2> QED
    BY <1>0, <2>1
<1> QED
  BY <1>1, <1>2, <1>3, <1>4, <1>5, <1>6, <1>7, <1>8, <1>9, <1>10, <1>11, <1>12
     DEF Next, Repository, vars, ChangeDesired, Console, Deploy, consoleLeaves

(* Console edits change neither the origins nor whether it is enabled. *)
LEMMA ConsoleParts ==
  ASSUME TypeOK, Console
  PROVE  /\ want' = want /\ dirty' = dirty /\ oacs' = oacs /\ call' = call
         /\ cf \in Configs /\ cf # None /\ console' # 0
         /\ \/ cf' \in Configs /\ cf'.enabled = cf.enabled /\ cf'.origins = cf.origins
            \/ ~cf.enabled /\ cf' = None
<1>1. cf \in Configs /\ cf # None
  BY DEF Console, TypeOK
<1>2. console' # 0
  <2>1. console' = console + 1
    BY DEF Console
  <2> QED
    BY <2>1, BoundsAssumption DEF TypeOK
<1>3. \/ cf' \in Configs /\ cf'.enabled = cf.enabled /\ cf'.origins = cf.origins
      \/ ~cf.enabled /\ cf' = None
  BY <1>1 DEF Console, Configs
<1> QED
  BY <1>1, <1>2, <1>3 DEF Console, consoleLeaves

(* The update that ends a Sync configures OACs and the WebACL, and nothing *)
(* but the console takes them away again before the call returns.          *)
LEMMA ProtectedStep == SInv /\ [Next]_vars => Protected'
<1> SUFFICES ASSUME TypeOK, ConfigRead, GoalFits, OACsFit, GoalReached, SyncedOACs, Protected,
                    [Next]_vars
             PROVE  Protected'
  BY DEF SInv, GInv, IInv
<1>c. call \in Calls
  BY DEF TypeOK
<1>i. NoCall.pc = "idle"
  BY DEF NoCall
<1>0. ASSUME call'.pc # "deleteOACs"
      PROVE  Protected'
  BY <1>0 DEF Protected
<1>1. CASE UNCHANGED <<call, cf, console>>
  BY <1>1 DEF Protected, IsEmpty
<1>2. CASE Console
  <2> USE <1>2, ConsoleParts
  <2>1. CASE call.pc = "deleteOACs" /\ ~IsEmpty(call.d)
    <3>1. cf'.origins = cf.origins
      BY <2>1 DEF GoalReached
    <3> QED
      BY <2>1, <3>1 DEF Protected, IsEmpty
  <2> QED
    BY <2>1 DEF Protected, IsEmpty
<1>3. CASE Prepare
  <2>1. call'.pc # "deleteOACs"
    BY <1>3, <1>i, NoCallType DEF Prepare, Calls
  <2> QED
    BY <1>0, <2>1
<1>4. CASE Create
  <2>1. call'.pc \in {"idle", "sync"}
    BY <1>4, <1>i, <1>c DEF Create, Continue, Fail, Calls
  <2> QED
    BY <1>0, <2>1
<1>5. CASE ReadConfig
  <2>1. call'.pc \in {"idle", "syncOACs"}
    BY <1>5, <1>i, <1>c DEF ReadConfig, Continue, Fail, Calls
  <2> QED
    BY <1>0, <2>1
<1>6. CASE SyncOAC
  <2>1. call'.pc \in {"idle", "syncOACs"}
    BY <1>6, <1>i, <1>c DEF SyncOAC, Continue, Fail, Calls
  <2> QED
    BY <1>0, <2>1
<1>7. CASE UpdateConfig
  <2> PICK o \in Outcomes : UpdateConfig!2!1!(o)
    BY <1>7 DEF UpdateConfig
  <2>1. CASE call' = NoCall
    BY <1>0, <1>i, <2>1
  <2>2. CASE call' # NoCall
    <3>1. o.ok /\ IfMatch(call.read) /\ call' = [call EXCEPT !.pc = "deleteOACs"]
      BY <2>2 DEF Continue, Fail
    <3>2. cf' = newAWSDistributionConfig(call.d, call.ids, call.read.extras)
      BY <3>1, OKApplied
    <3>3. call'.d = call.d
      BY <3>1, <1>c DEF Calls
    <3>4. /\ cf'.origins = [x \in Origins |-> IF call.ids[x] # None THEN call.ids[x]
                                              ELSE call.d.kinds[x]]
          /\ cf'.webACL = call.d.acl
      BY <3>2 DEF newAWSDistributionConfig
    <3>5. call.pc = "syncOACs" /\ call.todo = {}
      BY <1>7 DEF UpdateConfig
    <3>6. \A x \in Origins : call.d.kinds[x] = "bucket" => call.ids[x] # None
      BY <3>5 DEF SyncedOACs
    <3>7. \A x \in Origins : call.ids[x] # None => call.ids[x] \in OACIds
      BY <1>c DEF Calls
    <3> QED
      BY <3>3, <3>4, <3>6, <3>7 DEF Protected, IsEmpty
  <2> QED
    BY <2>1, <2>2
<1>8. CASE DeleteOAC
  <2>1. call' = NoCall \/ (call'.pc = call.pc /\ call'.d = call.d)
    BY <1>8, <1>c DEF DeleteOAC, Continue, Fail, Calls
  <2>2. cf' = cf /\ console' = console
    BY <1>8 DEF DeleteOAC, callLeaves
  <2> QED
    BY <1>0, <1>i, <2>1, <2>2 DEF Protected, IsEmpty
<1>9. CASE FinishOACs \/ WaitTimeout
  <2>1. call'.pc = "idle"
    BY <1>9, <1>i DEF FinishOACs, WaitTimeout, Return, Fail
  <2> QED
    BY <1>0, <2>1
<1>10. CASE ReadForDelete
  <2>1. call'.pc \in {"idle", "disable", "wait"}
    BY <1>10, <1>i, <1>c DEF ReadForDelete, Return, Continue, Fail, Calls
  <2> QED
    BY <1>0, <2>1
<1>11. CASE disableDist
  <2>1. call'.pc \in {"idle", "wait"}
    BY <1>11, <1>i, <1>c DEF disableDist, Return, Continue, Fail, Calls
  <2> QED
    BY <1>0, <2>1
<1>12. CASE waitUntilDeployed
  <2>1. call'.pc \in {"idle", "remove"}
    BY <1>12, <1>i, <1>c DEF waitUntilDeployed, Return, Continue, Calls
  <2> QED
    BY <1>0, <2>1
<1>13. CASE Remove
  <2>1. call' = NoCall \/ call'.d = call.d
    BY <1>13, <1>c DEF Remove, Continue, Fail, Calls
  <2>2. IsEmpty(call.d)
    BY <1>13 DEF Remove, GoalFits
  <2> QED
    BY <1>i, <2>1, <2>2 DEF Protected, IsEmpty
<1> QED
  BY <1>1, <1>2, <1>3, <1>4, <1>5, <1>6, <1>7, <1>8, <1>9, <1>10, <1>11, <1>12, <1>13
     DEF Next, Repository, vars, ChangeDesired, Deploy, consoleLeaves, callLeaves

(* A call that has reached its goal and is up to date leaves the           *)
(* distribution as desired.                                                *)
LEMMA GoalIsConfigured ==
  ASSUME TypeOK, GoalReached, OwnOACs, UpToDate, Protected,
         call.pc = "deleteOACs", ~dirty
  PROVE  Configured
<1>1. call.d.kinds = want.kinds /\ (want.acl # None => call.d.acl = want.acl)
  BY DEF UpToDate
<1>2. IsEmpty(call.d) <=> IsEmpty(want)
  BY <1>1 DEF IsEmpty
<1>3. CASE IsEmpty(want)
  BY <1>2, <1>3 DEF GoalReached, Configured
<1>4. CASE ~IsEmpty(want)
  <2>1. cf # None /\ cf.enabled /\ KindsOf(cf) = want.kinds
    BY <1>1, <1>2, <1>4 DEF GoalReached
  <2>2. ASSUME NEW o \in Origins
        PROVE  IF want.kinds[o] = "bucket"
                 THEN cf.origins[o] \in OACIds /\ oacs[cf.origins[o]] = o
                 ELSE cf.origins[o] = want.kinds[o]
    <3>1. CASE want.kinds[o] = "bucket"
      BY <1>1, <1>2, <1>4, <2>1, <3>1 DEF Protected, OwnOACs
    <3>2. CASE want.kinds[o] # "bucket"
      <4>1. KindsOf(cf)[o] = IF cf.origins[o] \in OACIds THEN "bucket" ELSE cf.origins[o]
        BY DEF KindsOf
      <4> QED
        BY <2>1, <3>2, <4>1
    <3> QED
      BY <3>1, <3>2
  <2>3. want.acl # None /\ console = 0 => cf.webACL = want.acl
    BY <1>1, <1>2, <1>4 DEF Protected
  <2> QED
    BY <1>4, <2>1, <2>2, <2>3 DEF Configured
<1> QED
  BY <1>3, <1>4

(* The state a call has left stays as desired until the next change. *)
LEMMA SuccessStep == SInv /\ [Next]_vars => SuccessMeansConfigured'
<1> SUFFICES ASSUME TypeOK, ConfigRead, GoalFits, GoalReached, OwnOACs, UpToDate, Protected,
                    SuccessMeansConfigured, [Next]_vars
             PROVE  SuccessMeansConfigured'
  BY DEF SInv, GInv, IInv
<1>c. call \in Calls
  BY DEF TypeOK
<1>0. ASSUME call'.pc # "idle" \/ dirty'
      PROVE  SuccessMeansConfigured'
  BY <1>0 DEF SuccessMeansConfigured
<1>1. CASE UNCHANGED <<want, dirty, cf, oacs, call, console>>
  BY <1>1 DEF SuccessMeansConfigured, Configured, IsEmpty
<1>e. ASSUME call.pc \in {"delete", "disable", "wait"}, dirty' = dirty, want' = want,
             cf = None, cf' = cf
      PROVE  SuccessMeansConfigured'
  <2>1. CASE dirty
    BY <1>0, <1>e, <2>1
  <2>2. CASE ~dirty
    <3>1. IsEmpty(call.d) /\ call.d.kinds = want.kinds
      BY <1>e, <2>2 DEF GoalFits, UpToDate
    <3>2. \A o \in Origins : want.kinds[o] = "absent"
      BY <3>1 DEF IsEmpty
    <3>3. IsEmpty(want)'
      BY <1>e, <3>2 DEF IsEmpty
    <3> QED
      BY <1>e, <3>3 DEF SuccessMeansConfigured, Configured
  <2> QED
    BY <2>1, <2>2
<1>2. CASE Console
  <2>1. CASE call.pc = "idle" /\ ~dirty
    <3>1. Configured
      BY <2>1 DEF SuccessMeansConfigured
    <3>2. /\ want' = want /\ oacs' = oacs /\ cf # None /\ console' # 0
          /\ \/ cf' \in Configs /\ cf'.enabled = cf.enabled /\ cf'.origins = cf.origins
             \/ ~cf.enabled /\ cf' = None
      BY <1>2, ConsoleParts
    <3>3. CASE IsEmpty(want)
      BY <3>1, <3>2, <3>3 DEF SuccessMeansConfigured, Configured, IsEmpty
    <3>4. CASE ~IsEmpty(want)
      <4>1. cf' \in Configs /\ cf'.enabled /\ cf'.origins = cf.origins
        BY <3>1, <3>2, <3>4 DEF Configured
      <4>2. cf' # None
        BY <4>1, NoValueAssumption
      <4> QED
        BY <3>1, <3>2, <3>4, <4>1, <4>2 DEF SuccessMeansConfigured, Configured, IsEmpty
    <3> QED
      BY <3>3, <3>4
  <2>2. CASE ~(call.pc = "idle" /\ ~dirty)
    BY <1>0, <1>2, <2>2, ConsoleParts
  <2> QED
    BY <2>1, <2>2
<1>3. CASE ChangeDesired
  BY <1>0, <1>3 DEF ChangeDesired
<1>4. CASE Prepare
  <2>1. call' = NoCall \/ call'.pc # "idle"
    BY <1>4, NoCallType DEF Prepare, Calls
  <2>2. CASE call' = NoCall
    <3>0. NoCall.pc = "idle"
      BY DEF NoCall
    <3>1. IsEmpty(want) /\ (cf = None \/ ~DeletionEnabled)
      BY <1>4, <2>2, <3>0, NoCallType DEF Prepare, Calls
    <3>2. want' = want /\ cf' = cf
      BY <1>4 DEF Prepare, callLeaves
    <3> QED
      BY <3>1, <3>2 DEF SuccessMeansConfigured, Configured, IsEmpty
  <2> QED
    BY <1>0, <2>1, <2>2
<1>5. CASE Create
  <2>1. call'.pc # "idle" \/ dirty'
    BY <1>5, <1>c DEF Create, Continue, Fail, Calls
  <2> QED
    BY <1>0, <2>1
<1>6. CASE ReadConfig
  <2>1. call'.pc # "idle" \/ dirty'
    BY <1>6, <1>c DEF ReadConfig, Continue, Fail, Calls
  <2> QED
    BY <1>0, <2>1
<1>7. CASE SyncOAC
  <2>1. call'.pc # "idle" \/ dirty'
    BY <1>7, <1>c DEF SyncOAC, Continue, Fail, Calls
  <2> QED
    BY <1>0, <2>1
<1>8. CASE UpdateConfig
  <2>1. call'.pc # "idle" \/ dirty'
    BY <1>8, <1>c DEF UpdateConfig, Continue, Fail, Calls
  <2> QED
    BY <1>0, <2>1
<1>9. CASE DeleteOAC
  <2>1. call'.pc # "idle" \/ dirty'
    BY <1>9, <1>c DEF DeleteOAC, Continue, Fail, Calls
  <2> QED
    BY <1>0, <2>1
<1>10. CASE FinishOACs
  <2>1. /\ call.pc = "deleteOACs" /\ want' = want /\ cf' = cf /\ oacs' = oacs /\ console' = console
        /\ dirty' \/ dirty' = dirty
    BY <1>10 DEF FinishOACs, callLeaves, Return, Fail
  <2>2. CASE dirty'
    BY <1>0, <2>2
  <2>3. CASE ~dirty'
    <3>1. Configured
      BY <2>1, <2>3, GoalIsConfigured
    <3> QED
      BY <2>1, <3>1 DEF SuccessMeansConfigured, Configured, IsEmpty
  <2> QED
    BY <2>2, <2>3
<1>11. CASE ReadForDelete
  <2>1. \/ call'.pc # "idle" \/ dirty'
        \/ cf = None /\ dirty' = dirty
    BY <1>11, <1>c DEF ReadForDelete, Return, Continue, Fail, Calls
  <2>2. call.pc = "delete" /\ want' = want /\ cf' = cf
    BY <1>11 DEF ReadForDelete, callLeaves
  <2> QED
    BY <1>0, <1>e, <2>1, <2>2
<1>12. CASE disableDist
  <2> PICK o \in Outcomes : disableDist!2!1!(o)
    BY <1>12 DEF disableDist
  <2>1. \/ call'.pc # "idle" \/ dirty'
        \/ cf = None /\ dirty' = dirty
    BY <1>c DEF Return, Continue, Fail, Calls
  <2>2. call.pc = "disable" /\ want' = want
    BY <1>12 DEF disableDist, callLeaves
  <2>3. cf = None => cf' = cf
    BY <2>2 DEF IfMatch, ConfigRead
  <2> QED
    BY <1>0, <1>e, <2>1, <2>2, <2>3
<1>13. CASE waitUntilDeployed
  <2>1. \/ call'.pc # "idle"
        \/ cf = None /\ dirty' = dirty
    BY <1>13, <1>c DEF waitUntilDeployed, Return, Continue, Calls
  <2>2. call.pc = "wait" /\ want' = want /\ cf' = cf
    BY <1>13 DEF waitUntilDeployed, callLeaves
  <2> QED
    BY <1>0, <1>e, <2>1, <2>2
<1>14. CASE WaitTimeout
  BY <1>0, <1>14 DEF WaitTimeout, Fail
<1>15. CASE Remove
  <2>1. call'.pc # "idle" \/ dirty'
    BY <1>15, <1>c DEF Remove, Continue, Fail, Calls
  <2> QED
    BY <1>0, <2>1
<1> QED
  BY <1>1, <1>2, <1>3, <1>4, <1>5, <1>6, <1>7, <1>8, <1>9, <1>10, <1>11, <1>12, <1>13, <1>14, <1>15
     DEF Next, Repository, vars, Deploy, consoleLeaves

(* Whatever requests failed, whichever state they left behind and whatever *)
(* was edited in the console meanwhile: when a call has returned success   *)
(* and nothing has changed since, the distribution is enabled with exactly *)
(* the desired origins, every bucket origin has an OAC of its own that     *)
(* exists, and the WebACL is attached.                                     *)
THEOREM SuccessIsConfigured == SafetySpec => []SuccessMeansConfigured
<1>1. Init => SInv
  <2> SUFFICES ASSUME Init PROVE SInv
    OBVIOUS
  <2>1. GInv
    <3>1. IInv
      BY TypeInit DEF IInv, Init, NoCall, ConfigRead, CreatesWhatIsMissing
    <3> QED
      BY <3>1, IdleFits DEF GInv, Init
  <2>2. OwnOACs /\ SyncedOACs /\ UpToDate /\ Protected
    BY DEF Init, NoCall, OwnOACs, SyncedOACs, UpToDate, Protected
  <2>3. SuccessMeansConfigured
    BY DEF Init, Nothing, IsEmpty, SuccessMeansConfigured, Configured
  <2> QED
    BY <2>1, <2>2, <2>3 DEF SInv
<1>2. SInv /\ [Next]_vars => SInv'
  <2>1. SInv /\ [Next]_vars => GInv'
    BY TypeStep, CallStep, GoalStep DEF SInv, GInv, IInv
  <2> QED
    BY <2>1, OwnStep, SyncedStep, UpToDateStep, ProtectedStep, SuccessStep DEF SInv
<1>3. SInv => SuccessMeansConfigured
  BY DEF SInv
<1> QED
  BY <1>1, <1>2, <1>3, PTL DEF SafetySpec
=============================================================================
