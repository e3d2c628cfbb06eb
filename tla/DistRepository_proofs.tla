----------------------- MODULE DistRepository_proofs -----------------------
(***************************************************************************)
(* Proofs about DistRepository: type correctness, and that no request of   *)
(* the repository ever changes the settings it does not manage.            *)
(***************************************************************************)
EXTENDS DistRepository, TLAPS

(* The record types, as the provers need them. *)
LEMMA NothingType == Nothing \in Desired
  BY NoneAssumption DEF Nothing, Desired, Kinds

LEMMA NoCallType == NoCall \in Calls
  BY NothingType DEF NoCall, Calls, PCs

(* newAWSDistributionConfig builds a configuration out of a Distribution,  *)
(* the OACs synced for it and the settings that are kept.                  *)
LEMMA ConfigType ==
  ASSUME NEW d \in Desired, NEW ids \in [Origins -> OACIds \cup {None}],
         NEW extras \in Extras
  PROVE  /\ newAWSDistributionConfig(d, ids, extras) \in Configs
         /\ newAWSDistributionConfig(d, ids, extras).extras = extras
  BY NoneAssumption DEF newAWSDistributionConfig, Configs, Desired, Kinds

LEMMA OutcomesType ==
  ASSUME NEW o \in Outcomes, TypeOK, Charge(o)
  PROVE  o.ok \in BOOLEAN /\ o.applied \in BOOLEAN /\ faults' \in 0 .. MaxFaults
<1>1. o.ok \in BOOLEAN /\ o.applied \in BOOLEAN
  <2>1. CASE o = [applied |-> TRUE, ok |-> TRUE]
    BY <2>1
  <2>2. CASE \E a \in BOOLEAN : o = [applied |-> a, ok |-> FALSE]
    BY <2>2
  <2> QED
    BY <2>1, <2>2 DEF Outcomes
<1>2. ~o.ok => faults < MaxFaults
  <2>1. CASE faults < MaxFaults
    BY <2>1
  <2>2. CASE ~(faults < MaxFaults)
    <3>1. o = [applied |-> TRUE, ok |-> TRUE]
      BY <2>2 DEF Outcomes
    <3> QED
      BY <3>1
  <2> QED
    BY <2>1, <2>2
<1> QED
  BY <1>1, <1>2, BoundsAssumption DEF TypeOK, Charge

(* What a call knows by the time it changes something: an update or a      *)
(* disabling has read a configuration, and Create is only under way while  *)
(* there is no distribution.                                               *)
ConfigRead == call.pc \in {"syncOACs", "disable"} => call.read # None
CreatesWhatIsMissing == call.pc = "create" => cf = None

(* The inductive invariant: types alone are not inductive, as an update    *)
(* copies the extras of the configuration the call has read.               *)
IInv == TypeOK /\ ConfigRead /\ CreatesWhatIsMissing

LEMMA TypeInit == Init => TypeOK
<1> SUFFICES ASSUME Init PROVE TypeOK
  OBVIOUS
<1>1. want \in Desired /\ call \in Calls
  BY NothingType, NoCallType DEF Init
<1>2. oacs \in [OACIds -> Origins \cup {None}]
  BY DEF Init
<1>3. dirty \in BOOLEAN /\ deployed \in BOOLEAN /\ cf \in Configs \cup {None}
  BY DEF Init
<1>4. changes \in 0 .. MaxChanges /\ console \in 0 .. MaxConsole /\ faults \in 0 .. MaxFaults
  BY BoundsAssumption DEF Init
<1> QED
  BY <1>1, <1>2, <1>3, <1>4 DEF TypeOK

LEMMA TypeStep == IInv /\ [Next]_vars => TypeOK'
<1> SUFFICES ASSUME TypeOK, ConfigRead, [Next]_vars PROVE TypeOK'
  BY DEF IInv
<1>1. CASE ChangeDesired
  BY <1>1, BoundsAssumption DEF ChangeDesired, TypeOK
<1>2. CASE Console
  <2>1. cf' \in Configs \cup {None} /\ deployed' \in BOOLEAN
    BY <1>2 DEF Console, TypeOK, Configs
  <2>2. console' \in 0 .. MaxConsole
    <3>1. console < MaxConsole /\ console' = console + 1
      BY <1>2 DEF Console
    <3> QED
      BY <3>1, BoundsAssumption DEF TypeOK
  <2> QED
    BY <1>2, <2>1, <2>2 DEF Console, consoleLeaves, TypeOK
<1>3. CASE Deploy
  BY <1>3 DEF Deploy, consoleLeaves, TypeOK
<1>4. CASE Prepare
  <2>1. call' \in Calls
    BY <1>4, NoCallType DEF Prepare, TypeOK, Calls, PCs, Desired, Configs
  <2> QED
    BY <1>4, <2>1 DEF Prepare, callLeaves, TypeOK
<1>5. CASE Create
  <2> PICK o \in Outcomes : Create!2!(o)
    BY <1>5 DEF Create
  <2>1. cf' \in Configs \cup {None} /\ deployed' \in BOOLEAN
    <3>1. newAWSDistributionConfig(call.d, NoCall.ids, DefaultExtras) \in Configs
      BY ConfigType, NoCallType, ExtrasAssumption DEF TypeOK, Calls
    <3> QED
      BY <3>1 DEF TypeOK
  <2>2. call' \in Calls /\ dirty' \in BOOLEAN
    BY NoCallType DEF TypeOK, Calls, PCs, Fail, Continue
  <2> QED
    BY <1>5, <2>1, <2>2, OutcomesType DEF Create, callLeaves, TypeOK
<1>6. CASE ReadConfig
  <2> PICK o \in Outcomes : ReadConfig!2!(o)
    BY <1>6 DEF ReadConfig
  <2>1. call' \in Calls /\ dirty' \in BOOLEAN
    <3>1. \A os : OACsOf(cf, os) \subseteq OACIds
      BY DEF OACsOf
    <3>2. ASSUME cf # None, NEW todo \in SUBSET Origins, NEW drop \in SUBSET OACIds
          PROVE  [call EXCEPT !.pc = "syncOACs", !.read = cf, !.todo = todo, !.drop = drop] \in Calls
      BY <3>2 DEF TypeOK, Calls, PCs
    <3>3. {x \in Origins : call.d.kinds[x] = "bucket"} \in SUBSET Origins
      OBVIOUS
    <3> QED
      BY <3>1, <3>2, <3>3, NoCallType DEF TypeOK, Fail, Continue
  <2> QED
    BY <1>6, <2>1, OutcomesType DEF ReadConfig, callLeaves, TypeOK
<1>7. CASE SyncOAC
  <2> PICK x \in call.todo, o \in Outcomes : SyncOAC!2!(x, o)
    BY <1>7 DEF SyncOAC
  <2>0. x \in Origins
    BY DEF TypeOK, Calls
  <2> PICK y \in OACIds : /\ Charge(o)
                          /\ oacs' = IF o.applied THEN [oacs EXCEPT ![y] = x] ELSE oacs
                          /\ IF o.ok THEN Continue([call EXCEPT !.todo = @ \ {x}, !.ids[x] = y])
                             ELSE Fail
    OBVIOUS
  <2>1. oacs' \in [OACIds -> Origins \cup {None}]
    BY <2>0 DEF TypeOK
  <2>2. call' \in Calls /\ dirty' \in BOOLEAN
    <3>1. [call EXCEPT !.todo = @ \ {x}, !.ids[x] = y] \in Calls
      BY <2>0 DEF TypeOK, Calls
    <3> QED
      BY <3>1, NoCallType DEF TypeOK, Fail, Continue
  <2> QED
    BY <1>7, <2>1, <2>2, OutcomesType DEF SyncOAC, callLeaves, TypeOK
<1>8. CASE UpdateConfig
  <2> PICK o \in Outcomes : UpdateConfig!2!1!(o)
    BY <1>8 DEF UpdateConfig
  <2>1. cf' \in Configs \cup {None} /\ deployed' \in BOOLEAN
    <3>1. CASE o.applied /\ IfMatch(call.read)
      <4>1. call.read = cf
        BY <3>1 DEF IfMatch
      <4>2. call.d \in Desired /\ call.ids \in [Origins -> OACIds \cup {None}]
        BY DEF TypeOK, Calls
      <4>3. call.read # None
        BY <1>8 DEF UpdateConfig, ConfigRead
      <4>4. newAWSDistributionConfig(call.d, call.ids, call.read.extras) \in Configs
        BY <4>1, <4>2, <4>3, ConfigType DEF TypeOK, Configs
      <4> QED
        BY <3>1, <4>4
    <3> QED
      BY <3>1 DEF TypeOK
  <2>2. call' \in Calls /\ dirty' \in BOOLEAN
    BY NoCallType DEF TypeOK, Calls, PCs, Fail, Continue
  <2> QED
    BY <1>8, <2>1, <2>2, OutcomesType DEF UpdateConfig, callLeaves, TypeOK
<1>9. CASE DeleteOAC
  <2> PICK y \in call.drop, o \in Outcomes : DeleteOAC!2!(y, o)
    BY <1>9 DEF DeleteOAC
  <2>1. oacs' \in [OACIds -> Origins \cup {None}]
    BY DEF TypeOK
  <2>2. call' \in Calls /\ dirty' \in BOOLEAN
    <3>1. [call EXCEPT !.drop = @ \ {y}] \in Calls
      BY DEF TypeOK, Calls
    <3> QED
      BY <3>1, NoCallType DEF TypeOK, Fail, Continue
  <2> QED
    BY <1>9, <2>1, <2>2, OutcomesType DEF DeleteOAC, callLeaves, TypeOK
<1>10. CASE FinishOACs
  <2> PICK o \in Outcomes : FinishOACs!2!(o)
    BY <1>10 DEF FinishOACs
  <2>1. call' \in Calls /\ dirty' \in BOOLEAN
    BY NoCallType DEF TypeOK, Return, Fail
  <2> QED
    BY <1>10, <2>1, OutcomesType DEF FinishOACs, callLeaves, TypeOK
<1>11. CASE ReadForDelete
  <2> PICK o \in Outcomes : ReadForDelete!2!(o)
    BY <1>11 DEF ReadForDelete
  <2>1. call' \in Calls /\ dirty' \in BOOLEAN
    <3>1. OACsOf(cf, Origins) \subseteq OACIds
      BY DEF OACsOf
    <3>2. ASSUME cf # None, NEW pc \in PCs, NEW drop \in SUBSET OACIds
          PROVE  [call EXCEPT !.pc = pc, !.read = cf, !.drop = drop] \in Calls
      BY <3>2 DEF TypeOK, Calls
    <3> QED
      BY <3>1, <3>2, NoCallType DEF TypeOK, Return, Fail, Continue, PCs
  <2> QED
    BY <1>11, <2>1, OutcomesType DEF ReadForDelete, callLeaves, TypeOK
<1>12. CASE disableDist
  <2> PICK o \in Outcomes : disableDist!2!1!(o)
    BY <1>12 DEF disableDist
  <2>1. cf' \in Configs \cup {None} /\ deployed' \in BOOLEAN
    <3>1. CASE o.applied /\ IfMatch(call.read)
      <4>1. cf \in Configs
        BY <1>12, <3>1 DEF disableDist, IfMatch, ConfigRead, TypeOK
      <4> QED
        BY <3>1, <4>1 DEF Configs
    <3> QED
      BY <3>1 DEF TypeOK
  <2>2. call' \in Calls /\ dirty' \in BOOLEAN
    <3>1. [call EXCEPT !.pc = "wait"] \in Calls
      BY DEF TypeOK, Calls, PCs
    <3> QED
      BY <3>1, NoCallType DEF TypeOK, Return, Fail, Continue
  <2> QED
    BY <1>12, <2>1, <2>2, OutcomesType DEF disableDist, callLeaves, TypeOK
<1>13. CASE waitUntilDeployed
  <2>1. [call EXCEPT !.pc = "remove", !.etag = cf] \in Calls
    BY DEF TypeOK, Calls, PCs
  <2> QED
    BY <1>13, <2>1, NoCallType DEF waitUntilDeployed, callLeaves, TypeOK, Return, Continue
<1>14. CASE WaitTimeout
  BY <1>14, NoCallType DEF WaitTimeout, callLeaves, TypeOK, Fail
<1>15. CASE Remove
  <2> PICK o \in Outcomes : Remove!2!1!(o)
    BY <1>15 DEF Remove
  <2>1. call' \in Calls /\ dirty' \in BOOLEAN
    <3>1. [call EXCEPT !.pc = "deleteOACs"] \in Calls
      BY DEF TypeOK, Calls, PCs
    <3> QED
      BY <3>1, NoCallType DEF TypeOK, Fail, Continue
  <2> QED
    BY <1>15, <2>1, OutcomesType DEF Remove, callLeaves, TypeOK
<1>16. CASE UNCHANGED vars
  BY <1>16 DEF vars, TypeOK
<1> QED
  BY <1>1, <1>2, <1>3, <1>4, <1>5, <1>6, <1>7, <1>8, <1>9, <1>10, <1>11, <1>12,
     <1>13, <1>14, <1>15, <1>16 DEF Next, Repository

(* The two facts about the call in progress are kept by every step. *)
LEMMA CallStep == IInv /\ [Next]_vars => ConfigRead' /\ CreatesWhatIsMissing'
<1> SUFFICES ASSUME TypeOK, ConfigRead, CreatesWhatIsMissing, [Next]_vars
             PROVE  ConfigRead' /\ CreatesWhatIsMissing'
  BY DEF IInv
<1> USE DEF ConfigRead, CreatesWhatIsMissing
<1>0. NoCall.pc = "idle"
  BY DEF NoCall
<1>1. CASE ChangeDesired
  BY <1>1 DEF ChangeDesired
<1>2. CASE Console
  BY <1>2 DEF Console, consoleLeaves
<1>3. CASE Deploy
  BY <1>3 DEF Deploy, consoleLeaves
<1>4. CASE Prepare
  <2>1. call'.pc \in {"idle", "delete", "sync"} \/ (call'.pc = "create" /\ cf = None)
    BY <1>4, <1>0, NoCallType DEF Prepare, Calls
  <2> QED
    BY <1>4, <2>1 DEF Prepare
<1>5. CASE Create
  <2>1. call'.pc \in {"idle", "sync"}
    BY <1>5, <1>0 DEF Create, Continue, Fail, TypeOK, Calls
  <2> QED
    BY <2>1
<1>6. CASE ReadConfig
  <2>1. call' = NoCall \/ (call'.pc = "syncOACs" /\ call'.read = cf /\ cf # None)
    BY <1>6 DEF ReadConfig, Continue, Fail, TypeOK, Calls
  <2> QED
    BY <1>0, <1>6, <2>1 DEF ReadConfig
<1>7. CASE SyncOAC
  <2>1. call' = NoCall \/ (call'.pc = "syncOACs" /\ call'.read = call.read)
    BY <1>7 DEF SyncOAC, Continue, Fail, TypeOK, Calls
  <2> QED
    BY <1>0, <1>7, <2>1 DEF SyncOAC
<1>8. CASE UpdateConfig
  <2>1. call'.pc \in {"idle", "deleteOACs"}
    BY <1>8, <1>0 DEF UpdateConfig, Continue, Fail, TypeOK, Calls
  <2> QED
    BY <2>1
<1>9. CASE DeleteOAC
  <2>1. call'.pc \in {"idle", "deleteOACs"}
    BY <1>9, <1>0 DEF DeleteOAC, Continue, Fail, TypeOK, Calls
  <2> QED
    BY <2>1
<1>10. CASE FinishOACs
  <2>1. call'.pc = "idle"
    BY <1>10, <1>0 DEF FinishOACs, Return, Fail
  <2> QED
    BY <2>1
<1>11. CASE ReadForDelete
  <2>1. \/ call' = NoCall
        \/ call'.pc \in {"disable", "wait"} /\ call'.read = cf /\ cf # None
    BY <1>11 DEF ReadForDelete, Return, Continue, Fail, TypeOK, Calls
  <2> QED
    BY <1>0, <2>1
<1>12. CASE disableDist
  <2>1. call'.pc \in {"idle", "wait"}
    BY <1>12, <1>0 DEF disableDist, Return, Continue, Fail, TypeOK, Calls
  <2> QED
    BY <2>1
<1>13. CASE waitUntilDeployed
  <2>1. call'.pc \in {"idle", "remove"}
    BY <1>13, <1>0 DEF waitUntilDeployed, Return, Continue, TypeOK, Calls
  <2> QED
    BY <2>1
<1>14. CASE WaitTimeout
  BY <1>14, <1>0 DEF WaitTimeout, Fail
<1>15. CASE Remove
  <2>1. call'.pc \in {"idle", "deleteOACs"}
    BY <1>15, <1>0 DEF Remove, Continue, Fail, TypeOK, Calls
  <2> QED
    BY <2>1
<1>16. CASE UNCHANGED vars
  BY <1>16 DEF vars
<1> QED
  BY <1>1, <1>2, <1>3, <1>4, <1>5, <1>6, <1>7, <1>8, <1>9, <1>10, <1>11, <1>12,
     <1>13, <1>14, <1>15, <1>16 DEF Next, Repository

(* The inductive invariant holds of every behaviour of the repository. *)
THEOREM Invariance == SafetySpec => []IInv
<1>1. Init => IInv
  BY TypeInit DEF IInv, Init, NoCall, ConfigRead, CreatesWhatIsMissing
<1>2. IInv /\ [Next]_vars => IInv'
  BY TypeStep, CallStep DEF IInv
<1> QED
  BY <1>1, <1>2, PTL DEF SafetySpec

(* Type correctness: whatever fails and whatever is edited in the console, *)
(* the repository only ever writes complete configurations.                *)
THEOREM TypeCorrect == SafetySpec => []TypeOK
<1>1. IInv => TypeOK
  BY DEF IInv
<1> QED
  BY <1>1, Invariance, PTL

(* One step of the repository leaves the extras of an existing             *)
(* distribution alone.                                                     *)
LEMMA ExtrasStep ==
  ASSUME IInv, [Next]_vars, cf # None, cf' # None, console' = console
  PROVE  cf'.extras = cf.extras
<1> USE DEF IInv
<1>1. CASE Console
  <2>1. console' = console + 1
    BY <1>1 DEF Console
  <2>2. console \in Nat
    BY BoundsAssumption DEF TypeOK
  <2> QED
    BY <2>1, <2>2
<1>2. CASE Create
  BY <1>2 DEF Create, CreatesWhatIsMissing
<1>3. CASE UpdateConfig
  <2> PICK o \in Outcomes : UpdateConfig!2!1!(o)
    BY <1>3 DEF UpdateConfig
  <2>1. CASE o.applied /\ IfMatch(call.read)
    <3>1. call.read = cf
      BY <2>1 DEF IfMatch
    <3> QED
      BY <2>1, <3>1 DEF newAWSDistributionConfig
  <2> QED
    BY <2>1
<1>4. CASE disableDist
  <2> PICK o \in Outcomes : disableDist!2!1!(o)
    BY <1>4 DEF disableDist
  <2>1. cf \in Configs
    BY DEF TypeOK
  <2> QED
    BY <2>1 DEF Configs
<1>5. CASE Remove
  BY <1>5 DEF Remove
<1>6. CASE cf' = cf
  BY <1>6
<1> QED
  BY <1>1, <1>2, <1>3, <1>4, <1>5, <1>6
     DEF Next, Repository, vars, ChangeDesired, Deploy, Prepare, ReadConfig, SyncOAC, DeleteOAC,
         FinishOACs, ReadForDelete, waitUntilDeployed, WaitTimeout

(* Settings the controller does not manage survive every request, however  *)
(* console edits, failures and retries fall between a Sync's or a Delete's *)
(* requests, for any number of origins, OACs and WebACLs.                  *)
THEOREM ExtrasArePreserved == SafetySpec => ExtrasPreserved
<1>1. IInv /\ [Next]_vars
        => [(cf # None /\ cf' # None /\ console' = console) => cf'.extras = cf.extras]_vars
  BY ExtrasStep
<1> QED
  BY <1>1, Invariance, PTL DEF SafetySpec, ExtrasPreserved
=============================================================================
