-------------------------- MODULE AliasRepository --------------------------
(***************************************************************************)
(* Several controller deployments, each with the ownership value of its    *)
(* CDN class, and third parties, at work in one hosted zone.               *)
(*                                                                         *)
(* Upsert and Delete of internal/route53/repository.go make two List calls *)
(* for every entry, validate what they saw, and send one change batch at   *)
(* the end.  Nothing ties the batch to what was read: a batch is applied   *)
(* atomically, but to whatever the zone then holds.  Each call is a step.  *)
(***************************************************************************)
EXTENDS Route53

CONSTANTS
    Controllers,   \* deployments of the controller, one per CDN class
    OwnerOf,       \* OwnerOf[c]: the ownership TXT value of c's class
    TargetOf,      \* TargetOf[c]: the address of the distribution c manages
    IPv6,          \* IPv6[c]: the values of CF_ENABLE_IPV6 c is run with over time
    FailedUpdates, \* whether updates of distributions may fail
    AddressEdits,  \* whether third parties also write address records
    MaxEdits       \* bound: changes made by third parties

ASSUME ControllersAssumption ==
    /\ OwnerOf \in [Controllers -> OwnerValues]
    /\ TargetOf \in [Controllers -> Targets]
    /\ \A c, d \in Controllers : c # d => /\ OwnerOf[c] # OwnerOf[d]
                                          /\ TargetOf[c] # TargetOf[d]
    /\ IPv6 \in [Controllers -> SUBSET BOOLEAN]
    /\ FailedUpdates \in BOOLEAN
    /\ AddressEdits \in BOOLEAN
    /\ MaxEdits \in Nat

VARIABLES
    zone,   \* Route 53: the hosted zone
    call,   \* call[c]: the Upsert or Delete call c has in progress
    edits   \* changes made by third parties so far

vars == <<zone, call, edits>>

Operations == {"Upsert", "Delete"}

(* phase: what the call does next.  ipv6: whether its entries have type    *)
(* AAAA.  todo: entries not read yet.  first: what the first List call     *)
(* returned for "entry"; seen: what both returned for the entries already  *)
(* validated.                                                              *)
CallStates == [phase : {"idle", "list", "listTXT", "change"},
               op    : Operations,
               ipv6  : BOOLEAN,
               names : SUBSET Hosts,
               todo  : SUBSET Hosts,
               entry : Hosts \cup {None},
               first : RecordSets,
               seen  : [Hosts -> RecordSets]]

NothingSeen == [h \in Hosts |-> NoRecords]

NoCall == [phase |-> "idle", op |-> "Upsert", ipv6 |-> FALSE, names |-> {},
           todo |-> {}, entry |-> None, first |-> NoRecords, seen |-> NothingSeen]

(* The Aliases value the caller built with NewAliases. *)
Aliases(c) ==
    NewAliases(TargetOf[c], OwnerOf[c],
               {[host |-> h, dot |-> FALSE] : h \in call[c].names}, call[c].ipv6)

(* The type invariant. *)
TypeOK == /\ zone \in Zones
          /\ call \in [Controllers -> CallStates]
          /\ edits \in 0 .. MaxEdits

(* Third parties may already have records in the zone. *)
InitialRecords ==
    {NoRecords} \cup {[NoRecords EXCEPT !.txt = <<v>>] : v \in ForeignValues}
      \cup {[NoRecords EXCEPT !.addr["A"] = x] : x \in Targets \ {TargetOf[c] : c \in Controllers}}

Init == /\ zone \in [Hosts -> InitialRecords]
        /\ call = [c \in Controllers |-> NoCall]
        /\ edits = 0

-----------------------------------------------------------------------------
(* IPv6Enabled of the distribution that newAliases is given: as configured, *)
(* or FALSE when Create or Sync failed and returned the zero Distribution,  *)
(* which has no domains to upsert but may leave some to delete.             *)
IPv6Enabled(c, op) ==
    IPv6[c] \cup {b \in {FALSE} : FailedUpdates /\ op = "Delete"}

(* An empty Aliases returns at once; every other call reads an entry first. *)
Begin(c) ==
    /\ call[c].phase = "idle"
    /\ \E op \in Operations, ns \in (SUBSET Hosts) \ {{}} : \E ipv6 \in IPv6Enabled(c, op) :
          call' = [call EXCEPT ![c] = [NoCall EXCEPT !.phase = "list", !.op = op, !.ipv6 = ipv6,
                                                     !.names = ns, !.todo = ns]]
    /\ UNCHANGED <<zone, edits>>

(* aliasResourceRecordsByEntry: every record set of the name. *)
ListAddress(c) ==
    /\ call[c].phase = "list"
    /\ \E h \in call[c].todo :
          call' = [call EXCEPT ![c] = [call[c] EXCEPT !.phase = "listTXT", !.entry = h,
                                          !.todo = call[c].todo \ {h}, !.first = zone[h]]]
    /\ UNCHANGED <<zone, edits>>

(* filterRecordSets: the TXT record of the second answer is met last; when *)
(* that answer has none for the name, the one of the first answer stands.  *)
filterRecordSets(first, second) ==
    [first EXCEPT !.txt = IF second.txt # <<>> THEN second.txt ELSE first.txt]

existingRecordSetsOK(c, rs) ==
    /\ validateRecordSets(OwnerOf[c], Aliases(c).types, rs)
    /\ call[c].op = "Delete" => rs.txt # <<>>

(* txtResourceRecordSetByEntry and the validation: an entry that does not  *)
(* validate ends the call with an error and no change.                     *)
ListTXT(c) ==
    /\ call[c].phase = "listTXT"
    /\ LET h == call[c].entry
           rs == filterRecordSets(call[c].first, zone[h])
       IN  call' = [call EXCEPT ![c] =
                      IF existingRecordSetsOK(c, rs)
                        THEN [call[c] EXCEPT !.phase = IF call[c].todo = {} THEN "change"
                                                       ELSE "list",
                                             !.entry = None, !.first = NoRecords,
                                             !.seen = [call[c].seen EXCEPT ![h] = rs]]
                        ELSE NoCall]
    /\ UNCHANGED <<zone, edits>>

(* requestChanges: Route 53 applies the whole batch or refuses it. *)
ChangeUpsert(c) ==
    /\ call[c].phase = "change" /\ call[c].op = "Upsert"
    /\ zone' = IF UpsertAccepted(Aliases(c), zone)
                 THEN UpsertChanges(Aliases(c), call[c].seen, zone) ELSE zone
    /\ call' = [call EXCEPT ![c] = NoCall]
    /\ UNCHANGED edits

ChangeDelete(c) ==
    /\ call[c].phase = "change" /\ call[c].op = "Delete"
    /\ zone' = IF DeleteAccepted(Aliases(c), call[c].seen, zone)
                 THEN DeleteChanges(Aliases(c), call[c].seen, zone) ELSE zone
    /\ call' = [call EXCEPT ![c] = NoCall]
    /\ UNCHANGED edits

(* A List call or the batch fails, or the process dies: the call is gone. *)
Abort(c) ==
    /\ call[c].phase # "idle"
    /\ call' = [call EXCEPT ![c] = NoCall]
    /\ UNCHANGED <<zone, edits>>

-----------------------------------------------------------------------------
(* Third parties append a TXT value to what a name has, or remove it, and  *)
(* may create an address record where there is none.                       *)

ForeignTXT(h) ==
    /\ edits < MaxEdits
    /\ \E v \in ForeignValues :
          zone' = [zone EXCEPT ![h].txt =
                     IF \E k \in DOMAIN @ : @[k] = v
                       THEN removeOwnershipRecord(v, @) ELSE Append(@, v)]
    /\ edits' = edits + 1
    /\ UNCHANGED call

ForeignAddress(h) ==
    /\ AddressEdits /\ edits < MaxEdits
    /\ zone[h].addr["A"] = None
    /\ \E x \in Targets \ {TargetOf[c] : c \in Controllers} :
          zone' = [zone EXCEPT ![h].addr["A"] = x]
    /\ edits' = edits + 1
    /\ UNCHANGED call

Controller(c) == \/ Begin(c) \/ ListAddress(c) \/ ListTXT(c)
                 \/ ChangeUpsert(c) \/ ChangeDelete(c) \/ Abort(c)

Next == \/ \E c \in Controllers : Controller(c)
        \/ \E h \in Hosts : ForeignTXT(h) \/ ForeignAddress(h)

Spec == Init /\ [][Next]_vars

-----------------------------------------------------------------------------
(* Properties *)

SingleOwner(txt) ==
    \A j, k \in DOMAIN txt :
        (txt[j] \in OwnerValues /\ txt[k] \in OwnerValues) => j = k

(* However the calls of several controllers interleave, no name ever has   *)
(* two ownership values: those of two classes, each of which would refuse  *)
(* the other's name forever, or one twice, of which Delete removes one.    *)
OneOwner == \A h \in Hosts : SingleOwner(zone[h].txt)

HasOwner(rs, c) == \E k \in DOMAIN rs.txt : rs.txt[k] = OwnerOf[c]

(* However the calls interleave, the A record of a name points to a        *)
(* controller's distribution if and only if that controller's ownership    *)
(* value is beside it: a stale batch neither leaves an address its owner   *)
(* cannot manage nor a claim to a name that is served from elsewhere.      *)
AddressHasOwner ==
    \A h \in Hosts, c \in Controllers :
        zone[h].addr["A"] = TargetOf[c] <=> HasOwner(zone[h], c)

UnownedIPv6(h, c) == zone[h].addr["AAAA"] = TargetOf[c] /\ ~HasOwner(zone[h], c)

(* An AAAA record is left without its owner's value in two ways only.  A   *)
(* controller without IPv6 writes a batch over a name that was not yet the *)
(* owner's when it looked; or the owner deletes the name by an Aliases     *)
(* without AAAA entries: IPv6 was turned off, or an update has failed.     *)
IPv6LosesOwner ==
    [][\A h \in Hosts, c \in Controllers :
          (~UnownedIPv6(h, c) /\ UnownedIPv6(h, c)') =>
             \E d \in Controllers :
                /\ call[d].phase = "change" /\ h \in call[d].names /\ ~call[d].ipv6
                /\ IF d = c THEN call[d].op = "Delete" ELSE call[d].op = "Upsert"]_vars
=============================================================================
