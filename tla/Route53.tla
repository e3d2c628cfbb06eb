------------------------------ MODULE Route53 ------------------------------
(***************************************************************************)
(* The data side of internal/route53: aliases, the record sets a hosted    *)
(* zone holds, the validation the repository runs on what it has read, and *)
(* the change batches it sends.  Everything here is an operator; the       *)
(* processes that call it are in Service (one worker) and AliasRepository  *)
(* (several controllers and third parties sharing a zone).                 *)
(*                                                                         *)
(* A domain is [host, dot]: dot says whether the string ends in ".".  A    *)
(* zone maps every host to the record sets stored under its absolute name. *)
(* TXT values are kept in order, as ensureTXTValue and validateOwnership   *)
(* depend on it.                                                           *)
(***************************************************************************)
EXTENDS Naturals, Sequences

CONSTANTS
    Hosts,          \* host names, without the trailing dot
    Targets,        \* addresses of CloudFront distributions (and foreign ones)
    OwnerValues,    \* TXT values that contain txtOwnerKey, one per CDN class
    ForeignValues,  \* TXT values written by anybody else
    None            \* "no value": the empty string or a nil pointer

ASSUME NoneNotTarget == None \notin Targets
ASSUME ForeignNotOwner == OwnerValues \cap ForeignValues = {}

Domains == [host : Hosts, dot : BOOLEAN]
TXTValues == OwnerValues \cup ForeignValues
RRTypes == {"A", "AAAA"}

(* What a zone stores under one name.  "policy" is the set of record types *)
(* whose record set has a weighted, geo-location or IP-based routing policy. *)
RecordSets == [addr   : [RRTypes -> Targets \cup {None}],
               txt    : Seq(TXTValues),
               policy : SUBSET (RRTypes \cup {"TXT"})]

Zones == [Hosts -> RecordSets]

NoRecords == [addr |-> [t \in RRTypes |-> None], txt |-> <<>>, policy |-> {}]

-----------------------------------------------------------------------------
(* alias.go *)

normalizeDomain(d) == [d EXCEPT !.dot = TRUE]

NormalizeDomains(ds) == {normalizeDomain(d) : d \in ds}

(* Every entry of an Aliases has the same types, so they are kept once. *)
NewAliases(target, owner, ds, ipv6) ==
    [target  |-> target,
     owner   |-> owner,
     types   |-> IF ipv6 THEN {"A", "AAAA"} ELSE {"A"},
     entries |-> NormalizeDomains(ds)]

Names(aliases) == {e.host : e \in aliases.entries}

-----------------------------------------------------------------------------
(* repository.go: validation of the record sets found for an entry *)

containsOwnershipRecord(txt) == \E k \in DOMAIN txt : txt[k] \in OwnerValues

(* Mutant of validateOwnership: any class's ownership value will do. *)
validateOwnershipAny(owner, txt) == TRUE

(* The first ownership value met decides: this class's, or another's. *)
validateOwnership(owner, txt) ==
    \A k \in DOMAIN txt :
        (txt[k] \in OwnerValues /\ txt[k] # owner) =>
            \E j \in 1 .. k - 1 : txt[j] = owner

validateRoutingPolicies(types, rs) == rs.policy \cap (types \cup {"TXT"}) = {}

validateRecordSets(owner, types, rs) ==
    /\ validateRoutingPolicies(types, rs)
    /\ IF containsOwnershipRecord(rs.txt)
         THEN validateOwnership(owner, rs.txt)
         ELSE \A t \in types : rs.addr[t] = None

-----------------------------------------------------------------------------
(* repository.go: the changes of one entry, computed from what was seen.   *)
(* A change has an effect on the stored record sets and, for a DELETE, a   *)
(* condition: Route 53 rejects the whole batch unless the record named     *)
(* exists exactly as given.                                                *)

(* Mutant of ensureTXTValue: the ownership value is not added. *)
ensureTXTValueSkipped(owner, txt) == txt

ensureTXTValue(owner, txt) ==
    IF \E k \in DOMAIN txt : txt[k] = owner THEN txt ELSE Append(txt, owner)

(* Mutant of removeOwnershipRecord: the value is blanked, not dropped. *)
blankOwnershipRecord(owner, txt) ==
    [k \in DOMAIN txt |-> IF txt[k] = owner THEN None ELSE txt[k]]

(* Drops the first TXT value that is this owner's. *)
removeOwnershipRecord(owner, txt) ==
    IF \E k \in DOMAIN txt : txt[k] = owner
      THEN [j \in 1 .. Len(txt) - 1 |->
              IF \E k \in 1 .. j : txt[k] = owner THEN txt[j + 1] ELSE txt[j]]
      ELSE txt

(* Delete takes the target from the first address record it saw.  When it  *)
(* saw none, the code falls back on the target of the previous entry or of *)
(* the aliases; either way there is no record for the DELETE to match.     *)
(* Address records are aliases here: one that is not has no AliasTarget,   *)
(* and the call ends in a panic, as in Abort of AliasRepository.           *)
deletionTarget(aliases, seen) ==
    IF seen.addr["A"] # None THEN seen.addr["A"]
    ELSE IF "AAAA" \in aliases.types /\ seen.addr["AAAA"] # None
         THEN seen.addr["AAAA"]
         ELSE aliases.target

upsertEntry(aliases, seen, rs) ==
    [rs EXCEPT !.addr = [t \in RRTypes |-> IF t \in aliases.types
                                             THEN aliases.target ELSE rs.addr[t]],
               !.txt = ensureTXTValue(aliases.owner, seen.txt)]

(* Mutant of deleteEntry: only the A record is deleted. *)
deleteEntryA(aliases, seen, rs) ==
    [rs EXCEPT !.addr["A"] = None,
               !.txt = removeOwnershipRecord(aliases.owner, seen.txt)]

deleteEntry(aliases, seen, rs) ==
    [rs EXCEPT !.addr = [t \in RRTypes |-> IF t \in aliases.types
                                             THEN None ELSE rs.addr[t]],
               !.txt = removeOwnershipRecord(aliases.owner, seen.txt)]

(* An UPSERT of a simple record is refused next to routed ones. *)
upsertAccepted(aliases, rs) == validateRoutingPolicies(aliases.types, rs)

deleteAccepted(aliases, seen, rs) ==
    /\ validateRoutingPolicies(aliases.types, rs)
    /\ \A t \in aliases.types : /\ rs.addr[t] # None
                                /\ rs.addr[t] = deletionTarget(aliases, seen)
    /\ removeOwnershipRecord(aliases.owner, seen.txt) = <<>> => rs.txt = seen.txt

-----------------------------------------------------------------------------
(* The two operations of AliasRepository on a whole zone.  "seen" is the   *)
(* zone as the preceding List calls returned it.                           *)

UpsertValid(aliases, seen) ==
    \A h \in Names(aliases) :
        validateRecordSets(aliases.owner, aliases.types, seen[h])

DeleteValid(aliases, seen) ==
    \A h \in Names(aliases) :
        /\ validateRecordSets(aliases.owner, aliases.types, seen[h])
        /\ seen[h].txt # <<>>

UpsertAccepted(aliases, zone) ==
    \A h \in Names(aliases) : upsertAccepted(aliases, zone[h])

DeleteAccepted(aliases, seen, zone) ==
    \A h \in Names(aliases) : deleteAccepted(aliases, seen[h], zone[h])

UpsertChanges(aliases, seen, zone) ==
    [h \in Hosts |-> IF h \in Names(aliases)
                       THEN upsertEntry(aliases, seen[h], zone[h]) ELSE zone[h]]

DeleteChanges(aliases, seen, zone) ==
    [h \in Hosts |-> IF h \in Names(aliases)
                       THEN deleteEntry(aliases, seen[h], zone[h]) ELSE zone[h]]
=============================================================================
