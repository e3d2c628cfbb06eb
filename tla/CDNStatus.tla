----------------------------- MODULE CDNStatus -----------------------------
(***************************************************************************)
(* The methods of the CDNStatus resource (api/v1alpha1).  A status keeps   *)
(* the identity of the group's distribution, one reference per Ingress,    *)
(* the aliases of the distribution and, when there are any, the DNS        *)
(* records the controller believes it has created.                         *)
(***************************************************************************)
CONSTANTS
    RefNames,   \* namespaced names of Ingresses
    RefDomains, \* domains, as kept in Aliases and in DNS.Records
    RefIds,     \* distribution IDs (each fixes an ARN and an address)
    NoValue     \* the empty string, or a nil pointer

RefStates == {"Absent", "Synced", "Failed"}

DNSStatuses == [records : SUBSET RefDomains, synced : BOOLEAN]

Statuses == [id      : RefIds \cup {NoValue},
             refs    : [RefNames -> RefStates],
             aliases : SUBSET RefDomains,
             dns     : DNSStatuses \cup {NoValue}]

EmptyStatus == [id |-> NoValue, refs |-> [r \in RefNames |-> "Absent"],
                aliases |-> {}, dns |-> NoValue]

SetAliases(st, ds) == [st EXCEPT !.aliases = ds]

SetInfo(st, id) == [st EXCEPT !.id = id]

(* Mutant of SetIngressRef: success leaves the reference blank. *)
SetIngressRefBlank(st, inSync, r) ==
    [st EXCEPT !.refs[r] = IF inSync THEN "" ELSE "Failed"]

SetIngressRef(st, inSync, r) ==
    [st EXCEPT !.refs[r] = IF inSync THEN "Synced" ELSE "Failed"]

RemoveIngressRef(st, r) == [st EXCEPT !.refs[r] = "Absent"]

UpsertDNSRecords(st, rs) ==
    IF rs = {} THEN st
    ELSE [st EXCEPT !.dns = IF st.dns = NoValue
                              THEN [records |-> rs, synced |-> TRUE]
                              ELSE [st.dns EXCEPT !.records = @ \cup rs]]

RemoveDNSRecords(st, rs) ==
    IF st.dns = NoValue THEN st
    ELSE [st EXCEPT !.dns = IF st.dns.records \subseteq rs THEN NoValue
                            ELSE [st.dns EXCEPT !.records = @ \ rs]]

(* Despite its comment, SetDNSSync creates the DNS section when missing. *)
SetDNSSync(st, synced) ==
    [st EXCEPT !.dns = IF st.dns = NoValue
                         THEN [records |-> {}, synced |-> synced]
                         ELSE [st.dns EXCEPT !.synced = synced]]
=============================================================================
