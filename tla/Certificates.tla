---------------------------- MODULE Certificates ----------------------------
(***************************************************************************)
(* Discovery of a TLS certificate, internal/certificate: ACM lists the     *)
(* issued certificates page by page, each is described and matched against *)
(* the alternate domains of the distribution, the first match is taken.    *)
(*                                                                         *)
(* A domain name is the sequence of its labels, a certificate the set of   *)
(* its names, and a listing a sequence of pages of certificates.           *)
(***************************************************************************)
EXTENDS Naturals, Sequences, SequencesExt

(* What the comparison does with a name of the certificate: "*." goes. *)
WithoutWildcard(name) == IF Len(name) > 1 /\ name[1] = "*" THEN Tail(name) ELSE name

certMatches(distHost, c) ==
    \E certHost \in c : distHost = certHost \/ WithoutWildcard(certHost) = Tail(distHost)

(* Mutant of matchingDomainFilter: one matching domain will do. *)
matchingAnyFilter(hosts, c) == \E host \in hosts : certMatches(host, c)

matchingDomainFilter(hosts, c) == \A host \in hosts : certMatches(host, c)

(* ListCertificatesPages calls back with every page until the callback     *)
(* returns FALSE.  This one returns lastPage, so the first page is seen    *)
(* and, if it is not the last, no other.                                   *)
PagesSeen(listing) == SubSeq(listing, 1, 1)

(* The places of the certificates kept.  A failing List or Describe fails  *)
(* the discovery, and the reconciliation is repeated.                      *)
FindByFilter(hosts, certs) == {k \in DOMAIN certs : matchingDomainFilter(hosts, certs[k])}

(* DiscoverByHost: the first one found, or ErrNoMatchingCert. *)
DiscoverByHost(hosts, listing, ErrNoMatchingCert) ==
    LET certs == FlattenSeq(PagesSeen(listing))
        found == FindByFilter(hosts, certs)
    IN  IF found = {} THEN ErrNoMatchingCert ELSE certs[Min(found)]
=============================================================================
