----------------------------- MODULE OcspResponse -----------------------------
(***************************************************************************)
(* What one OCSP response is worth (src/ocsp.rs): who may have signed it,  *)
(* which certificate it is about and when it is fresh.  StapledOcsp uses   *)
(* it for the responses stapled to a message, ValidationProxy for those    *)
(* that it fetches.                                                        *)
(*                                                                         *)
(* Abstractions.  A hash of a name or key is that name or key.  A          *)
(* signature is the key that made it.  Time is counted in days; a date     *)
(* that cannot be parsed is None.                                          *)
(***************************************************************************)
EXTENDS Integers, Sequences

CONSTANTS
  None,
  Absent,    \* no nextUpdate
  Subject,   \* distinguished names
  Key,       \* public keys, and the key identifiers derived from them
  Serial,
  Time,
  MaxAge     \* MAX_AGE_WITHOUT_NEXT_UPDATE_DAYS

Status == {"Good", "Revoked", "Unknown"}

ASSUME ConstantsAssumption ==
  /\ Time \subseteq Int /\ MaxAge \in Nat
  /\ None \notin Time /\ None \notin Key /\ None \notin Status
  /\ Absent \notin Time /\ Absent # None

Certificate ==
  [subject      : Subject,
   issuer       : Subject,
   serial       : Serial,
   key          : Key,
   keyParses    : BOOLEAN,
   ski          : Key \union {None},      \* subject and authority key id
   aki          : Key \union {None},
   notBefore    : Time \union {None},
   notAfter     : Time \union {None},
   signedBy     : Key,
   algPermitted : BOOLEAN,                \* of that signature
   ocspSigning  : BOOLEAN,                \* extended key usage
   noCheck      : BOOLEAN]

CertID == [hashKnown : BOOLEAN, issuerName : Subject, issuerKey : Key, serial : Serial]

Single ==
  [certId     : CertID,
   status     : Status,
   thisUpdate : Time \union {None},
   nextUpdate : Time \union {None, Absent}]

Staple ==
  [responderId  : [by : {"name"}, id : Subject] \union [by : {"key"}, id : Key],
   algPermitted : BOOLEAN,
   signedBy     : Key,
   certs        : Seq(Certificate),
   singles      : Seq(Single)]

-----------------------------------------------------------------------------
ValidAt(c, t) ==
  /\ c.notBefore # None /\ c.notAfter # None
  /\ c.notBefore <= t /\ t <= c.notAfter

(* single_response_fresh *)
Fresh(single, t, responder) ==
  /\ single.thisUpdate # None /\ single.thisUpdate <= t
  /\ single.nextUpdate # None
  /\ IF single.nextUpdate = Absent THEN t <= single.thisUpdate + MaxAge
                                     ELSE t <= single.nextUpdate
  /\ responder.notBefore <= t /\ t <= responder.notAfter

MatchesResponderId(staple, c) ==
  IF staple.responderId.by = "name" THEN staple.responderId.id = c.subject
                                    ELSE staple.responderId.id = c.key

(* check_aki_matches_issuer *)
AkiMatches(child, issuer) ==
  \/ child.aki = None
  \/ child.aki = IF issuer.ski = None THEN issuer.key ELSE issuer.ski

IssuerSigned(staple, issuer, t) ==
  /\ MatchesResponderId(staple, issuer)
  /\ ValidAt(issuer, t)
  /\ staple.signedBy = issuer.key

(* Mutant: any certificate the issuer signed may answer for it.            *)
AnyChildSigned(staple, c, issuer, t) ==
  /\ MatchesResponderId(staple, c)
  /\ c.issuer = issuer.subject /\ AkiMatches(c, issuer)
  /\ c.algPermitted /\ c.signedBy = issuer.key
  /\ ValidAt(c, t)
  /\ c.keyParses /\ staple.signedBy = c.key

(* A certificate in the response that the issuer authorized to sign it.    *)
ResponderSigned(staple, c, issuer, t) ==
  /\ MatchesResponderId(staple, c)
  /\ c.issuer = issuer.subject /\ AkiMatches(c, issuer)
  /\ c.algPermitted /\ c.signedBy = issuer.key
  /\ c.ocspSigning /\ c.noCheck
  /\ ValidAt(c, t)
  /\ c.keyParses /\ staple.signedBy = c.key

(* verify_ocsp_signature: the certificate whose key signed the response,   *)
(* the first responder in the response that is in order, or None.          *)
SignerOf(staple, issuer, t) ==
  IF ~staple.algPermitted \/ ~issuer.keyParses THEN None
  ELSE IF IssuerSigned(staple, issuer, t) THEN issuer
  ELSE LET able == {k \in DOMAIN staple.certs :
                      ResponderSigned(staple, staple.certs[k], issuer, t)}
       IN IF able = {} THEN None
          ELSE staple.certs[CHOOSE k \in able : \A l \in able : k <= l]

CertIdMatches(id, leaf, issuer) ==
  /\ id.hashKnown
  /\ id.issuerName = leaf.issuer /\ id.issuerKey = issuer.key
  /\ id.serial = leaf.serial

(* The first single response about the leaf, as a set of at most one.      *)
FirstSingle(staple, leaf, issuer) ==
  {k \in DOMAIN staple.singles :
     /\ CertIdMatches(staple.singles[k].certId, leaf, issuer)
     /\ \A l \in DOMAIN staple.singles :
          CertIdMatches(staple.singles[l].certId, leaf, issuer) => k <= l}

(* What one staple says of the leaf: a status, or None if it is ignored.   *)
StapleStatus(staple, leaf, issuer, t) ==
  LET found == FirstSingle(staple, leaf, issuer)
      signer == SignerOf(staple, issuer, t)
      single == staple.singles[CHOOSE k \in found : TRUE]
  IN IF found # {} /\ signer # None /\ Fresh(single, t, signer)
     THEN single.status ELSE None

=============================================================================
