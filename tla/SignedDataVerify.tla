--------------------------- MODULE SignedDataVerify ---------------------------
(***************************************************************************)
(* verify_signed_data (src/lib.rs): the verification of one CMS SignedData *)
(* object.  The function walks the signerInfos in order; for each signer   *)
(* it checks algorithms and signed attributes, collects the certificates   *)
(* that the signer identifier names, tries them until one verifies, builds *)
(* its chain, and lets the signer vouch for the sender that is shown.      *)
(* Problems are collected in `failures`; most of them do not stop the      *)
(* loop.                                                                   *)
(*                                                                         *)
(* Abstractions.  A digest is identified with the content it is the digest *)
(* of.  A signature is the set of certificates whose key verifies it.  A   *)
(* failure is its kind and the signer being processed (0: the message).    *)
(* The certificates of a SignedData are an ASN.1 SET, so candidates are    *)
(* tried in an arbitrary order.                                            *)
(***************************************************************************)
EXTENDS Integers, Sequences, FiniteSets, CmsVersion

CONSTANTS
  None,         \* Option::None
  Addr, Name,   \* mailbox addresses and display names
  ALabel,       \* Addr -> Addr, the domain in A-label form
  FoldAddr,     \* an address under ASCII case folding
  FoldName,     \* a display name under ASCII case folding
  LocalPart,    \* the local part of an address, None without an '@'
  Cert,         \* certificates
  CertInfo,     \* [emails, names, keyParses, chainBuilds, revocation] of each
  Sid,          \* signer identifiers
  SidKind,      \* "IssuerAndSerialNumber" or "SubjectKeyIdentifier"
  Identifies,   \* pairs <<sid, cert>> that match
  Content,      \* message contents (and, as digests, their digests)
  OneHour,      \* the date tolerance, in the units of Date
  Date,
  Message       \* the SignedData inputs

Mailbox == [addr : Addr \union {None}, name : Name \union {None}]
Revocations == {"None", "Good", "Revoked", "Unknown"}

(* SignedAttributes, by attribute type: the values in order, where an      *)
(* attribute that does not hold exactly one well-formed value is           *)
(* "malformed" or None.                                                    *)
Attributes ==
  [contentTypes  : Seq({"data", "other", "malformed"}),
   digests       : Seq(Content \union {None}),
   signingTimes  : Seq(Date \union {None}),
   protections   : Seq({"match", "mismatch", "unparsed"}),
   capabilities  : Nat,
   essCertificates : Nat]

SignerInfo ==
  [sid            : Sid,
   version        : Nat,
   algorithms     : {"permitted", "warned", "disallowed"},
   signedAttrs    : Attributes \union {None},
   verifiesUnder  : SUBSET Cert]

SignedData ==
  [target      : {"Detached", "EContent"},
   eContent    : {"data", "absent", "other"},
   features    : SUBSET {"OtherCertificate", "V2AttrCert", "V1AttrCert", "OtherCrl"},
   version     : Nat,
   certs       : SUBSET Cert,
   signers     : Seq(SignerInfo),
   content     : Content,        \* the extracted bytes
   normalized  : Content,        \* after normalize_wildduck_content
   looksLikeSignedAttrs : BOOLEAN,
   outerFrom   : Mailbox \union {None},
   outerDate   : Date \union {None},
   innerParses : BOOLEAN,
   innerFrom   : Mailbox \union {None},
   innerDate   : Date \union {None},
   caLoads     : BOOLEAN,
   policyBuilds : BOOLEAN]

ASSUME ConstantsAssumption ==
  /\ None \notin Addr \union Name \union Content \union Date \union Cert
  /\ ALabel \in [Addr -> Addr]
  /\ Addr \subseteq DOMAIN FoldAddr /\ Addr \subseteq DOMAIN LocalPart
  /\ Name \subseteq DOMAIN FoldName
  /\ SidKind \in [Sid -> {"IssuerAndSerialNumber", "SubjectKeyIdentifier"}]
  /\ Identifies \subseteq Sid \X Cert
  /\ Date \subseteq Int /\ OneHour \in Nat
  /\ CertInfo \in [Cert -> [emails : Seq(Addr), names : SUBSET Name,
                            keyParses : BOOLEAN, chainBuilds : BOOLEAN,
                            revocation : Revocations]]

ASSUME MessageAssumption == Message \subseteq SignedData

VARIABLES
  msg,             \* the input
  pc,              \* "begin" | "signer" | "candidates" | "entry" | "done"
  idx,             \* index of the signer being processed
  pending,         \* its candidate certificates not yet tried
  leaf,            \* the candidate that verified, None before
  signers,         \* result.signers
  failures,        \* result.failures
  signed_content,  \* result.signed_content
  from_address, from_comment, date,   \* of the result
  resolver         \* SenderResolver

vars == <<msg, pc, idx, pending, leaf, signers, failures, signed_content,
          from_address, from_comment, date, resolver>>
sender == <<from_address, from_comment, date, resolver>>

-----------------------------------------------------------------------------
(* Addresses, names and dates.                                             *)

Canonical(a) == FoldAddr[ALabel[a]]

MatchingEmails(c, a) ==
  {i \in DOMAIN CertInfo[c].emails : Canonical(CertInfo[c].emails[i]) = Canonical(a)}

AddressMatches(c, a) == a # None /\ MatchingEmails(c, a) # {}

CommentMatches(c, n) ==
  n # None /\ \E cn \in CertInfo[c].names : FoldName[cn] = FoldName[n]

(* RFC 9598 note: the first matching email differs in the local part's case *)
LocalPartCaseMismatch(c, a) ==
  /\ LocalPart[a] # None
  /\ \E i \in MatchingEmails(c, a) :
       /\ \A j \in MatchingEmails(c, a) : i <= j
       /\ LocalPart[ALabel[CertInfo[c].emails[i]]] # LocalPart[a]

DateMismatch(a, b) ==
  /\ a # None /\ b # None
  /\ a - b > OneHour \/ b - a > OneHour

(* SenderResolver::update *)
CanUpdate(r, c, from) ==
  /\ AddressMatches(c, from.addr)
  /\ ~(r.sender_matched /\ r.comment_matched)

(* Mutant: the name is shown whether the certificate carries it or not.    *)
UpdatedResolverAnyName(c, from) ==
  [from_address |-> from.addr, from_comment |-> from.name, sender_matched |-> TRUE,
   comment_matched |-> CommentMatches(c, from.name)]

UpdatedResolver(c, from) ==
  [from_address    |-> from.addr,
   from_comment    |-> IF CommentMatches(c, from.name) THEN from.name ELSE None,
   sender_matched  |-> TRUE,
   comment_matched |-> CommentMatches(c, from.name)]

EmptyResolver ==
  [from_address |-> None, from_comment |-> None,
   sender_matched |-> FALSE, comment_matched |-> FALSE]

-----------------------------------------------------------------------------
(* What the code computes from one signer and the message.                 *)

signer == msg.signers[idx]
HasSignedAttrs(s) == s.signedAttrs # None

AttributeFailureKinds ==
  {"ContentTypeMismatch", "MalformedContentTypeAttr", "MissingContentTypeAttr",
   "AlgorithmProtectionMismatch", "UnsupportedEss", "AttributeCardinality"}

(* The non-fatal failures the signed attributes of a signer give rise to.  *)
AttributeFailures(s) ==
  LET a == s.signedAttrs
      Holds(values, v) == \E i \in DOMAIN values : values[i] = v
  IN {k \in AttributeFailureKinds :
       /\ HasSignedAttrs(s)
       /\ CASE k = "ContentTypeMismatch"         -> Holds(a.contentTypes, "other")
            [] k = "MalformedContentTypeAttr"    -> Holds(a.contentTypes, "malformed")
            [] k = "MissingContentTypeAttr"      -> a.contentTypes = <<>>
            [] k = "AlgorithmProtectionMismatch" -> Holds(a.protections, "mismatch")
            [] k = "UnsupportedEss"              -> a.essCertificates > 0
            [] k = "AttributeCardinality"        -> \/ Len(a.contentTypes) > 1
                                                    \/ Len(a.signingTimes) > 1
                                                    \/ a.capabilities > 1}

(* The last well-formed signing-time wins. *)
LastSigningTimes(s) ==
  {i \in DOMAIN s.signedAttrs.signingTimes :
     /\ s.signedAttrs.signingTimes[i] # None
     /\ \A j \in DOMAIN s.signedAttrs.signingTimes :
          j > i => s.signedAttrs.signingTimes[j] = None}

SigningTime(s) ==
  IF ~HasSignedAttrs(s) \/ LastSigningTimes(s) = {} THEN None
  ELSE s.signedAttrs.signingTimes[CHOOSE i \in LastSigningTimes(s) : TRUE]

ExpectedSignerVersion(s) ==
  IF SidKind[s.sid] = "IssuerAndSerialNumber" THEN 1 ELSE 3

ExpectedVersion(m) ==
  SignedDataVersion(m.features,
    \E i \in DOMAIN m.signers : SidKind[m.signers[i].sid] = "SubjectKeyIdentifier")

Candidates(m, s) == {c \in m.certs : <<s.sid, c>> \in Identifies}

(* cms_utils::verify_message_digest: exactly one attribute, that matches   *)
DigestMatches(s, content) ==
  /\ HasSignedAttrs(s)
  /\ Len(s.signedAttrs.digests) = 1
  /\ s.signedAttrs.digests[1] = content

(* SignedTarget::precheck_signer rejects the signer *)
PrecheckRejects(m, s) ==
  /\ ~HasSignedAttrs(s)
  /\ m.target = "Detached" \/ m.looksLikeSignedAttrs

(* SignedTarget::verify_candidate: directly, or after WildDuck's repair    *)
VerifiesAsIs(m, s, c) ==
  /\ c \in s.verifiesUnder
  /\ ~HasSignedAttrs(s) \/ DigestMatches(s, m.content)

(* Mutant: the repair is kept without comparing the digest again.          *)
VerifiesRepaired(m, s, c) ==
  m.target = "Detached" /\ c \in s.verifiesUnder /\ ~VerifiesAsIs(m, s, c)

VerifiesNormalized(m, s, c) ==
  /\ m.target = "Detached"
  /\ c \in s.verifiesUnder
  /\ DigestMatches(s, m.normalized)
  /\ ~VerifiesAsIs(m, s, c)

Verifies(m, s, c) ==
  CertInfo[c].keyParses /\ (VerifiesAsIs(m, s, c) \/ VerifiesNormalized(m, s, c))

RejectionFailures(m, s, c) ==
  IF ~CertInfo[c].keyParses THEN {"ChainValidation"}
  ELSE {k \in {"SigVerify", "DigestVerify"} :
         \/ k = "SigVerify" /\ c \notin s.verifiesUnder
         \/ k = "DigestVerify" /\ HasSignedAttrs(s) /\ ~DigestMatches(s, m.content)}

Trusted(c) == CertInfo[c].chainBuilds /\ CertInfo[c].revocation # "Revoked"

(* Mutant: only a revoked chain is reported, not one that cannot be built. *)
RevocationFailures(c) ==
  IF CertInfo[c].revocation = "Revoked" THEN {"StapledOcspRevoked"} ELSE {}

TrustFailures(c) ==
  IF ~CertInfo[c].chainBuilds THEN {"ChainValidation"}
  ELSE IF CertInfo[c].revocation = "Revoked" THEN {"StapledOcspRevoked"} ELSE {}

(* The failures `kinds`, tagged with the signer they were recorded for.    *)
Failures(kinds, i) == {[kind |-> k, signer |-> i] : k \in kinds}

(* The signer's identity notes and date notes (build_signer_entry,         *)
(* resolve_sender).                                                        *)
Notes(m, s, c, valid, updated) ==
  {n \in {"SigningTimeVsOuterDate", "LocalPartCaseMismatch", "OuterVsInnerDate"} :
     CASE n = "SigningTimeVsOuterDate" -> DateMismatch(SigningTime(s), m.outerDate)
       [] n = "LocalPartCaseMismatch"  -> updated /\ LocalPartCaseMismatch(c, m.innerFrom.addr)
       [] n = "OuterVsInnerDate"       -> valid /\ DateMismatch(m.outerDate, m.innerDate)}

-----------------------------------------------------------------------------
Init ==
  /\ msg \in Message
  /\ pc = "begin" /\ idx = 0 /\ pending = {} /\ leaf = None
  /\ signers = <<>> /\ failures = {} /\ signed_content = None
  /\ from_address = None /\ from_comment = None /\ date = None
  /\ resolver = EmptyResolver

Finish == pc' = "done" /\ UNCHANGED idx

(* Mutant: the loop runs once more than there are signers.                 *)
ContinuePastEnd(i) ==
  IF i <= Len(msg.signers) + 1 THEN pc' = "signer" /\ idx' = i ELSE Finish

(* Mutant: the loop returns where it should continue.                      *)
ContinueOnce(i) ==
  IF i = 1 /\ msg.signers # <<>> THEN pc' = "signer" /\ idx' = i ELSE Finish

(* Go on with signer i, or finish after the last one. *)
ContinueAt(i) ==
  IF i <= Len(msg.signers) THEN pc' = "signer" /\ idx' = i ELSE Finish

(* SignedTarget::econtent, and the content type check: nothing is verified *)
(* unless the signed content is id-data and, if encapsulated, present.     *)
ContentUsable(m) ==
  IF m.target = "EContent" THEN m.eContent = "data" ELSE m.eContent # "other"

RejectContent ==
  /\ pc = "begin"
  /\ ~ContentUsable(msg)
  /\ failures' = Failures({IF msg.target = "EContent" THEN "NoPkcs7Content"
                           ELSE "UnexpectedEContentType"}, 0)
  /\ Finish
  /\ UNCHANGED <<msg, pending, leaf, signers, signed_content, sender>>

VersionFailure(m) ==
  IF m.version # ExpectedVersion(m) THEN {"CmsVersionMismatch"} ELSE {}

(* The trust store cannot be loaded: the content is already recorded.      *)
RejectTrustStore ==
  /\ pc = "begin"
  /\ ContentUsable(msg) /\ ~msg.caLoads
  /\ signed_content' = msg.content
  /\ failures' = Failures(VersionFailure(msg) \union {"LoadCa"}, 0)
  /\ Finish
  /\ UNCHANGED <<msg, pending, leaf, signers, sender>>

DisplayedHeader(m) ==
  [addr |-> IF m.outerFrom = None \/ m.outerFrom.addr = None THEN None
            ELSE ALabel[m.outerFrom.addr],
   name |-> IF m.outerFrom = None THEN None ELSE m.outerFrom.name,
   date |-> m.outerDate]

(* prepare_signed_data_verification up to its end, and the policy set-up   *)
SetupFailures(m) ==
  VersionFailure(m)
    \union (IF m.outerFrom = None THEN {"MissingFrom"} ELSE {})
    \union (IF ~m.innerParses THEN {"ParseInner"}
            ELSE IF ~m.policyBuilds THEN {"PolicySetup"} ELSE {})

Prepare ==
  /\ pc = "begin"
  /\ ContentUsable(msg) /\ msg.caLoads
  /\ signed_content' = msg.content
  /\ from_address' = DisplayedHeader(msg).addr
  /\ from_comment' = DisplayedHeader(msg).name
  /\ date' = msg.outerDate
  /\ failures' = Failures(SetupFailures(msg), 0)
  /\ IF msg.innerParses /\ msg.policyBuilds THEN ContinueAt(1) ELSE Finish
  /\ UNCHANGED <<msg, pending, leaf, signers, resolver>>

(* prepare_signer and precheck_signer *)
RejectKinds(m, s) ==
  IF s.algorithms = "disallowed" THEN {"DisallowedAlg"}
  ELSE IF Candidates(m, s) = {} THEN {"SignerCertNotFound"}
  ELSE IF PrecheckRejects(m, s) THEN {"SigVerify"} ELSE {}

(* Mutant: only what stops a signer is reported.                           *)
FatalSignerFailures(m, s) == RejectKinds(m, s)

SignerFailures(m, s) ==
  (IF s.version # ExpectedSignerVersion(s) THEN {"CmsVersionMismatch"} ELSE {})
    \union (IF s.algorithms = "disallowed" THEN {}
            ELSE AttributeFailures(s)
                   \union IF s.algorithms = "warned" THEN {"AlgorithmWarning"} ELSE {})
    \union RejectKinds(m, s)

PrepareSigner ==
  /\ pc = "signer"
  /\ failures' = failures \union Failures(SignerFailures(msg, signer), idx)
  /\ IF RejectKinds(msg, signer) = {}
     THEN /\ pc' = "candidates" /\ pending' = Candidates(msg, signer)
          /\ UNCHANGED idx
     ELSE ContinueAt(idx + 1) /\ UNCHANGED pending
  /\ UNCHANGED <<msg, leaf, signers, signed_content, sender>>

(* One iteration of the candidate loop. *)
AcceptCandidate(c) ==
  /\ pc = "candidates" /\ c \in pending
  /\ Verifies(msg, signer, c)
  /\ pc' = "entry" /\ leaf' = c /\ pending' = {}
  /\ IF VerifiesNormalized(msg, signer, c)
     THEN /\ signed_content' = msg.normalized
          /\ failures' = failures \union Failures({"WildDuckWorkaround"}, idx)
     ELSE UNCHANGED <<signed_content, failures>>
  /\ UNCHANGED <<msg, idx, signers, sender>>

(* Mutant: a rejected candidate is tried again.                            *)
RetryCandidate(c) ==
  /\ pc = "candidates" /\ c \in pending
  /\ ~Verifies(msg, signer, c)
  /\ failures' = failures \union Failures(RejectionFailures(msg, signer, c), idx)
  /\ UNCHANGED <<msg, pc, idx, pending, leaf, signers, signed_content, sender>>

RejectCandidate(c) ==
  /\ pc = "candidates" /\ c \in pending
  /\ ~Verifies(msg, signer, c)
  /\ pending' = pending \ {c}
  /\ failures' = failures \union Failures(RejectionFailures(msg, signer, c), idx)
  /\ IF pending' = {} THEN ContinueAt(idx + 1) ELSE UNCHANGED <<pc, idx>>
  /\ UNCHANGED <<msg, leaf, signers, signed_content, sender>>

(* build_signer_entry, validate_chain and resolve_sender for the verified  *)
(* candidate.                                                              *)
Vouches(m, r, c) ==
  Trusted(c) /\ m.innerFrom # None /\ CanUpdate(r, c, m.innerFrom)

AddSigner ==
  /\ pc = "entry"
  /\ LET updated == Vouches(msg, resolver, leaf)
     IN /\ signers' = Append(signers,
             [signer          |-> idx,
              cert            |-> leaf,
              signature_valid |-> Trusted(leaf),
              revocation_status |-> IF CertInfo[leaf].chainBuilds
                                    THEN CertInfo[leaf].revocation ELSE "None",
              signing_time    |-> SigningTime(signer),
              notes           |-> Notes(msg, signer, leaf, Trusted(leaf), updated)])
        /\ IF updated
           THEN /\ resolver' = UpdatedResolver(leaf, msg.innerFrom)
                /\ from_address' = resolver'.from_address
                /\ from_comment' = resolver'.from_comment
                /\ date' = msg.innerDate
           ELSE UNCHANGED sender
  /\ failures' = failures \union Failures(TrustFailures(leaf), idx)
  /\ leaf' = None
  /\ ContinueAt(idx + 1)
  /\ UNCHANGED <<msg, pending, signed_content>>

Next ==
  \/ RejectContent \/ RejectTrustStore \/ Prepare
  \/ PrepareSigner
  \/ \E c \in Cert : AcceptCandidate(c) \/ RejectCandidate(c)
  \/ AddSigner

(* The function runs to completion on its caller's thread. *)
Spec == Init /\ [][Next]_vars /\ WF_vars(Next)

-----------------------------------------------------------------------------
(* Properties                                                              *)

Entry ==
  [signer            : Nat,
   cert              : Cert,
   signature_valid   : BOOLEAN,
   revocation_status : Revocations,
   signing_time      : Date \union {None},
   notes             : SUBSET {"SigningTimeVsOuterDate", "LocalPartCaseMismatch",
                               "OuterVsInnerDate"}]

(* The types of the result and of the loop state.                          *)
TypeOK ==
  /\ msg \in SignedData
  /\ pc \in {"begin", "signer", "candidates", "entry", "done"}
  /\ idx \in Nat
  /\ pc \in {"signer", "candidates", "entry"} => idx \in 1 .. Len(msg.signers)
  /\ pending \subseteq Cert
  /\ leaf \in Cert \union {None}
  /\ pc = "entry" => leaf \in Cert
  /\ signers \in Seq(Entry)
  /\ signed_content \in Content \union {None}
  /\ from_address \in Addr \union {None}
  /\ from_comment \in Name \union {None}
  /\ date \in Date \union {None}
  /\ resolver \in [from_address : Addr \union {None}, from_comment : Name \union {None},
                   sender_matched : BOOLEAN, comment_matched : BOOLEAN]

Listed(i) == \E k \in DOMAIN signers : signers[k].signer = i
ListedValid(i) ==
  \E k \in DOMAIN signers : signers[k].signer = i /\ signers[k].signature_valid

(* A result without failures is a promise about every signerInfo of the    *)
(* message: each of them is listed and valid.  The caller's exit status    *)
(* looks at `failures` alone, while signers that fail a check are skipped  *)
(* with `continue` and never listed.                                       *)
CleanResultVouchesForAllSigners ==
  pc = "done" /\ failures = {} => \A i \in DOMAIN msg.signers : ListedValid(i)

SetUp(m) == ContentUsable(m) /\ m.caLoads /\ m.innerParses /\ m.policyBuilds

Conformant(s) ==
  /\ s.version = ExpectedSignerVersion(s)
  /\ s.algorithms = "permitted"
  /\ AttributeFailures(s) = {}

(* The deviations that verification tolerates are never forgotten: a       *)
(* result without failures means that every set-up step succeeded, that    *)
(* the message has a From, and that the versions, algorithms and signed    *)
(* attributes of all signers conform.                                      *)
CleanResultIsConformant ==
  pc = "done" /\ failures = {} =>
    /\ SetUp(msg) /\ msg.outerFrom # None /\ msg.version = ExpectedVersion(msg)
    /\ \A i \in DOMAIN msg.signers : Conformant(msg.signers[i])

(* An empty list of failures, all a caller looks at, says that everything  *)
(* was verified and that all of it was as the RFCs have it.                *)
CleanResultIsSound == CleanResultVouchesForAllSigners /\ CleanResultIsConformant

(* The certificates that make signer i verify, were it processed alone.    *)
VerifyingCerts(i) ==
  IF RejectKinds(msg, msg.signers[i]) = {}
  THEN {c \in Candidates(msg, msg.signers[i]) : Verifies(msg, msg.signers[i], c)}
  ELSE {}

(* The loop gives each signer the verdict it would get alone: it is listed *)
(* exactly if one of its candidates verifies, valid if all that verify are *)
(* trusted, and not valid if none of them is.  Earlier signers, repairs    *)
(* and failures do not leak into later ones.                               *)
VerdictsAreIndependent ==
  pc = "done" /\ SetUp(msg) =>
    \A i \in DOMAIN msg.signers :
      LET good == VerifyingCerts(i) IN
      /\ Listed(i) <=> good # {}
      /\ good # {} /\ (\A c \in good : Trusted(c)) => ListedValid(i)
      /\ (\A c \in good : ~Trusted(c)) => ~ListedValid(i)

(* Content other than the bytes found in the message is handed out only    *)
(* if a listed signer's digest is of it and the repair is reported.        *)
RepairedContentIsReported ==
  signed_content \notin {None, msg.content} =>
    \E i \in DOMAIN msg.signers :
      /\ DigestMatches(msg.signers[i], signed_content)
      /\ [kind |-> "WildDuckWorkaround", signer |-> i] \in failures
      /\ pc = "done" => Listed(i)

(* types.rs says of signed_content: "Content that was actually signed".    *)
(* Every valid signer with signed attributes should have signed it.        *)
SignedContentIsWhatValidSignersSigned ==
  pc = "done" =>
    \A i \in DOMAIN msg.signers :
      ListedValid(i) /\ HasSignedAttrs(msg.signers[i])
        => DigestMatches(msg.signers[i], signed_content)

(* The sender shown refines the promise of SenderDisplay: it depends only  *)
(* on which certificates validly signed, never on the order of signers.    *)
ClaimedSender(m) ==
  [addr |-> IF m.innerFrom = None THEN None ELSE m.innerFrom.addr,
   name |-> IF m.innerFrom = None THEN None ELSE m.innerFrom.name,
   date |-> m.innerDate]

Endorsers == {signers[k].cert : k \in {j \in DOMAIN signers : signers[j].signature_valid}}

Display == INSTANCE SenderDisplay WITH
  header    <- DisplayedHeader(msg),
  claimed   <- ClaimedSender(msg),
  addrCerts <- {c \in Cert : AddressMatches(c, ClaimedSender(msg).addr)},
  nameCerts <- {c \in Cert : CommentMatches(c, ClaimedSender(msg).name)},
  endorsers <- Endorsers,
  shown     <- [addr |-> from_address, name |-> from_comment, date |-> date]

DisplaySpec == Display!Spec

(* Every verification ends, whatever the message holds.                    *)
Termination == (pc # "done") ~> (pc = "done")

=============================================================================
