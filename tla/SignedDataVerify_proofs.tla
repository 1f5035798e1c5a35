------------------------ MODULE SignedDataVerify_proofs ------------------------
(***************************************************************************)
(* Theorems about SignedDataVerify, for every set of certificates,         *)
(* signers, contents and messages that the assumptions of that module      *)
(* allow.                                                                  *)
(*                                                                         *)
(*   TypeCorrect          Spec => []TypeOK                                 *)
(*   CleanResultSound     a result without failures vouches for all signers*)
(*   DisplayImplemented   the sender shown implements SenderDisplay        *)
(*   VerdictsIndependent  each signer is judged as if it were alone        *)
(*   RepairReported       repaired content is vouched for and reported     *)
(*                                                                         *)
(* The inductive invariants behind the last four say what the loop has     *)
(* achieved so far: every signer already passed is valid or has left a     *)
(* failure (SignersAccounted), the sender shown is the one that the        *)
(* certificates of the valid signers so far justify (SenderJustified),     *)
(* the list has exactly those passed that deserve it (VerdictsInv), and    *)
(* the signer a repair was for is in it or about to be (RepairInv).        *)
(***************************************************************************)
EXTENDS SignedDataVerify, TLAPS

-----------------------------------------------------------------------------
(* Facts about the message, from its type.                                 *)

LEMMA MessageFacts ==
  ASSUME msg \in SignedData
  PROVE  /\ msg.signers \in Seq(SignerInfo)
         /\ Len(msg.signers) \in Nat
         /\ msg.content \in Content /\ msg.normalized \in Content
         /\ msg.certs \subseteq Cert
         /\ msg.outerFrom \in Mailbox \union {None}
         /\ msg.innerFrom \in Mailbox \union {None}
         /\ msg.outerDate \in Date \union {None}
         /\ msg.innerDate \in Date \union {None}
  BY DEF SignedData

(* The last well-formed signing time of typed attributes is a date.        *)
LEMMA SigningTimeType ==
  ASSUME NEW s \in SignerInfo
  PROVE  SigningTime(s) \in Date \union {None}
<1>1. CASE ~HasSignedAttrs(s) \/ LastSigningTimes(s) = {}
  BY <1>1 DEF SigningTime
<1>2. CASE HasSignedAttrs(s) /\ LastSigningTimes(s) # {}
  <2>. DEFINE i == CHOOSE k \in LastSigningTimes(s) : TRUE
  <2>1. i \in LastSigningTimes(s)
    BY <1>2
  <2>2. i \in DOMAIN s.signedAttrs.signingTimes
    BY <2>1 DEF LastSigningTimes
  <2>3. s.signedAttrs.signingTimes \in Seq(Date \union {None})
    BY <1>2 DEF HasSignedAttrs, SignerInfo, Attributes
  <2>4. SigningTime(s) = s.signedAttrs.signingTimes[i]
    BY <1>2 DEF SigningTime
  <2>. QED  BY <2>2, <2>3, <2>4
<1>. QED  BY <1>1, <1>2

(* The control state after ContinueAt.                                     *)
LEMMA ContinueAtFacts ==
  ASSUME msg \in SignedData, NEW i \in Nat, ContinueAt(i),
         i >= 1, idx \in Nat
  PROVE  \/ pc' = "signer" /\ idx' = i /\ i \in 1 .. Len(msg.signers)
         \/ pc' = "done" /\ idx' = idx /\ i > Len(msg.signers)
BY MessageFacts DEF ContinueAt, Finish

LEMMA DisplayedHeaderType ==
  ASSUME NEW m \in SignedData
  PROVE  /\ DisplayedHeader(m).addr \in Addr \union {None}
         /\ DisplayedHeader(m).name \in Name \union {None}
         /\ DisplayedHeader(m).date \in Date \union {None}
BY ConstantsAssumption DEF DisplayedHeader, SignedData, Mailbox

(* A vouching certificate finds a mailbox with an address.                 *)
LEMMA VouchesFacts ==
  ASSUME msg \in SignedData, NEW r, NEW c, Vouches(msg, r, c)
  PROVE  /\ msg.innerFrom \in Mailbox
         /\ msg.innerFrom.addr \in Addr
         /\ msg.innerFrom.name \in Name \union {None}
BY MessageFacts DEF Vouches, CanUpdate, AddressMatches, Mailbox

-----------------------------------------------------------------------------
(* Type correctness.                                                       *)

LEMMA EntryType ==
  ASSUME TypeOK, pc = "entry", NEW b \in BOOLEAN
  PROVE  [signer          |-> idx,
          cert            |-> leaf,
          signature_valid |-> Trusted(leaf),
          revocation_status |-> IF CertInfo[leaf].chainBuilds
                                THEN CertInfo[leaf].revocation ELSE "None",
          signing_time    |-> SigningTime(signer),
          notes           |-> Notes(msg, signer, leaf, Trusted(leaf), b)] \in Entry
<1>1. leaf \in Cert /\ idx \in Nat /\ signer \in SignerInfo
  BY MessageFacts DEF TypeOK, signer
<1>2. SigningTime(signer) \in Date \union {None}
  BY <1>1, SigningTimeType
<1>3. Trusted(leaf) \in BOOLEAN
  BY <1>1, ConstantsAssumption DEF Trusted
<1>4. CertInfo[leaf].revocation \in Revocations /\ "None" \in Revocations
  BY <1>1, ConstantsAssumption DEF Revocations
<1>5. Notes(msg, signer, leaf, Trusted(leaf), b) \in
        SUBSET {"SigningTimeVsOuterDate", "LocalPartCaseMismatch", "OuterVsInnerDate"}
  BY DEF Notes
<1>. QED  BY <1>1, <1>2, <1>3, <1>4, <1>5 DEF Entry

(* Every step keeps every variable of the machine in its type.             *)
LEMMA TypeOKStep == TypeOK /\ [Next]_vars => TypeOK'
<1>. SUFFICES ASSUME TypeOK, [Next]_vars PROVE TypeOK'
  OBVIOUS
<1>. USE DEF TypeOK
<1>1. CASE RejectContent
  BY <1>1 DEF RejectContent, Finish, sender
<1>2. CASE RejectTrustStore
  BY <1>2, MessageFacts DEF RejectTrustStore, Finish, sender
<1>3. CASE Prepare
  <2>1. from_address' \in Addr \union {None} /\ from_comment' \in Name \union {None}
    BY <1>3, DisplayedHeaderType DEF Prepare
  <2>2. date' \in Date \union {None} /\ signed_content' \in Content
    BY <1>3, MessageFacts DEF Prepare
  <2>3. /\ pc' \in {"signer", "done"} /\ idx' \in Nat
        /\ pc' = "signer" => idx' \in 1 .. Len(msg.signers)
    BY <1>3, MessageFacts DEF Prepare, ContinueAt, Finish
  <2>. QED  BY <1>3, <2>1, <2>2, <2>3 DEF Prepare
<1>4. CASE PrepareSigner
  <2>1. Candidates(msg, signer) \subseteq Cert
    BY MessageFacts DEF Candidates
  <2>2. /\ pc' \in {"signer", "candidates", "done"} /\ idx' \in Nat
        /\ pc' # "done" => idx' \in 1 .. Len(msg.signers)
    BY <1>4, MessageFacts DEF PrepareSigner, ContinueAt, Finish
  <2>. QED  BY <1>4, <2>1, <2>2 DEF PrepareSigner, sender
<1>5. ASSUME NEW c \in Cert, AcceptCandidate(c) PROVE TypeOK'
  BY <1>5, MessageFacts DEF AcceptCandidate, sender
<1>6. ASSUME NEW c \in Cert, RejectCandidate(c) PROVE TypeOK'
  <2>1. /\ pc' \in {"signer", "candidates", "done"} /\ idx' \in Nat
        /\ pc' # "done" => idx' \in 1 .. Len(msg.signers)
    BY <1>6, MessageFacts DEF RejectCandidate, ContinueAt, Finish
  <2>. QED  BY <1>6, <2>1 DEF RejectCandidate, sender
<1>7. CASE AddSigner
  <2>1. /\ pc' \in {"signer", "done"} /\ idx' \in Nat
        /\ pc' # "done" => idx' \in 1 .. Len(msg.signers)
    BY <1>7, MessageFacts DEF AddSigner, ContinueAt, Finish
  <2>2. signers' \in Seq(Entry)
    <3>1. Vouches(msg, resolver, leaf) \in BOOLEAN
      BY DEF Vouches
    <3>. QED  BY <1>7, <3>1, EntryType DEF AddSigner
  <2>3. /\ from_address' \in Addr \union {None}
        /\ from_comment' \in Name \union {None}
        /\ date' \in Date \union {None}
        /\ resolver' \in [from_address : Addr \union {None},
                          from_comment : Name \union {None},
                          sender_matched : BOOLEAN, comment_matched : BOOLEAN]
    <3>1. CASE Vouches(msg, resolver, leaf)
      <4>1. CommentMatches(leaf, msg.innerFrom.name) \in BOOLEAN
        BY DEF CommentMatches
      <4>2. /\ resolver' = UpdatedResolver(leaf, msg.innerFrom)
            /\ from_address' = resolver'.from_address
            /\ from_comment' = resolver'.from_comment
            /\ date' = msg.innerDate
        BY <1>7, <3>1 DEF AddSigner
      <4>3. /\ msg.innerFrom.addr \in Addr
            /\ msg.innerFrom.name \in Name \union {None}
        BY <3>1, VouchesFacts
      <4>4. UpdatedResolver(leaf, msg.innerFrom)
              \in [from_address : Addr \union {None}, from_comment : Name \union {None},
                  sender_matched : BOOLEAN, comment_matched : BOOLEAN]
        BY <4>1, <4>3 DEF UpdatedResolver
      <4>. QED  BY <4>2, <4>4, MessageFacts
    <3>2. CASE ~Vouches(msg, resolver, leaf)
      BY <1>7, <3>2 DEF AddSigner, sender
    <3>. QED  BY <3>1, <3>2
  <2>. QED  BY <1>7, <2>1, <2>2, <2>3 DEF AddSigner
<1>8. CASE UNCHANGED vars
  BY <1>8 DEF vars
<1>. QED  BY <1>1, <1>2, <1>3, <1>4, <1>5, <1>6, <1>7, <1>8 DEF Next

(* No step of the verification leaves the declared types: indices stay in  *)
(* range of the message's signers, the candidate handed to build_signer_   *)
(* entry is a certificate, the sender is a mailbox of the message.         *)
THEOREM TypeCorrect == Spec => []TypeOK
<1>1. Init => TypeOK
  BY MessageAssumption DEF Init, TypeOK, EmptyResolver
<1>. QED  BY <1>1, TypeOKStep, PTL DEF Spec

-----------------------------------------------------------------------------
(* Every signer is accounted for.                                          *)

FailureOf(i) == \E f \in failures : f.signer = i
Accounted(i) ==
  FailureOf(i) \/ (ListedValid(i) /\ Conformant(msg.signers[i]))
SetUpConformant ==
  SetUp(msg) /\ msg.outerFrom # None /\ msg.version = ExpectedVersion(msg)

(* The strengthening of the two CleanResult properties: at any point of    *)
(* the loop the signers already passed are accounted for, and the one in   *)
(* progress has left a failure if it deviates.                             *)
SignersAccounted ==
  /\ pc # "begin" => FailureOf(0) \/ SetUpConformant
  /\ pc \in {"signer", "candidates", "entry"} => \A i \in 1 .. (idx - 1) : Accounted(i)
  /\ pc = "done" => FailureOf(0) \/ \A i \in 1 .. Len(msg.signers) : Accounted(i)
  /\ pc \in {"candidates", "entry"} => FailureOf(idx) \/ Conformant(signer)

LEMMA FailuresNonempty ==
  ASSUME NEW kinds, NEW k \in kinds, NEW i
  PROVE  \E f \in Failures(kinds, i) : f.signer = i
<1>1. [kind |-> k, signer |-> i] \in Failures(kinds, i)
  BY DEF Failures
<1>. QED  BY <1>1

(* Failures and valid signers are never taken back.                        *)
LEMMA ResultGrows ==
  ASSUME TypeOK, [Next]_vars
  PROVE  /\ msg' = msg
         /\ failures \subseteq failures' \/ pc = "begin"
         /\ \A i : ListedValid(i) => ListedValid(i)'
<1>. USE DEF ListedValid
<1>1. CASE RejectContent
  BY <1>1 DEF RejectContent
<1>2. CASE RejectTrustStore
  BY <1>2 DEF RejectTrustStore
<1>3. CASE Prepare
  BY <1>3 DEF Prepare
<1>4. CASE PrepareSigner
  BY <1>4 DEF PrepareSigner
<1>5. ASSUME NEW c \in Cert, AcceptCandidate(c) \/ RejectCandidate(c)
      PROVE  msg' = msg /\ failures \subseteq failures' /\ signers' = signers
  BY <1>5 DEF AcceptCandidate, RejectCandidate
<1>6. CASE AddSigner
  <2>1. PICK e : signers' = Append(signers, e)
    BY <1>6 DEF AddSigner
  <2>2. \A k \in DOMAIN signers : k \in DOMAIN signers' /\ signers'[k] = signers[k]
    BY <2>1 DEF TypeOK
  <2>. QED  BY <1>6, <2>2 DEF AddSigner
<1>7. CASE UNCHANGED vars
  BY <1>7 DEF vars
<1>. QED  BY <1>1, <1>2, <1>3, <1>4, <1>5, <1>6, <1>7 DEF Next

LEMMA AccountedStays ==
  ASSUME TypeOK, [Next]_vars, pc # "begin", NEW i, Accounted(i) 
  PROVE  Accounted(i)'
BY ResultGrows DEF Accounted, FailureOf

(* A candidate is rejected for a reason.                                   *)
LEMMA RejectionHasReason ==
  ASSUME NEW m, NEW s, NEW c, ~Verifies(m, s, c)
  PROVE  RejectionFailures(m, s, c) # {}
BY DEF Verifies, VerifiesAsIs, RejectionFailures

(* So is a certificate that is not trusted.                                *)
LEMMA DistrustHasReason ==
  ASSUME NEW c, ~Trusted(c)
  PROVE  TrustFailures(c) # {}
BY DEF Trusted, TrustFailures

(* A signer that deviates, or is rejected, leaves a failure at once.       *)
LEMMA DeviationHasReason ==
  ASSUME NEW m, NEW s \in SignerInfo,
         ~Conformant(s) \/ RejectKinds(m, s) # {}
  PROVE  SignerFailures(m, s) # {}
<1>1. CASE s.algorithms = "disallowed"
  BY <1>1 DEF SignerFailures, RejectKinds
<1>2. CASE s.algorithms # "disallowed"
  BY <1>2 DEF SignerFailures, Conformant, SignerInfo
<1>. QED  BY <1>1, <1>2

LEMMA SignersAccountedStep ==
  ASSUME TypeOK, SignersAccounted, [Next]_vars
  PROVE  SignersAccounted'
<1>. USE ResultGrows, MessageFacts DEF TypeOK
<1>0. /\ msg' = msg
      /\ pc # "begin" => FailureOf(0)' \/ ~FailureOf(0)
  BY DEF FailureOf
<1>1. CASE RejectContent
  <2>1. FailureOf(0)'
    BY <1>1, FailuresNonempty DEF RejectContent, FailureOf
  <2>. QED  BY <1>1, <2>1 DEF RejectContent, Finish, SignersAccounted
<1>2. CASE RejectTrustStore
  <2>1. FailureOf(0)'
    BY <1>2, FailuresNonempty DEF RejectTrustStore, FailureOf
  <2>. QED  BY <1>2, <2>1 DEF RejectTrustStore, Finish, SignersAccounted
<1>3. CASE Prepare
  <2>1. failures' = Failures(SetupFailures(msg), 0)
    BY <1>3 DEF Prepare
  <2>2. CASE SetupFailures(msg) # {}
    <3>1. FailureOf(0)'
      BY <2>1, <2>2, FailuresNonempty DEF FailureOf
    <3>. QED  BY <1>3, <3>1 DEF Prepare, ContinueAt, Finish, SignersAccounted
  <2>3. CASE SetupFailures(msg) = {}
    <3>1. SetUpConformant
      BY <1>3, <2>3 DEF SetupFailures, VersionFailure, SetUpConformant, SetUp, Prepare
    <3>2. SetUpConformant'
      BY <3>1, <1>0 DEF SetUpConformant
    <3>3. ContinueAt(1)
      BY <1>3, <3>1 DEF Prepare, SetUpConformant, SetUp
    <3>. QED  BY <3>2, <3>3, ContinueAtFacts, <1>0 DEF SignersAccounted
  <2>. QED  BY <2>2, <2>3
<1>4. CASE PrepareSigner
  <2>1. \A i \in 1 .. (idx - 1) : Accounted(i)'
    BY <1>4, AccountedStays DEF PrepareSigner, SignersAccounted
  <2>2. FailureOf(0)' \/ SetUpConformant'
    BY <1>4, <1>0 DEF PrepareSigner, SignersAccounted, SetUpConformant
  <2>3. signer \in SignerInfo /\ signer = msg.signers[idx]
    BY <1>4 DEF PrepareSigner, signer
  <2>4. failures' = failures \union Failures(SignerFailures(msg, signer), idx)
    BY <1>4 DEF PrepareSigner
  <2>5. CASE RejectKinds(msg, signer) = {}
    <3>1. (\E f \in failures' : f.signer = idx) \/ Conformant(signer)
      BY <2>3, <2>4, DeviationHasReason, FailuresNonempty
    <3>2. idx' = idx /\ pc' = "candidates"
      BY <1>4, <2>5 DEF PrepareSigner
    <3>. QED  BY <2>1, <2>2, <3>1, <3>2, <1>0 DEF SignersAccounted, FailureOf, signer
  <2>6. CASE RejectKinds(msg, signer) # {}
    <3>1. \E f \in failures' : f.signer = idx
      BY <2>3, <2>4, <2>6, DeviationHasReason, FailuresNonempty
    <3>2. \A i \in 1 .. idx : Accounted(i)'
      BY <2>1, <3>1 DEF Accounted, FailureOf
    <3>3. ContinueAt(idx + 1)
      BY <1>4, <2>6 DEF PrepareSigner
    <3>. QED  BY <3>2, <3>3, <2>2, <1>0, ContinueAtFacts DEF SignersAccounted
  <2>. QED  BY <2>5, <2>6
<1>5. ASSUME NEW c \in Cert, AcceptCandidate(c) PROVE SignersAccounted'
  <2>1. pc = "candidates" /\ pc' = "entry" /\ idx' = idx
    BY <1>5 DEF AcceptCandidate
  <2>2. \A i \in 1 .. (idx - 1) : Accounted(i)'
    BY <2>1, AccountedStays DEF SignersAccounted
  <2>3. FailureOf(0)' \/ SetUpConformant'
    BY <2>1, <1>0 DEF SignersAccounted, SetUpConformant
  <2>4. FailureOf(idx)' \/ Conformant(signer)'
    BY <2>1, <1>0 DEF SignersAccounted, FailureOf, signer
  <2>. QED  BY <2>1, <2>2, <2>3, <2>4 DEF SignersAccounted, FailureOf
<1>6. ASSUME NEW c \in Cert, RejectCandidate(c) PROVE SignersAccounted'
  <2>1. pc = "candidates"
    BY <1>6 DEF RejectCandidate
  <2>2. \A i \in 1 .. (idx - 1) : Accounted(i)'
    BY <2>1, AccountedStays DEF SignersAccounted
  <2>3. FailureOf(0)' \/ SetUpConformant'
    BY <2>1, <1>0 DEF SignersAccounted, SetUpConformant
  <2>4. \E f \in failures' : f.signer = idx
    BY <1>6, RejectionHasReason, FailuresNonempty DEF RejectCandidate
  <2>5. CASE pending' = {}
    <3>1. ContinueAt(idx + 1)
      BY <1>6, <2>5 DEF RejectCandidate
    <3>2. \A i \in 1 .. idx : Accounted(i)'
      BY <2>2, <2>4 DEF Accounted, FailureOf
    <3>. QED  BY <2>1, <2>3, <3>1, <3>2, <1>0, ContinueAtFacts DEF SignersAccounted
  <2>6. CASE pending' # {}
    <3>1. pc' = pc /\ idx' = idx
      BY <1>6, <2>6 DEF RejectCandidate
    <3>. QED  BY <2>1, <2>2, <2>3, <2>4, <3>1 DEF SignersAccounted, FailureOf
  <2>. QED  BY <2>5, <2>6
<1>7. CASE AddSigner
  <2>1. pc = "entry" /\ ContinueAt(idx + 1)
    BY <1>7 DEF AddSigner
  <2>2. \A i \in 1 .. (idx - 1) : Accounted(i)'
    BY <2>1, AccountedStays DEF SignersAccounted
  <2>3. FailureOf(0)' \/ SetUpConformant'
    BY <2>1, <1>0 DEF SignersAccounted, SetUpConformant
  <2>8. PICK n \in Nat : n = idx
    OBVIOUS
  <2>4. ASSUME Trusted(leaf) PROVE Accounted(n)'
    <3>1. ListedValid(n)'
      <4>1. PICK e : /\ signers' = Append(signers, e)
                     /\ e.signer = idx /\ e.signature_valid = Trusted(leaf)
        BY <1>7 DEF AddSigner
      <4>2. /\ Len(signers) + 1 \in DOMAIN signers'
            /\ signers'[Len(signers) + 1] = e
        BY <4>1
      <4>3. e.signer = n /\ e.signature_valid
        BY <4>1, <2>4, <2>8
      <4>. QED  BY <4>2, <4>3 DEF ListedValid
    <3>2. FailureOf(n)' \/ Conformant(msg.signers[n])
      BY <2>1, <2>8 DEF SignersAccounted, FailureOf, signer
    <3>. QED  BY <3>1, <3>2, <1>0 DEF Accounted
  <2>5. ASSUME ~Trusted(leaf) PROVE Accounted(n)'
    <3>1. \E f \in failures' : f.signer = n
      BY <1>7, <2>5, <2>8, DistrustHasReason, FailuresNonempty DEF AddSigner
    <3>. QED  BY <3>1 DEF Accounted, FailureOf
  <2>6. Accounted(n)'
    BY <2>4, <2>5
  <2>7. \A i \in 1 .. idx : Accounted(i)'
    BY <2>2, <2>6, <2>8
  <2>. QED  BY <2>1, <2>3, <2>7, <1>0, ContinueAtFacts DEF SignersAccounted
<1>8. CASE UNCHANGED vars
  BY <1>8 DEF vars, SignersAccounted, Accounted, FailureOf, ListedValid, SetUpConformant, signer
<1>. QED  BY <1>1, <1>2, <1>3, <1>4, <1>5, <1>6, <1>7, <1>8 DEF Next

(* A verification that ends with no failures has set up completely, on a   *)
(* message with a From and conforming versions, and every one of its       *)
(* signerInfos is listed, valid and conformant, however many there are and *)
(* however many candidates each has.                                       *)
THEOREM CleanResultSound ==
  Spec => []CleanResultIsSound
<1>1. Init => SignersAccounted
  BY DEF Init, SignersAccounted
<1>2. TypeOK /\ SignersAccounted => CleanResultIsSound
  <2>. SUFFICES ASSUME TypeOK, SignersAccounted, pc = "done", failures = {}
                PROVE  /\ \A i \in DOMAIN msg.signers : ListedValid(i)
                       /\ SetUpConformant
                       /\ \A i \in DOMAIN msg.signers : Conformant(msg.signers[i])
    BY DEF CleanResultIsSound, CleanResultVouchesForAllSigners, CleanResultIsConformant, SetUpConformant
  <2>1. \A i : ~FailureOf(i)
    BY DEF FailureOf
  <2>2. SetUpConformant /\ \A i \in 1 .. Len(msg.signers) : Accounted(i)
    BY <2>1 DEF SignersAccounted
  <2>3. DOMAIN msg.signers = 1 .. Len(msg.signers)
    BY MessageFacts DEF TypeOK
  <2>. QED  BY <2>1, <2>2, <2>3 DEF Accounted
<1>. QED  BY <1>1, <1>2, TypeCorrect, TypeOKStep, SignersAccountedStep, PTL DEF Spec

-----------------------------------------------------------------------------
(* The sender shown.                                                       *)

AddrCerts == {c \in Cert : AddressMatches(c, ClaimedSender(msg).addr)}
NameCerts == {c \in Cert : CommentMatches(c, ClaimedSender(msg).name)}
Shown == [addr |-> from_address, name |-> from_comment, date |-> date]

(* What the resolver's two flags mean, and that the sender shown is the    *)
(* one the endorsers so far justify: its flags are what makes the order of *)
(* signers irrelevant.                                                     *)
SenderJustified ==
  /\ pc = "begin" => Endorsers = {} /\ resolver = EmptyResolver
  /\ pc \in {"signer", "candidates", "entry"} =>
       /\ Shown = Display!Justified(Endorsers)
       /\ resolver.sender_matched <=> Endorsers \intersect AddrCerts # {}
       /\ resolver.comment_matched <=> Endorsers \intersect AddrCerts \intersect NameCerts # {}

(* The certificates of the valid signers once one more entry is listed.    *)
LEMMA EndorsersAppend ==
  ASSUME NEW e, signers \in Seq(Entry), signers' = Append(signers, e)
  PROVE  Endorsers' = IF e.signature_valid THEN Endorsers \union {e.cert} ELSE Endorsers
<1>1. /\ DOMAIN signers' = DOMAIN signers \union {Len(signers) + 1}
      /\ signers'[Len(signers) + 1] = e
      /\ \A k \in DOMAIN signers : signers'[k] = signers[k]
      /\ Len(signers) + 1 \notin DOMAIN signers
  OBVIOUS
<1>. QED  BY <1>1 DEF Endorsers

(* A step that lists no signer and keeps the sender is a stutter.          *)
LEMMA DisplayStutters ==
  ASSUME UNCHANGED <<msg, signers, from_address, from_comment, date>>
  PROVE  UNCHANGED Display!vars
BY DEF Display!vars, Endorsers, ClaimedSender, DisplayedHeader

(* The flags and the sender after AddSigner.                               *)
LEMMA AddSignerJustified ==
  ASSUME TypeOK, SenderJustified, AddSigner, Trusted(leaf)
  PROVE  /\ Endorsers' = Endorsers \union {leaf}
         /\ Shown' = Display!Justified(Endorsers \union {leaf})
         /\ resolver'.sender_matched
              <=> (Endorsers \union {leaf}) \intersect AddrCerts # {}
         /\ resolver'.comment_matched
              <=> (Endorsers \union {leaf}) \intersect AddrCerts \intersect NameCerts # {}
<1>0. /\ pc = "entry" /\ leaf \in Cert
      /\ msg.innerFrom \in Mailbox \union {None}
  BY MessageFacts DEF AddSigner, TypeOK
<1>1. Endorsers' = Endorsers \union {leaf}
  <2>0. \E valid, i, r, t, ns :
          /\ valid = Trusted(leaf)
          /\ signers' = Append(signers,
               [signer |-> i, cert |-> leaf, signature_valid |-> valid,
                revocation_status |-> r, signing_time |-> t, notes |-> ns])
    BY DEF AddSigner
  <2>1. PICK e : /\ signers' = Append(signers, e)
                 /\ e.cert = leaf /\ e.signature_valid = Trusted(leaf)
    BY ONLY <2>0
  <2>2. signers \in Seq(Entry) /\ e.signature_valid
    BY <2>1 DEF TypeOK
  <2>3. Endorsers' = IF e.signature_valid THEN Endorsers \union {e.cert} ELSE Endorsers
    BY ONLY <2>1, <2>2, EndorsersAppend
  <2>. QED  BY <2>1, <2>2, <2>3
<1>2. /\ Shown = Display!Justified(Endorsers)
      /\ resolver.sender_matched <=> Endorsers \intersect AddrCerts # {}
      /\ resolver.comment_matched <=> Endorsers \intersect AddrCerts \intersect NameCerts # {}
  BY <1>0 DEF SenderJustified
<1>3. CASE Vouches(msg, resolver, leaf)
  <2>1. /\ resolver' = UpdatedResolver(leaf, msg.innerFrom)
        /\ from_address' = resolver'.from_address
        /\ from_comment' = resolver'.from_comment
        /\ date' = msg.innerDate
    BY <1>3 DEF AddSigner
  <2>2. /\ msg.innerFrom # None
        /\ ClaimedSender(msg) = [addr |-> msg.innerFrom.addr,
                                 name |-> msg.innerFrom.name, date |-> msg.innerDate]
    BY <1>3 DEF Vouches, ClaimedSender
  <2>3. leaf \in AddrCerts
    BY <1>0, <1>3, <2>2 DEF Vouches, CanUpdate, AddrCerts
  <2>4. leaf \in NameCerts <=> CommentMatches(leaf, msg.innerFrom.name)
    BY <1>0, <2>2 DEF NameCerts
  <2>5. Endorsers \intersect AddrCerts \intersect NameCerts = {}
    BY <1>2, <1>3 DEF Vouches, CanUpdate
  <2>6. (Endorsers \union {leaf}) \intersect AddrCerts # {}
    BY <2>3
  <2>7. (Endorsers \union {leaf}) \intersect AddrCerts \intersect NameCerts # {}
          <=> CommentMatches(leaf, msg.innerFrom.name)
    BY <2>3, <2>4, <2>5
  <2>8. /\ resolver'.sender_matched
        /\ resolver'.comment_matched <=> CommentMatches(leaf, msg.innerFrom.name)
        /\ resolver'.from_address = msg.innerFrom.addr
        /\ resolver'.from_comment = IF CommentMatches(leaf, msg.innerFrom.name)
                                    THEN msg.innerFrom.name ELSE None
    BY <2>1 DEF UpdatedResolver, CommentMatches
  <2>9. Shown' = Display!Justified(Endorsers \union {leaf})
    BY <2>1, <2>2, <2>6, <2>7, <2>8 DEF Display!Justified, Shown, AddrCerts, NameCerts
  <2>. QED  BY <1>1, <2>6, <2>7, <2>8, <2>9
<1>4. CASE ~Vouches(msg, resolver, leaf)
  <2>1. Shown' = Shown /\ resolver' = resolver
    BY <1>4 DEF AddSigner, sender, Shown
  <2>2. \/ leaf \notin AddrCerts
        \/ resolver.sender_matched /\ resolver.comment_matched
    <3>1. CASE msg.innerFrom = None
      BY <3>1 DEF AddrCerts, ClaimedSender, AddressMatches
    <3>2. CASE msg.innerFrom # None
      BY <3>2, <1>4 DEF Vouches, CanUpdate, AddrCerts, ClaimedSender
    <3>. QED  BY <3>1, <3>2
  <2>3. /\ (Endorsers \union {leaf}) \intersect AddrCerts # {}
             <=> Endorsers \intersect AddrCerts # {}
        /\ (Endorsers \union {leaf}) \intersect AddrCerts \intersect NameCerts # {}
             <=> Endorsers \intersect AddrCerts \intersect NameCerts # {}
    BY <1>2, <2>2
  <2>4. Display!Justified(Endorsers \union {leaf}) = Display!Justified(Endorsers)
    BY <2>3 DEF Display!Justified, AddrCerts, NameCerts
  <2>. QED  BY <1>1, <1>2, <2>1, <2>3, <2>4
<1>. QED  BY <1>3, <1>4

(* A verified signer that is not trusted changes nothing that is shown.    *)
LEMMA DistrustedShowsNothing ==
  ASSUME TypeOK, AddSigner, ~Trusted(leaf)
  PROVE  /\ Endorsers' = Endorsers
         /\ UNCHANGED <<msg, sender>>
<1>1. PICK e : /\ signers' = Append(signers, e)
               /\ e.signature_valid = Trusted(leaf)
  BY DEF AddSigner
<1>2. signers \in Seq(Entry) /\ ~e.signature_valid
  BY <1>1 DEF TypeOK
<1>3. Endorsers' = IF e.signature_valid THEN Endorsers \union {e.cert} ELSE Endorsers
  BY ONLY <1>1, <1>2, EndorsersAppend
<1>4. UNCHANGED <<msg, sender>>
  BY DEF AddSigner, Vouches
<1>. QED  BY <1>2, <1>3, <1>4

(* Every step of the verification is a step of the promise, or a stutter,  *)
(* and keeps the meaning of the resolver's flags.                          *)
LEMMA SenderJustifiedStep ==
  ASSUME TypeOK, SenderJustified, [Next]_vars
  PROVE  SenderJustified' /\ [Display!Next]_(Display!vars)
<1>. USE DEF SenderJustified
<1>1. ASSUME UNCHANGED <<msg, signers, sender>>, pc # "begin",
             pc' \in {"signer", "candidates", "entry"} =>
               pc \in {"signer", "candidates", "entry"}
      PROVE  (pc' # "begin" => SenderJustified') /\ UNCHANGED Display!vars
  <2>1. /\ Endorsers' = Endorsers /\ Shown' = Shown
        /\ AddrCerts' = AddrCerts /\ NameCerts' = NameCerts
        /\ Display!Justified(Endorsers)' = Display!Justified(Endorsers)
        /\ resolver' = resolver
    BY <1>1 DEF Endorsers, Shown, AddrCerts, NameCerts, sender, Display!Justified,
                ClaimedSender, DisplayedHeader
  <2>. QED  BY <1>1, <2>1, DisplayStutters DEF sender
<1>2. ASSUME UNCHANGED <<msg, signers, sender>>, pc' = "done"
      PROVE  SenderJustified' /\ UNCHANGED Display!vars
  BY <1>2, DisplayStutters DEF sender
<1>3. CASE RejectContent
  BY <1>3, <1>2 DEF RejectContent, Finish
<1>4. CASE RejectTrustStore
  BY <1>4, <1>2 DEF RejectTrustStore, Finish
<1>5. CASE Prepare
  <2>1. Endorsers = {} /\ Endorsers' = {} /\ msg' = msg
    BY <1>5 DEF Prepare, Endorsers
  <2>2. Shown' = DisplayedHeader(msg)
    BY <1>5 DEF Prepare, Shown, DisplayedHeader
  <2>3. Display!ReadHeader
    BY <2>1, <2>2 DEF Display!ReadHeader, Display!inputs, Shown, ClaimedSender, DisplayedHeader
  <2>4. Display!Justified(Endorsers)' = DisplayedHeader(msg)
    BY <2>1 DEF Display!Justified, DisplayedHeader
  <2>5. ~resolver'.sender_matched /\ ~resolver'.comment_matched
    BY <1>5 DEF Prepare, EmptyResolver
  <2>6. pc' # "begin"
    BY <1>5 DEF Prepare, ContinueAt, Finish
  <2>. QED  BY <2>1, <2>2, <2>3, <2>4, <2>5, <2>6 DEF Display!Next
<1>6. CASE PrepareSigner
  <2>1. pc = "signer" /\ UNCHANGED <<msg, signers, sender>>
    BY <1>6 DEF PrepareSigner
  <2>2. pc' # "begin"
    BY <1>6, <2>1 DEF PrepareSigner, ContinueAt, Finish
  <2>. QED  BY <1>1, <2>1, <2>2
<1>7. ASSUME NEW c \in Cert, AcceptCandidate(c) \/ RejectCandidate(c)
      PROVE  SenderJustified' /\ UNCHANGED Display!vars
  <2>1. pc = "candidates" /\ UNCHANGED <<msg, signers, sender>>
    BY <1>7 DEF AcceptCandidate, RejectCandidate
  <2>2. pc' # "begin"
    BY <1>7, <2>1 DEF AcceptCandidate, RejectCandidate, ContinueAt, Finish
  <2>. QED  BY <1>1, <2>1, <2>2
<1>8. CASE AddSigner
  <2>1. pc = "entry" /\ leaf \in Cert /\ msg' = msg /\ pc' \in {"signer", "done"}
    BY <1>8 DEF AddSigner, TypeOK, ContinueAt, Finish
  <2>2. /\ AddrCerts' = AddrCerts /\ NameCerts' = NameCerts
        /\ \A E : Display!Justified(E)' = Display!Justified(E)
    BY <2>1 DEF AddrCerts, NameCerts, Display!Justified, ClaimedSender, DisplayedHeader
  <2>3. CASE Trusted(leaf)
    <3>1. Shown' = Display!Justified(Endorsers)'
      BY <1>8, <2>2, <2>3, AddSignerJustified DEF Display!Justified
    <3>2. Display!Endorse(leaf)
      BY <1>8, <2>1, <2>3, AddSignerJustified
      DEF Display!Endorse, Display!inputs, Display!Justified, Shown, ClaimedSender,
          DisplayedHeader, AddrCerts, NameCerts
    <3>3. SenderJustified'
      BY <1>8, <2>1, <2>2, <2>3, <3>1, AddSignerJustified
    <3>. QED  BY <2>1, <3>2, <3>3 DEF Display!Next
  <2>4. CASE ~Trusted(leaf)
    <3>1. /\ Endorsers' = Endorsers
          /\ UNCHANGED <<msg, sender>>
      BY <1>8, <2>4, DistrustedShowsNothing
    <3>2. Shown' = Shown /\ resolver' = resolver
      BY <3>1 DEF Shown, sender
    <3>3. Display!Justified(Endorsers)' = Display!Justified(Endorsers)
      BY <2>1, <3>1 DEF Display!Justified, ClaimedSender, DisplayedHeader
    <3>4. SenderJustified'
      BY <2>1, <2>2, <3>1, <3>2, <3>3
    <3>5. UNCHANGED Display!vars
      BY <3>1 DEF Display!vars, ClaimedSender, DisplayedHeader, sender
    <3>. QED  BY <3>4, <3>5
  <2>. QED  BY <2>3, <2>4
<1>9. CASE UNCHANGED vars
  <2>1. UNCHANGED <<msg, signers, sender, pc>>
    BY <1>9 DEF vars, sender
  <2>2. CASE pc = "begin"
    <3>1. Endorsers' = Endorsers
      BY <2>1 DEF Endorsers
    <3>. QED  BY <2>1, <2>2, <3>1, DisplayStutters DEF sender
  <2>3. CASE pc # "begin"
    BY <1>1, <2>1, <2>3
  <2>. QED  BY <2>2, <2>3
<1>. QED  BY <1>3, <1>4, <1>5, <1>6, <1>7, <1>8, <1>9 DEF Next

(* The sender that is shown is always the one justified by the set of      *)
(* certificates whose signatures were valid: verify_signed_data implements *)
(* SenderDisplay, whatever the order of the signers.                       *)
THEOREM DisplayImplemented == Spec => DisplaySpec
<1>1. Init => SenderJustified
  BY DEF Init, SenderJustified, Endorsers
<1>2. Init => Display!Init
  BY DEF Init, Display!Init, Endorsers, Display!Nothing
<1>. QED  BY <1>1, <1>2, TypeCorrect, TypeOKStep, SenderJustifiedStep, PTL
          DEF Spec, DisplaySpec, Display!Spec

-----------------------------------------------------------------------------
(* Each signer gets the verdict it would get alone.                        *)

(* An entry is of a candidate that verifies, and as valid as that is       *)
(* trusted.                                                                *)
Deserved(e) ==
  /\ e.signer \in 1 .. Len(msg.signers)
  /\ e.cert \in VerifyingCerts(e.signer)
  /\ e.signature_valid = Trusted(e.cert)

(* What has become of signer i, once the loop has passed it.               *)
Judged(i) == VerifyingCerts(i) # {} => Listed(i)

(* Strengthens VerdictsAreIndependent: no entry is listed undeservedly, no *)
(* passed signer is missing, and of the current one the candidates no      *)
(* longer pending did not verify.                                          *)
VerdictsInv ==
  /\ \A k \in DOMAIN signers : Deserved(signers[k])
  /\ pc \in {"signer", "candidates", "entry"} => \A i \in 1 .. (idx - 1) : Judged(i)
  /\ pc = "done" /\ SetUp(msg) => \A i \in 1 .. Len(msg.signers) : Judged(i)
  /\ pc = "candidates" =>
       /\ RejectKinds(msg, signer) = {}
       /\ pending \subseteq Candidates(msg, signer)
       /\ VerifyingCerts(idx) \subseteq pending
  /\ pc = "entry" => leaf \in VerifyingCerts(idx)

(* A step adds at most one entry, at the end.                              *)
LEMMA EntriesGrow ==
  ASSUME TypeOK, [Next]_vars
  PROVE  /\ msg' = msg
         /\ ~AddSigner => signers' = signers
         /\ \A i : Listed(i) => Listed(i)'
<1>1. msg' = msg /\ (~AddSigner => signers' = signers)
  BY DEF Next, vars, RejectContent, RejectTrustStore, Prepare, PrepareSigner, AcceptCandidate,
         RejectCandidate, AddSigner
<1>2. CASE AddSigner
  <2>1. PICK e : signers' = Append(signers, e)
    BY <1>2 DEF AddSigner
  <2>2. \A k \in DOMAIN signers : k \in DOMAIN signers' /\ signers'[k] = signers[k]
    BY <2>1 DEF TypeOK
  <2>. QED  BY <1>1, <2>2 DEF Listed
<1>. QED  BY <1>1, <1>2 DEF Listed

(* When the loop goes on, so does what is known of the signers passed.     *)
LEMMA VerdictsContinue ==
  ASSUME TypeOK, [Next]_vars, ContinueAt(idx + 1), idx \in 1 .. Len(msg.signers),
         \A k \in DOMAIN signers' : Deserved(signers'[k]),
         \A i \in 1 .. idx : Judged(i)'
  PROVE  VerdictsInv'
<1>1. msg' = msg /\ idx \in Nat /\ Len(msg.signers) \in Nat
  BY EntriesGrow, MessageFacts DEF TypeOK
<1>2. \/ pc' = "signer" /\ idx' = idx + 1 /\ idx + 1 \in 1 .. Len(msg.signers)
      \/ pc' = "done" /\ idx = Len(msg.signers)
  BY <1>1, ContinueAtFacts, MessageFacts DEF TypeOK
<1>3. (\A k \in DOMAIN signers : Deserved(signers[k]))'
  BY <1>1 DEF Deserved, VerifyingCerts
<1>. QED  BY <1>1, <1>2, <1>3 DEF VerdictsInv

LEMMA VerdictsStep ==
  ASSUME TypeOK, VerdictsInv, [Next]_vars
  PROVE  VerdictsInv'
<1>0. /\ msg' = msg
      /\ \A i : VerifyingCerts(i)' = VerifyingCerts(i)
      /\ \A i : Judged(i) => Judged(i)'
      /\ \A e : Deserved(e) <=> Deserved(e)'
      /\ Len(msg.signers) \in Nat
  BY EntriesGrow, MessageFacts DEF TypeOK, VerifyingCerts, Judged, Deserved
<1>1. CASE RejectContent
  BY <1>0, <1>1 DEF RejectContent, Finish, SetUp, VerdictsInv
<1>2. CASE RejectTrustStore
  BY <1>0, <1>2 DEF RejectTrustStore, Finish, SetUp, VerdictsInv
<1>3. CASE Prepare
  <2>1. signers' = signers
    BY <1>3 DEF Prepare
  <2>2. CASE msg.innerParses /\ msg.policyBuilds
    <3>1. ContinueAt(1) /\ idx \in Nat
      BY <1>3, <2>2 DEF Prepare, TypeOK
    <3>2. \/ pc' = "signer" /\ idx' = 1
          \/ pc' = "done" /\ Len(msg.signers) = 0
      BY <1>0, <3>1, ContinueAtFacts DEF TypeOK
    <3>. QED  BY <1>0, <2>1, <3>2 DEF VerdictsInv
  <2>3. CASE ~(msg.innerParses /\ msg.policyBuilds)
    <3>1. pc' = "done" /\ ~SetUp(msg)
      BY <1>3, <2>3 DEF Prepare, Finish, SetUp
    <3>. QED  BY <1>0, <2>1, <3>1 DEF VerdictsInv
  <2>. QED  BY <2>2, <2>3
<1>4. CASE PrepareSigner
  <2>1. /\ signers' = signers /\ idx \in 1 .. Len(msg.signers) /\ idx \in Nat
        /\ signer = msg.signers[idx]
        /\ \A i \in 1 .. (idx - 1) : Judged(i)
    BY <1>4 DEF PrepareSigner, TypeOK, VerdictsInv, signer
  <2>2. CASE RejectKinds(msg, signer) = {}
    <3>1. pc' = "candidates" /\ pending' = Candidates(msg, signer) /\ idx' = idx
      BY <1>4, <2>2 DEF PrepareSigner
    <3>2. signer' = signer
      BY <1>0, <3>1 DEF signer
    <3>3. VerifyingCerts(idx) \subseteq Candidates(msg, signer)
      BY <2>1 DEF VerifyingCerts
    <3>. QED  BY <1>0, <2>1, <2>2, <3>1, <3>2, <3>3 DEF VerdictsInv
  <2>3. CASE RejectKinds(msg, signer) # {}
    <3>1. ContinueAt(idx + 1)
      BY <1>4, <2>3 DEF PrepareSigner
    <3>2. Judged(idx)
      BY <2>1, <2>3 DEF Judged, VerifyingCerts
    <3>3. \A i \in 1 .. idx : Judged(i)'
      BY <1>0, <2>1, <3>2
    <3>. QED  BY <2>1, <3>1, <3>3, VerdictsContinue DEF VerdictsInv
  <2>. QED  BY <2>2, <2>3
<1>5. ASSUME NEW c \in Cert, AcceptCandidate(c) PROVE VerdictsInv'
  <2>1. /\ pc = "candidates" /\ c \in pending /\ Verifies(msg, signer, c)
        /\ pc' = "entry" /\ leaf' = c /\ idx' = idx /\ signers' = signers
    BY <1>5 DEF AcceptCandidate
  <2>2. c \in VerifyingCerts(idx)
    BY <2>1 DEF VerdictsInv, VerifyingCerts, signer
  <2>. QED  BY <1>0, <2>1, <2>2 DEF VerdictsInv
<1>6. ASSUME NEW c \in Cert, RejectCandidate(c) PROVE VerdictsInv'
  <2>1. /\ pc = "candidates" /\ c \in pending /\ ~Verifies(msg, signer, c)
        /\ pending' = pending \ {c} /\ signers' = signers
        /\ idx \in 1 .. Len(msg.signers) /\ idx \in Nat
    BY <1>6 DEF RejectCandidate, TypeOK
  <2>2. VerifyingCerts(idx) \subseteq pending'
    BY <2>1 DEF VerdictsInv, VerifyingCerts, signer
  <2>3. CASE pending' # {}
    <3>1. pc' = pc /\ idx' = idx
      BY <1>6, <2>3 DEF RejectCandidate
    <3>2. signer' = signer
      BY <1>0, <3>1 DEF signer
    <3>. QED  BY <1>0, <2>1, <2>2, <3>1, <3>2 DEF VerdictsInv
  <2>4. CASE pending' = {}
    <3>1. ContinueAt(idx + 1)
      BY <1>6, <2>4 DEF RejectCandidate
    <3>2. Judged(idx)
      BY <2>2, <2>4 DEF Judged
    <3>3. \A i \in 1 .. idx : Judged(i)'
      BY <1>0, <2>1, <3>2 DEF VerdictsInv
    <3>. QED  BY <2>1, <3>1, <3>3, VerdictsContinue DEF VerdictsInv
  <2>. QED  BY <2>3, <2>4
<1>7. CASE AddSigner
  <2>1. /\ pc = "entry" /\ idx \in 1 .. Len(msg.signers) /\ idx \in Nat
        /\ ContinueAt(idx + 1)
    BY <1>7 DEF AddSigner, TypeOK
  <2>2. PICK e : /\ signers' = Append(signers, e)
                 /\ e.signer = idx /\ e.cert = leaf /\ e.signature_valid = Trusted(leaf)
    BY <1>7 DEF AddSigner
  <2>3. Deserved(e)
    BY <2>1, <2>2 DEF Deserved, VerdictsInv
  <2>4. \A k \in DOMAIN signers' :
          signers'[k] = e \/ (k \in DOMAIN signers /\ signers'[k] = signers[k])
    BY <2>2 DEF TypeOK
  <2>5. \A k \in DOMAIN signers' : Deserved(signers'[k])
    BY <2>3, <2>4 DEF VerdictsInv
  <2>6. \E k \in DOMAIN signers' : signers'[k].signer = idx
    <3>1. Len(signers) + 1 \in DOMAIN signers' /\ signers'[Len(signers) + 1] = e
      BY <2>2 DEF TypeOK
    <3>. QED  BY <2>2, <3>1
  <2>7. \A i \in 1 .. idx : Judged(i)'
    <3>1. ASSUME NEW i, i = idx  PROVE Judged(i)'
      BY <2>6, <3>1 DEF Judged, Listed
    <3>. QED  BY <1>0, <2>1, <3>1 DEF VerdictsInv
  <2>. QED  BY <2>1, <2>5, <2>7, VerdictsContinue
<1>8. CASE UNCHANGED vars
  BY <1>8 DEF vars, VerdictsInv, Deserved, Judged, VerifyingCerts, Listed, signer
<1>. QED  BY <1>1, <1>2, <1>3, <1>4, <1>5, <1>6, <1>7, <1>8 DEF Next

(* However many signers, candidates and repairs a message has, each signer *)
(* is listed exactly if one of its candidates verifies, and valid or not   *)
(* as those are trusted: no state of the loop leaks from one to another.   *)
THEOREM VerdictsIndependent == Spec => []VerdictsAreIndependent
<1>1. Init => VerdictsInv
  BY DEF Init, VerdictsInv
<1>2. TypeOK /\ VerdictsInv => VerdictsAreIndependent
  <2>. SUFFICES ASSUME TypeOK, VerdictsInv, pc = "done", SetUp(msg),
                       NEW i \in DOMAIN msg.signers
                PROVE  /\ Listed(i) <=> VerifyingCerts(i) # {}
                       /\ VerifyingCerts(i) # {} /\ (\A c \in VerifyingCerts(i) : Trusted(c))
                            => ListedValid(i)
                       /\ (\A c \in VerifyingCerts(i) : ~Trusted(c)) => ~ListedValid(i)
    BY DEF VerdictsAreIndependent
  <2>1. i \in 1 .. Len(msg.signers)
    BY MessageFacts DEF TypeOK
  <2>2. VerifyingCerts(i) # {} => Listed(i)
    BY <2>1 DEF VerdictsInv, Judged
  <2>3. \A k \in DOMAIN signers : signers[k].signer = i =>
          /\ signers[k].cert \in VerifyingCerts(i)
          /\ signers[k].signature_valid = Trusted(signers[k].cert)
    BY DEF VerdictsInv, Deserved
  <2>. QED  BY <2>2, <2>3 DEF Listed, ListedValid
<1>. QED  BY <1>1, <1>2, TypeCorrect, TypeOKStep, VerdictsStep, PTL DEF Spec

-----------------------------------------------------------------------------
(* Repaired content.                                                       *)

ReportedFor(i) ==
  /\ i \in DOMAIN msg.signers
  /\ DigestMatches(msg.signers[i], signed_content)
  /\ [kind |-> "WildDuckWorkaround", signer |-> i] \in failures
  /\ Listed(i) \/ (pc = "entry" /\ i = idx)

(* Strengthens RepairedContentIsReported: the signer the repair was for is *)
(* listed, or is the one about to be.                                      *)
RepairInv ==
  /\ pc = "begin" => signed_content = None
  /\ signed_content \notin {None, msg.content} => \E i \in DOMAIN msg.signers : ReportedFor(i)

LEMMA RepairStep ==
  ASSUME TypeOK, RepairInv, [Next]_vars
  PROVE  RepairInv'
<1>0. msg' = msg /\ \A i : Listed(i) => Listed(i)'
  BY EntriesGrow
<1>1. CASE RejectContent \/ RejectTrustStore \/ Prepare
  BY <1>0, <1>1 DEF RejectContent, RejectTrustStore, Prepare, ContinueAt, Finish, RepairInv
<1>2. CASE PrepareSigner
  BY <1>0, <1>2 DEF PrepareSigner, ContinueAt, Finish, RepairInv, ReportedFor
<1>3. ASSUME NEW c \in Cert, AcceptCandidate(c) PROVE RepairInv'
  <2>1. pc = "candidates" /\ pc' = "entry" /\ idx' = idx /\ idx \in DOMAIN msg.signers
    BY <1>3, MessageFacts DEF AcceptCandidate, TypeOK
  <2>2. CASE VerifiesNormalized(msg, signer, c)
    <3>1. /\ signed_content' = msg.normalized
          /\ failures' = failures \union Failures({"WildDuckWorkaround"}, idx)
      BY <1>3, <2>2 DEF AcceptCandidate
    <3>2. DigestMatches(msg.signers[idx], msg.normalized)
      BY <2>2 DEF VerifiesNormalized, signer
    <3>3. [kind |-> "WildDuckWorkaround", signer |-> idx] \in failures'
      BY <3>1 DEF Failures
    <3>. QED  BY <1>0, <2>1, <3>1, <3>2, <3>3 DEF RepairInv, ReportedFor
  <2>3. CASE ~VerifiesNormalized(msg, signer, c)
    <3>1. signed_content' = signed_content /\ failures' = failures
      BY <1>3, <2>3 DEF AcceptCandidate
    <3>. QED  BY <1>0, <2>1, <3>1 DEF RepairInv, ReportedFor
  <2>. QED  BY <2>2, <2>3
<1>4. ASSUME NEW c \in Cert, RejectCandidate(c) PROVE RepairInv'
  BY <1>0, <1>4 DEF RejectCandidate, ContinueAt, Finish, RepairInv, ReportedFor
<1>5. CASE AddSigner
  <2>1. \E k \in DOMAIN signers' : signers'[k].signer = idx
    <3>1. PICK e : signers' = Append(signers, e) /\ e.signer = idx
      BY <1>5 DEF AddSigner
    <3>2. Len(signers) + 1 \in DOMAIN signers' /\ signers'[Len(signers) + 1] = e
      BY <3>1 DEF TypeOK
    <3>. QED  BY <3>1, <3>2
  <2>2. /\ signed_content' = signed_content /\ failures \subseteq failures'
        /\ pc = "entry" /\ pc' # "begin"
    BY <1>5 DEF AddSigner, ContinueAt, Finish
  <2>3. \A i \in DOMAIN msg.signers : ReportedFor(i) => ReportedFor(i)'
    <3>1. ASSUME NEW i, ReportedFor(i)  PROVE Listed(i)'
      BY <1>0, <2>1, <3>1 DEF ReportedFor, Listed
    <3>. QED  BY <1>0, <2>2, <3>1 DEF ReportedFor
  <2>. QED  BY <1>0, <2>2, <2>3 DEF RepairInv
<1>6. CASE UNCHANGED vars
  BY <1>6 DEF vars, RepairInv, ReportedFor, Listed
<1>. QED  BY <1>1, <1>2, <1>3, <1>4, <1>5, <1>6 DEF Next

(* Whatever the content, its repair and the signers: content other than    *)
(* what was found in the message is only handed out on the word of a       *)
(* listed signer whose digest is of it, and with the warning.              *)
THEOREM RepairReported == Spec => []RepairedContentIsReported
<1>1. Init => RepairInv
  BY DEF Init, RepairInv
<1>2. RepairInv => RepairedContentIsReported
  BY DEF RepairInv, ReportedFor, RepairedContentIsReported
<1>. QED  BY <1>1, <1>2, TypeCorrect, TypeOKStep, RepairStep, PTL DEF Spec

=============================================================================
