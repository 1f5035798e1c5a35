------------------------------ MODULE MailFiles ------------------------------
(***************************************************************************)
(* The files the command line tools share, and the mail in them.           *)
(*                                                                         *)
(* Mail is a sequence of tokens: a header token begins each MIME part, and *)
(* the tokens of its body follow, fewer of them for DER in base64 than for *)
(* what else there is, so that replacing a body moves all that is behind   *)
(* it.  A body is read as the transfer encoding of its header says; text   *)
(* in another encoding, or a part of a body, is Junk.                      *)
(***************************************************************************)
EXTENDS Integers, SequencesExt, CmsVersion

CONSTANTS
  None,       \* Option::None, and no file
  Junk,       \* what cannot be parsed
  Path,
  ReadOnly,   \* paths that cannot be written
  Name,       \* of certificates' subjects and issuers, and of senders
  Date,
  Secret,     \* keys and passwords
  Plain,      \* texts
  Payload     \* mail inside CMS objects

ASSUME FilesAssumption == ReadOnly \subseteq Path /\ None \notin Path

VARIABLE disk    \* what is at each path

Written(p, content) == disk' = [disk EXCEPT ![p] = content]

(* The elements of a finite set, in the order in which Before holds.       *)
InOrder(S, Before(_, _)) ==
  [n \in 1 .. Cardinality(S) |-> CHOOSE x \in S : Cardinality({y \in S : Before(y, x)}) = n - 1]

-----------------------------------------------------------------------------
(* A CMS object.  Among the features of a SignedData is what RFC 5652 asks *)
(* a higher version for besides its certificates and revocation            *)
(* information; a certificate choice is ordered by rank when in DER.       *)

Form == {"BER", "DER"}
Choice ==
  [kind : {"Certificate", "V1AttrCert", "V2AttrCert", "OtherCertificate"},
   subject : Name, issuer : Name, rank : Nat]

(* What there is besides CRLs in the field `crls`.                         *)
OtherRevocationInfo == {"OcspGood", "OcspRevoked", "OtherInfo"}
RevocationInfo == {"Crl"} \union OtherRevocationInfo

SignedData ==
  [type : {"signed"}, form : Form, version : Nat, certs : Seq(Choice), crls : Seq(RevocationInfo),
   keyIdentified : BOOLEAN, signer : Name \union {None}, signingTime : Date \union {None},
   features : SUBSET {"OtherContent"}, payload : Payload]

Recipient == [kind : {"certificate", "password", "kek"}, secret : Secret]
EnvelopedData == [type : {"enveloped"}, form : Form, recipients : SUBSET Recipient, payload : Payload]

(* Elements of a SET OF, sorted by their encodings; the sort is stable.    *)
InDer(certs) ==
  LET Before(i, j) == certs[i].rank < certs[j].rank \/ (certs[i].rank = certs[j].rank /\ i < j)
      order == InOrder(DOMAIN certs, Before)
  IN [n \in DOMAIN certs |-> certs[order[n]]]

(* ber_to_der_cms: None for what is no BER.  What it does to the octets is *)
(* the matter of BerToDer.                                                 *)
DerOfCms(content) ==
  IF content \in SignedData THEN [content EXCEPT !.form = "DER", !.certs = InDer(@)]
  ELSE IF content \in EnvelopedData THEN [content EXCEPT !.form = "DER"]
  ELSE None

CertificateKinds(cms) == {c.kind : c \in ToSet(cms.certs)}
HasOtherCrl(cms) == ToSet(cms.crls) \intersect OtherRevocationInfo # {}

Features(cms) ==
  CertificateKinds(cms) \union cms.features \union (IF HasOtherCrl(cms) THEN {"OtherCrl"} ELSE {})

Conformant(cms) == cms.version = SignedDataVersion(Features(cms), cms.keyIdentified)

-----------------------------------------------------------------------------
(* Tokens.  Of a header, `extra` are the fields nothing reads.             *)

Encoding == {"7bit", "base64", "binary", "quoted-printable"}
MailHeader ==
  [kind : {"text", "pkcs7-mime", "pkcs7-signature", "multipart/signed", "multipart/mixed"},
   encoding : Encoding, from : Name \union {None}, date : Date \union {None}, extra : BOOLEAN]
IsMultipart(header) == header.kind \in {"multipart/signed", "multipart/mixed"}

Content == SignedData \union EnvelopedData \union Plain \union {Junk}
MailBody == [text : Encoding, content : Content]
Body(text, content) == [text |-> text, content |-> content]

IsDer(content) == content \notin Plain \union {Junk} /\ content.form = "DER"
Size(body) == IF body.text = "base64" /\ IsDer(body.content) THEN 2 ELSE 3

Rendered(body) == [i \in 1 .. Size(body) |-> [of |-> body, at |-> i]]
Headed(header) == <<[of |-> header, at |-> 0]>>

Token == [of : MailHeader, at : {0}] \union [of : MailBody, at : 1 .. 3]
Heads(mail) == {i \in DOMAIN mail : mail[i].at = 0}
RootOf(mail) == mail[1].of

(* Only a multipart message has parts besides the first.                   *)
Mail ==
  {m \in Seq(Token) : /\ m # <<>> /\ m[1].at = 0
                      /\ ~IsMultipart(m[1].of) => Heads(m) = {1}}
ASSUME MailAssumption ==
  /\ \A content \in Plain \union {Junk, None} : content \notin SignedData \union EnvelopedData
  /\ Payload \subseteq Mail /\ Junk \notin Mail /\ None \notin Mail

MailIn(content) == IF content \in Mail THEN content ELSE Junk

(* One of mail_parser's parts, by where it begins: the body is what is     *)
(* behind offset_body, up to offset_end.                                   *)
PartAt(mail, i) ==
  [header |-> mail[i].of, offset_body |-> i,
   offset_end |-> Min({j \in Heads(mail) : j > i} \union {Len(mail) + 1}) - 1]

(* Those whose header satisfies Has, in order, and the first of them.      *)
PartsWith(mail, Has(_)) ==
  LET heads == InOrder({i \in Heads(mail) : Has(mail[i].of)}, LAMBDA i, j : i < j)
  IN [n \in DOMAIN heads |-> PartAt(mail, heads[n])]
Parts(mail) == PartsWith(mail, LAMBDA header : TRUE)

FirstPart(mail, Has(_)) ==
  LET heads == {i \in Heads(mail) : Has(mail[i].of)}
  IN IF heads = {} THEN None ELSE PartAt(mail, Min(heads))

(* part.contents() *)
Contents(mail, part) ==
  LET body == SubSeq(mail, part.offset_body + 1, part.offset_end) IN
  IF body # <<>> /\ body = Rendered(body[1].of) /\ body[1].of.text = part.header.encoding
  THEN body[1].of.content
  ELSE Junk

=============================================================================
