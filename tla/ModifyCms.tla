------------------------------ MODULE ModifyCms ------------------------------
(***************************************************************************)
(* The tool modify-cms (src/modify_cms.rs): `modify` adds certificates, a  *)
(* CRL and an OCSP response to the SignedData in a mail, and `ber-to-der`  *)
(* rewrites all PKCS#7 content of one as DER, in place.                    *)
(*                                                                         *)
(* CRL and OCSP response come from a file or from the URLs in the signer's *)
(* certificate; any server may answer anything.                            *)
(* Parsing, signatures and encodings are abstract: a certificate is signed *)
(* by whom it names as its issuer.                                         *)
(***************************************************************************)
EXTENDS MailFiles

CONSTANTS
  Url,
  FetchableUrl,    \* those validate_fetch_url lets pass: http and https
  UrlsIn           \* what get_crl_urls and get_ocsp_urls find in the certificate of a subject

ASSUME UrlsAssumption == UrlsIn \in [{"crl", "ocsp"} \X Name -> Seq(Url)]

VARIABLES
  job,      \* the arguments: [tool, eml, output, cert, certPath, crlPath, ocspPath, ocsp]
  mail,     \* the file as it was read
  servers,  \* what comes of asking a URL: "error", "empty", Junk, or something in DER
  work,     \* signed_data with what was added so far; for ber-to-der `result`
  head,     \* the headers of the mail to be written
  subject,  \* the certificate the URLs are in
  todo,     \* URLs not asked yet; for ber-to-der the parts not yet rewritten
  fetched,  \* what was read or fetched for the current stage, None until then
  stage     \* "idle" | "parse" | "certs" | "crl" | "ocsp" | "write" | "rewrite" | "ok" | "failed"

modifyVars == <<job, mail, servers, work, head, subject, todo, fetched, stage>>

Stages == {"idle", "parse", "certs", "crl", "ocsp", "write", "rewrite", "ok", "failed"}

ModifyCall ==
  [tool : {"modify", "ber-to-der"}, eml : Path, output : Path, cert : Path, certPath : Path \union {None},
   crlPath : Path \union {None}, ocsp : BOOLEAN, ocspPath : Path \union {None}]

(* What a server may send, and what of it can be added.                    *)
Sent == {"empty", Junk} \union RevocationInfo

-----------------------------------------------------------------------------
IsPkcs7Mime(header) == header.kind = "pkcs7-mime"
IsPkcs7(header) == header.kind \in {"pkcs7-mime", "pkcs7-signature"}    \* is_pkcs7_content_type

Fail == stage' = "failed" /\ UNCHANGED <<job, mail, servers, work, head, subject, todo, fetched, disk>>

ModifyInit ==
  /\ job = None /\ mail = <<>> /\ servers = <<>> /\ work = None /\ head = None /\ subject = None
  /\ todo = <<>> /\ fetched = None /\ stage = "idle"

(* main, and the reading of the mail, which may not be there or not parse. *)
StartModifyCms(j, answers) ==
  /\ job' = j /\ mail' = MailIn(disk[j.eml]) /\ servers' = answers
  /\ stage' = IF MailIn(disk[j.eml]) = Junk THEN "failed" ELSE "parse"
  /\ work' = None /\ head' = None /\ subject' = None /\ todo' = <<>> /\ fetched' = None

-----------------------------------------------------------------------------
(* run_modify                                                              *)

(* Mutant: From is not among the headers that are kept.                    *)
HeaderWithoutFrom(header, cms) ==
  [header EXCEPT !.extra = FALSE, !.from = None, !.date = IF @ = None THEN cms.signingTime ELSE @]

(* The headers that are kept, and a Date from the signing time, if the     *)
(* message has one, where there is none among them.                        *)
FilteredHeader(header, cms) ==
  [header EXCEPT !.extra = FALSE, !.date = IF @ = None THEN cms.signingTime ELSE @]

ParseSigned ==
  /\ stage = "parse" /\ job.tool = "modify"
  /\ LET part == FirstPart(mail, IsPkcs7Mime)
         cms == DerOfCms(Contents(mail, part))
     IN IF part = None THEN Fail
        ELSE IF cms = None THEN Fail
        ELSE IF cms.type # "signed" THEN Fail
        ELSE /\ work' = cms
             /\ head' = FilteredHeader(part.header, cms)
             /\ stage' = "certs"
             /\ UNCHANGED <<job, mail, servers, subject, todo, fetched, disk>>

(* The PEM files with certificates to add, in the order they are read; the *)
(* other choices there are for a SignedData are not parsed.                *)
CertificateIn(p) == IF disk[p] \in Choice /\ disk[p].kind = "Certificate" THEN disk[p] ELSE Junk
AddedCertificates ==
  IF job.certPath = None THEN <<CertificateIn(job.cert)>>
  ELSE <<CertificateIn(job.cert), CertificateIn(job.certPath)>>

(* get_crl_urls and get_ocsp_urls: nothing for a certificate without, or   *)
(* with malformed, extensions.                                             *)
UrlsOf(kind, from) == UrlsIn[kind, from.subject]

(* validate_fetch_url *)
MayFetch(url) == url \in FetchableUrl

(* Either a file is read, which may be in DER, or the URLs are about to be *)
(* asked.                                                                  *)
DerIn(p) == IF disk[p] \in Sent THEN disk[p] ELSE Junk
BeginFetch(kind, path, from) ==
  IF path # None
  THEN todo' = <<>> /\ fetched' = DerIn(path)
  ELSE todo' = UrlsOf(kind, from) /\ fetched' = None

(* The certificates are added.  The first certificate there is, which need *)
(* not be a signer's, has to be signed by the one in args.cert; an         *)
(* unreadable file for the CRL is an error as well.                        *)
AddCertificates ==
  /\ stage = "certs"
  /\ LET certs == work.certs \o AddedCertificates IN
     IF Junk \in ToSet(AddedCertificates) THEN Fail
     ELSE IF certs[1].kind # "Certificate" \/ certs[1].issuer # AddedCertificates[1].subject THEN Fail
     ELSE IF job.crlPath # None /\ disk[job.crlPath] = None THEN Fail
     ELSE /\ work' = [work EXCEPT !.certs = certs]
          /\ subject' = certs[1]
          /\ BeginFetch("crl", job.crlPath, certs[1])
          /\ stage' = "crl"
          /\ UNCHANGED <<job, mail, servers, head, disk>>

(* Mutant: the last answer is taken.                                       *)
AskEveryUrl ==
  /\ stage \in {"crl", "ocsp"} /\ todo # <<>>
  /\ todo' = Tail(todo)
  /\ IF MayFetch(todo[1]) /\ servers[todo[1]] # "error"
     THEN fetched' = servers[todo[1]] ELSE UNCHANGED fetched
  /\ UNCHANGED <<job, mail, servers, work, head, subject, stage, disk>>

(* Mutant: a server that fails is asked again when the others have been.   *)
AskAgainLater ==
  /\ stage \in {"crl", "ocsp"} /\ fetched = None /\ todo # <<>>
  /\ IF ~MayFetch(todo[1])
     THEN todo' = Tail(todo) /\ UNCHANGED fetched
     ELSE IF servers[todo[1]] = "error"
     THEN todo' = Append(Tail(todo), todo[1]) /\ UNCHANGED fetched
     ELSE todo' = <<>> /\ fetched' = servers[todo[1]]
  /\ UNCHANGED <<job, mail, servers, work, head, subject, stage, disk>>

(* One turn of either loop over URLs.  A URL with another scheme, a server *)
(* that cannot be reached or answers with an error, and a body that breaks *)
(* off pass on to the next URL; any body at all ends the loop.             *)
AskNextUrl ==
  /\ stage \in {"crl", "ocsp"} /\ fetched = None /\ todo # <<>>
  /\ IF ~MayFetch(todo[1])
     THEN todo' = Tail(todo) /\ UNCHANGED fetched
     ELSE IF servers[todo[1]] = "error"
     THEN todo' = Tail(todo) /\ UNCHANGED fetched
     ELSE todo' = <<>> /\ fetched' = servers[todo[1]]
  /\ UNCHANGED <<job, mail, servers, work, head, subject, stage, disk>>

(* Mutant: what there was before is dropped.                               *)
AddedAlone(cms, choice) == [cms EXCEPT !.crls = <<choice>>]

Added(cms, choice) == [cms EXCEPT !.crls = @ \o <<choice>>]

(* What came of it: nothing, or an empty body, adds nothing; what is no    *)
(* DER is an error; anything else is added without being looked at.        *)
Fetched == fetched # None \/ todo = <<>>
AddsNothing(f) == f \in {None, "empty"}
OcspInfo(f) == IF f = "Crl" THEN "OtherInfo" ELSE f    \* whatever it is, it is added as OCSP

AddCrl ==
  /\ stage = "crl" /\ Fetched
  /\ IF fetched = Junk THEN Fail
     ELSE IF job.ocsp /\ job.ocspPath # None /\ disk[job.ocspPath] = None THEN Fail
     ELSE /\ work' = IF AddsNothing(fetched) THEN work ELSE Added(work, "Crl")
          /\ IF job.ocsp THEN stage' = "ocsp" /\ BeginFetch("ocsp", job.ocspPath, subject)
                         ELSE stage' = "write" /\ UNCHANGED <<todo, fetched>>
          /\ UNCHANGED <<job, mail, servers, head, subject, disk>>

AddOcspResponse ==
  /\ stage = "ocsp" /\ Fetched
  /\ IF fetched = Junk THEN Fail
     ELSE /\ work' = IF AddsNothing(fetched) THEN work ELSE Added(work, OcspInfo(fetched))
          /\ stage' = "write"
          /\ UNCHANGED <<job, mail, servers, head, subject, todo, fetched, disk>>

(* Mutant: the other revocation information is not looked for.             *)
OldVersion(cms) ==
  LET kinds == CertificateKinds(cms) IN
  IF "OtherCertificate" \in kinds THEN 5
  ELSE IF "V2AttrCert" \in kinds THEN 4
  ELSE IF "V1AttrCert" \in kinds THEN 3
  ELSE Max({cms.version, 1})

(* The version of what is written; that of the input stands for all that   *)
(* is not looked at here.                                                  *)
NewVersion(cms) ==
  LET kinds == CertificateKinds(cms) IN
  IF "OtherCertificate" \in kinds \/ HasOtherCrl(cms) THEN 5
  ELSE IF "V2AttrCert" \in kinds THEN 4
  ELSE IF "V1AttrCert" \in kinds THEN 3
  ELSE Max({cms.version, 1})

(* The encoder sorts the sets.                                             *)
Encoded(cms) == [cms EXCEPT !.version = NewVersion(cms), !.certs = InDer(@)]

Finish(content) ==
  IF job.output \in ReadOnly THEN Fail
  ELSE /\ Written(job.output, content)
       /\ stage' = "ok"
       /\ UNCHANGED <<job, mail, servers, work, head, subject, todo, fetched>>

WriteModified ==
  /\ stage = "write"
  /\ Finish(Headed(head) \o Rendered(Body("base64", Encoded(work))))

-----------------------------------------------------------------------------
(* ber_to_der                                                              *)

(* Mutant: the parts are taken from the front.                             *)
FromTheFront(parts) == parts

(* sort_by offset_body, the last part first.                               *)
FromTheBack(parts) == InOrder(ToSet(parts), LAMBDA a, b : b.offset_body < a.offset_body)

BeginRewrite ==
  /\ stage = "parse" /\ job.tool = "ber-to-der"
  /\ LET parts == PartsWith(mail, IsPkcs7) IN
     IF parts = <<>> THEN Fail
     ELSE /\ todo' = FromTheBack(parts) /\ work' = mail /\ stage' = "rewrite"
          /\ UNCHANGED <<job, mail, servers, head, subject, fetched, disk>>

(* Mutant: the last token of the body stays behind.                        *)
SplicedShort(text, part, body) ==
  SubSeq(text, 1, part.offset_body) \o Rendered(body) \o SubSeq(text, part.offset_end, Len(text))

(* The offsets are those of the mail as it was read.                       *)
Spliced(text, part, body) ==
  SubSeq(text, 1, part.offset_body) \o Rendered(body) \o SubSeq(text, part.offset_end + 1, Len(text))

RewritePart ==
  /\ stage = "rewrite" /\ todo # <<>>
  /\ LET der == DerOfCms(Contents(mail, todo[1])) IN
     IF der = None THEN Fail
     ELSE /\ work' = Spliced(work, todo[1], Body("base64", der))
          /\ todo' = Tail(todo)
          /\ UNCHANGED <<job, mail, servers, head, subject, fetched, stage, disk>>

WriteRewritten ==
  /\ stage = "rewrite" /\ todo = <<>>
  /\ Finish(work)

ModifyStep ==
  \/ ParseSigned \/ AddCertificates \/ AskNextUrl \/ AddCrl \/ AddOcspResponse \/ WriteModified
  \/ BeginRewrite \/ RewritePart \/ WriteRewritten

-----------------------------------------------------------------------------
(* Properties                                                              *)

ModifyTypeOK ==
  /\ stage \in Stages
  /\ stage \in {"certs", "crl", "ocsp", "write"} => job.tool = "modify"
  /\ stage \in {"crl", "ocsp"} => todo \in Seq(Url) /\ (fetched # None => todo = <<>>)
  /\ stage = "ocsp" => job.ocsp
  /\ stage = "rewrite" => job.tool = "ber-to-der" /\ todo \in Seq(ToSet(Parts(mail)))
  /\ stage # "idle" => job \in ModifyCall /\ servers \in [Url -> {"error"} \union Sent]
  /\ stage \notin {"idle", "failed"} => mail \in Mail
  /\ stage \in {"certs", "crl", "ocsp", "write"} => work \in SignedData /\ head \in MailHeader
  /\ stage \in {"crl", "ocsp"} => fetched \in Sent \union {None} /\ subject \in Choice

(* What is in a mail as the first application/pkcs7-mime part, and what    *)
(* was written in its place, whichever encoding the header claims.         *)
OriginalCms == DerOfCms(Contents(mail, FirstPart(mail, IsPkcs7Mime)))
ModifiedCms == disk[job.output][2].of.content

Modified == stage = "ok" /\ job.tool = "modify"
Rewritten == stage = "ok" /\ job.tool = "ber-to-der"

(* Whatever the tool adds, a message of the version that RFC 5652 asks for *)
(* has that version afterwards; verify would report any other.             *)
ModifiedStaysConformant ==
  Modified /\ Conformant(OriginalCms) => Conformant(ModifiedCms)

(* What the first server to answer sends, asked in the order of the        *)
(* certificate; a file where one is given.                                 *)
Offered(kind, path) ==
  LET urls == UrlsOf(kind, subject)
      answering == {i \in DOMAIN urls : MayFetch(urls[i]) /\ servers[urls[i]] # "error"}
  IN IF path # None THEN DerIn(path)
     ELSE IF answering = {} THEN None ELSE servers[urls[Min(answering)]]

(* The files of what is added.  One of them can be the output; what it had *)
(* before is then gone.                                                    *)
SourcesOf(j) == {j.cert, j.certPath, j.crlPath, j.ocspPath}

(* The message keeps all it had, but for version and order of the sets,    *)
(* and has what was to be added, from the first source that had it.        *)
ModifiedIsComplete ==
  Modified /\ job.output \notin SourcesOf(job) =>
    LET crl == Offered("crl", job.crlPath)
        ocsp == Offered("ocsp", job.ocspPath)
        crls == (IF AddsNothing(crl) THEN <<>> ELSE <<"Crl">>)
                  \o (IF ~job.ocsp \/ AddsNothing(ocsp) THEN <<>> ELSE <<OcspInfo(ocsp)>>)
    IN [ModifiedCms EXCEPT !.version = OriginalCms.version] =
         [OriginalCms EXCEPT !.certs = InDer(@ \o AddedCertificates), !.crls = @ \o crls]

(* `ber-to-der` changes nothing but the PKCS#7 contents: splices land      *)
(* where the parts are, however the ones behind them have moved, and each  *)
(* is the DER of what the part had.                                        *)
RewrittenInPlace ==
  Rewritten =>
    LET before == Parts(mail)
        after == Parts(disk[job.output])
    IN /\ Len(after) = Len(before)
       /\ \A i \in DOMAIN before :
            /\ after[i].header = before[i].header
            /\ before[i].header.encoding = "base64" \/ ~IsPkcs7(before[i].header) =>
                 Contents(disk[job.output], after[i]) =
                   IF IsPkcs7(before[i].header) THEN DerOfCms(Contents(mail, before[i]))
                   ELSE Contents(mail, before[i])

(* "Rewrite PKCS#7 content in an .eml file from BER to DER encoding", says *)
(* its help: afterwards every such part reads as DER.                      *)
RewrittenIsDer ==
  Rewritten =>
    \A i \in DOMAIN Parts(disk[job.output]) :
      LET part == Parts(disk[job.output])[i]
      IN IsPkcs7(part.header) => IsDer(Contents(disk[job.output], part))

=============================================================================
