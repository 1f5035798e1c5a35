--------------------------- MODULE ValidationProxy ---------------------------
(***************************************************************************)
(* The validation proxy (src/validation-proxy/main.rs): one request to     *)
(* /ocsp or /crl, from the checks of its certificates over the fetches to  *)
(* the answer.  Handlers share nothing but a connection pool, so that one  *)
(* request stands for all.  The servers it fetches from are not trusted    *)
(* and send what they like, replays included; a fetch that brings nothing  *)
(* ends with the client's timeout.  Utc::now() is a wall clock, which may  *)
(* be set between any two steps, and an OCSP answer reads it twice.        *)
(*                                                                         *)
(* Abstractions.  The checks of an 8 hour minimum and of 10 days are for   *)
(* subscriber certificates, which require_ca_cert has refused.  No nonce   *)
(* is sent, the only call of create_ocsp_request asks for none.  An answer *)
(* is its HTTP status code and what it says of the certificate.            *)
(***************************************************************************)
EXTENDS OcspResponse

CONSTANTS
  Unusable,         \* no parsable body; of OCSP, an unsuccessful one as well
  MaxOcspInterval,  \* days from thisUpdate to nextUpdate
  MaxCrlInterval,
  Request, OcspBody, CrlBody

Requests ==
  [kind     : {"ocsp", "crl"},
   decodes  : BOOLEAN,                    \* both certificates are there and parse
   cert     : Certificate,
   issuer   : Certificate,
   ca       : BOOLEAN,                    \* basicConstraints of cert
   urls     : Seq({"http", "other"}),     \* of cert, by their scheme
   keyUsage : {"absent", "crlSign", "other", "malformed"}]   \* of issuer

Crl ==
  [issuer       : Subject,
   wellFormed   : BOOLEAN,                \* its extensions
   aki          : Key \union {None},
   algPermitted : BOOLEAN,
   signedBy     : Key,
   thisUpdate   : Time \union {None},
   nextUpdate   : Time \union {None, Absent},
   revoked      : SUBSET Serial]

ASSUME ProxyAssumption ==
  /\ None \notin {200, 400, 401, 500}
  /\ Unusable \notin OcspBody \union CrlBody
  /\ MaxOcspInterval \in Nat /\ MaxCrlInterval \in Nat
  /\ Request \subseteq Requests /\ OcspBody \subseteq Staple /\ CrlBody \subseteq Crl

VARIABLES
  request,
  clock,
  pc,          \* "new" | "url" | "received" | "verified" | "answered"
  url,         \* position in request.urls
  body,        \* last one received
  checked_at,  \* the clock when the signature was checked
  answer       \* [code, status]

vars == <<request, clock, pc, url, body, checked_at, answer>>

cert == request.cert
issuer == request.issuer

-----------------------------------------------------------------------------
(* HTTP status codes of the checks; 200 goes on.                           *)

(* decode_cert, require_ca_cert, verify_cert_issued_by, validate_fetch_url *)
RequestCode(r) ==
  IF ~r.decodes \/ ~r.ca \/ r.cert.issuer # r.issuer.subject THEN 400
  ELSE IF ~AkiMatches(r.cert, r.issuer) THEN 401
  ELSE IF \/ ~r.issuer.keyParses \/ r.cert.signedBy # r.issuer.key
          \/ r.urls = <<>> \/ (r.kind = "ocsp" /\ Head(r.urls) # "http") THEN 400
  ELSE 200

(* verify_crl_signature *)
CrlSignatureCode(crl) ==
  IF crl.issuer # issuer.subject THEN 401
  ELSE IF ~crl.wellFormed THEN 500
  ELSE IF ~AkiMatches(crl, issuer) THEN 401
  ELSE IF request.keyUsage = "malformed" THEN 500
  ELSE IF request.keyUsage = "other" THEN 401
  ELSE IF ~crl.algPermitted \/ crl.signedBy # issuer.key THEN 401
  ELSE 200

SignatureCode ==
  IF request.kind = "crl" THEN CrlSignatureCode(body)
  ELSE IF SignerOf(body, issuer, clock) = None THEN 401 ELSE 200

(* Mutant: an interval of just the maximum is refused.                     *)
IntervalReaches(this, next, max) == next - this >= max

IntervalExceeds(this, next, max) == next - this > max

(* The window of a CRL or a single response at a time.                     *)
WindowCode(b, max, unparsable, t) ==
  IF b.nextUpdate = Absent THEN 200
  ELSE IF b.thisUpdate = None \/ b.nextUpdate = None THEN unparsable
  ELSE IF \/ IntervalExceeds(b.thisUpdate, b.nextUpdate, max)
          \/ t < b.thisUpdate \/ t > b.nextUpdate THEN 401
  ELSE 200

(* Mutant: the first single response is taken whatever it is about.        *)
FirstOcspCode(t) ==
  IF body.singles = <<>> THEN 500
  ELSE WindowCode(Head(body.singles), MaxOcspInterval, 401, t)

OcspCode(t) ==
  IF body.singles = <<>> THEN 500
  ELSE IF ~CertIdMatches(Head(body.singles).certId, cert, issuer) THEN 401
  ELSE WindowCode(Head(body.singles), MaxOcspInterval, 401, t)

ContentCode(t) ==
  IF request.kind = "crl" THEN WindowCode(body, MaxCrlInterval, 500, t) ELSE OcspCode(t)

Verdict ==
  IF request.kind = "ocsp" THEN Head(body.singles).status
  ELSE IF cert.serial \in body.revoked THEN "Revoked" ELSE "Good"

-----------------------------------------------------------------------------
(* The handlers.                                                           *)

Init ==
  /\ request \in Request /\ clock \in Time
  /\ pc = "new" /\ url = 1
  /\ body = Unusable /\ checked_at = None
  /\ answer = [code |-> None, status |-> None]

Answer(code, status) ==
  /\ pc' = "answered"
  /\ answer' = [code |-> code, status |-> status]

RefuseRequest ==
  /\ pc = "new" /\ RequestCode(request) # 200
  /\ Answer(RequestCode(request), None)
  /\ UNCHANGED <<request, clock, url, body, checked_at>>

AcceptRequest ==
  /\ pc = "new" /\ RequestCode(request) = 200
  /\ pc' = "url"
  /\ UNCHANGED <<request, clock, url, body, checked_at, answer>>

AtUrl == pc = "url" /\ url <= Len(request.urls)

(* Mutant: `continue` before the iterator has moved on.                    *)
SameUrl ==
  /\ pc' = "url" /\ body' = Unusable
  /\ UNCHANGED url

(* Mutant: the iterator moves on twice.                                    *)
SecondNextUrl ==
  /\ pc' = "url" /\ url' = url + 2 /\ body' = Unusable

NextUrl ==
  /\ pc' = "url" /\ url' = url + 1 /\ body' = Unusable

(* No body that can be used from this URL: the next one is tried, which    *)
(* for OCSP there is not.                                                  *)
Failover ==
  \/ request.kind = "crl" /\ NextUrl /\ UNCHANGED answer
  \/ request.kind = "ocsp" /\ Answer(500, None) /\ UNCHANGED <<url, body>>

SkipUrl ==
  /\ AtUrl /\ request.urls[url] # "http"
  /\ NextUrl
  /\ UNCHANGED <<request, clock, checked_at, answer>>

(* send or bytes fails, after the timeout at the latest.                   *)
FetchFails ==
  /\ AtUrl /\ request.urls[url] = "http"
  /\ Failover
  /\ UNCHANGED <<request, clock, checked_at>>

Receive ==
  /\ AtUrl /\ request.urls[url] = "http"
  /\ body' \in (IF request.kind = "crl" THEN CrlBody ELSE OcspBody) \union {Unusable}
  /\ pc' = "received"
  /\ UNCHANGED <<request, clock, url, checked_at, answer>>

DropBody ==
  /\ pc = "received" /\ body = Unusable
  /\ Failover
  /\ UNCHANGED <<request, clock, checked_at>>

CheckSignature ==
  /\ pc = "received" /\ body # Unusable
  /\ checked_at' = clock
  /\ \/ SignatureCode = 200 /\ pc' = "verified" /\ UNCHANGED answer
     \/ SignatureCode # 200 /\ Answer(SignatureCode, None)
  /\ UNCHANGED <<request, clock, url, body>>

(* Mutant: the time of the first check is used for the second.             *)
CheckContentThen ==
  /\ pc = "verified"
  /\ \/ ContentCode(checked_at) = 200 /\ Answer(200, Verdict)
     \/ ContentCode(checked_at) # 200 /\ Answer(ContentCode(checked_at), None)
  /\ UNCHANGED <<request, clock, url, body, checked_at>>

CheckContent ==
  /\ pc = "verified"
  /\ \/ ContentCode(clock) = 200 /\ Answer(200, Verdict)
     \/ ContentCode(clock) # 200 /\ Answer(ContentCode(clock), None)
  /\ UNCHANGED <<request, clock, url, body, checked_at>>

OutOfUrls ==
  /\ pc = "url" /\ url > Len(request.urls)
  /\ Answer(500, None)
  /\ UNCHANGED <<request, clock, url, body, checked_at>>

SetClock ==
  /\ pc # "answered"
  /\ clock' \in Time
  /\ UNCHANGED <<request, pc, url, body, checked_at, answer>>

(* What the proxy does by itself; Receive and SetClock are up to others.   *)
Handle ==
  \/ RefuseRequest \/ AcceptRequest \/ SkipUrl \/ FetchFails \/ DropBody
  \/ CheckSignature \/ CheckContent \/ OutOfUrls

Next == Handle \/ Receive \/ SetClock

Spec == Init /\ [][Next]_vars /\ WF_vars(Handle)

-----------------------------------------------------------------------------
(* Properties                                                              *)

TypeOK ==
  /\ request \in Request /\ clock \in Time
  /\ pc \in {"new", "url", "received", "verified", "answered"}
  /\ url \in 1 .. Len(request.urls) + 1
  /\ body \in OcspBody \union CrlBody \union {Unusable}
  /\ checked_at \in Time \union {None}
  /\ answer \in [code : {200, 400, 401, 500, None}, status : Status \union {None}]

(* Someone who may speak for the issuer made this OCSP response: its key,  *)
(* while its certificate was valid, or a responder's that it authorized.   *)
MadeForIssuer(staple) ==
  \/ staple.signedBy = issuer.key /\ ValidAt(issuer, checked_at)
  \/ \E k \in DOMAIN staple.certs :
       LET c == staple.certs[k] IN
       /\ staple.signedBy = c.key /\ ValidAt(c, checked_at)
       /\ c.signedBy = issuer.key /\ c.ocspSigning

(* Whatever the servers send, and whichever URL it comes from: an answer   *)
(* is what the issuer of the certificate, or a responder of its, signed    *)
(* about this certificate; and the certificate is one of the issuer's.     *)
AnswerIsAuthentic ==
  answer.code = 200 =>
    /\ request.ca /\ cert.signedBy = issuer.key
    /\ request.kind = "ocsp" =>
         \E n \in DOMAIN body.singles :
           /\ MadeForIssuer(body)
           /\ body.singles[n].certId.serial = cert.serial
           /\ body.singles[n].certId.issuerKey = issuer.key
           /\ body.singles[n].status = answer.status
    /\ request.kind = "crl" =>
         /\ body.signedBy = issuer.key /\ body.issuer = cert.issuer
         /\ answer.status = "Revoked" <=> cert.serial \in body.revoked

(* An answer is current when it is given, even if the clock has moved      *)
(* since the signature was checked; and what was signed is never older     *)
(* than the longest interval allowed.                                      *)
AnswerIsCurrent ==
  answer.code = 200 =>
    LET b == IF request.kind = "crl" THEN body ELSE Head(body.singles)
        max == IF request.kind = "crl" THEN MaxCrlInterval ELSE MaxOcspInterval
    IN b.nextUpdate # Absent =>
         clock \in b.thisUpdate .. b.nextUpdate /\ clock - b.thisUpdate <= max

(* The proxy and the verifier judge the same response alike, when the      *)
(* proxy reads the clock as if once, the response has a nextUpdate and an  *)
(* interval that the proxy allows, and its first status is about cert.     *)
AgreesWithStapled ==
  pc = "answered" /\ request.kind = "ocsp" /\ body # Unusable =>
    LET first == Head(body.singles)
        stapled == StapleStatus(body, cert, issuer, clock)
    IN /\ body.singles # <<>>
       /\ checked_at = clock
       /\ first.nextUpdate # Absent
       /\ CertIdMatches(first.certId, cert, issuer)
       => /\ answer.code = 200 => stapled = answer.status
          /\ stapled # None /\ first.nextUpdate - first.thisUpdate <= MaxOcspInterval
               => answer.code = 200

(* Every request is answered, even if no server ever replies.              *)
RequestsAreAnswered == (pc = "new") ~> (pc = "answered")

=============================================================================
