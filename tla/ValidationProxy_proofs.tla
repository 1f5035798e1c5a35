------------------------ MODULE ValidationProxy_proofs ------------------------
(***************************************************************************)
(* Proofs about ValidationProxy, for every set of requests, responses and  *)
(* CRLs and for every clock: the type invariant, that an answer is         *)
(* authentic, that it is current, and that it agrees with what the         *)
(* verifier would say of the same response.                                *)
(***************************************************************************)
EXTENDS ValidationProxy, TLAPS, WellFoundedInduction

(* The handler reaches an answer of 200 only by passing every check, and   *)
(* the body it then has is the one whose signature was checked.            *)
Checked ==
  IF request.kind = "crl" THEN CrlSignatureCode(body) = 200
                          ELSE SignerOf(body, issuer, checked_at) # None

RequestPassed == pc \in {"url", "received", "verified"} => RequestCode(request) = 200

UrlFetched == pc \in {"received", "verified"} => url <= Len(request.urls)

BodyOfKind ==
  body \in (IF request.kind = "crl" THEN CrlBody ELSE OcspBody) \union {Unusable}

BodyPassed == pc = "verified" => body # Unusable /\ Checked

AnswerEarned ==
  /\ pc # "answered" => answer.code = None
  /\ answer.code = 200 =>
       /\ RequestCode(request) = 200
       /\ body # Unusable /\ Checked
       /\ ContentCode(clock) = 200 /\ answer.status = Verdict

ProxyInv ==
  TypeOK /\ RequestPassed /\ UrlFetched /\ BodyOfKind /\ BodyPassed /\ AnswerEarned

-----------------------------------------------------------------------------
(* What the checks return.                                                 *)

LEMMA RequestCodeType ==
  ASSUME NEW r
  PROVE  RequestCode(r) \in {200, 400, 401}
BY DEF RequestCode

LEMMA SignatureCodeType == SignatureCode \in {200, 401, 500}
BY DEF SignatureCode, CrlSignatureCode

LEMMA ContentCodeType ==
  ASSUME NEW t
  PROVE  ContentCode(t) \in {200, 401, 500}
BY DEF ContentCode, OcspCode, WindowCode

LEMMA VerdictType ==
  ASSUME request \in Request, BodyOfKind, body # Unusable, NEW t, ContentCode(t) = 200
  PROVE  Verdict \in Status
<1>1. CASE request.kind = "ocsp"
  <2>1. body \in Staple
    BY <1>1, ProxyAssumption DEF BodyOfKind
  <2>2. body.singles # <<>>
    BY <1>1 DEF ContentCode, OcspCode
  <2>3. Head(body.singles) \in Single
    BY <2>1, <2>2 DEF Staple
  <2>. QED  BY <1>1, <2>3 DEF Verdict, Single
<1>2. CASE request.kind # "ocsp"
  BY <1>2 DEF Verdict, Status
<1>. QED  BY <1>1, <1>2

-----------------------------------------------------------------------------
(* The invariant.                                                          *)

LEMMA ProxyInit == Init => ProxyInv
<1>. SUFFICES ASSUME Init PROVE ProxyInv
  OBVIOUS
<1>1. request.urls \in Seq({"http", "other"})
  BY ProxyAssumption DEF Init, Requests
<1>2. url \in 1 .. Len(request.urls) + 1
  BY <1>1 DEF Init
<1>3. TypeOK
  BY <1>2 DEF Init, TypeOK
<1>. QED
  BY <1>3, ProxyAssumption DEF Init, ProxyInv, RequestPassed, UrlFetched, BodyOfKind, BodyPassed, AnswerEarned

LEMMA ProxyStep == ProxyInv /\ [Next]_vars => ProxyInv'
<1>. SUFFICES ASSUME ProxyInv, [Next]_vars PROVE ProxyInv'
  OBVIOUS
<1>. USE DEF ProxyInv
<1>1. CASE RefuseRequest
  <2>1. RequestCode(request) \in {400, 401}
    BY <1>1, RequestCodeType DEF RefuseRequest
  <2>2. answer' = [code |-> RequestCode(request), status |-> None] /\ pc' = "answered"
        /\ UNCHANGED <<request, clock, url, body, checked_at>>
    BY <1>1 DEF RefuseRequest, Answer
  <2>3. TypeOK'
    BY <2>1, <2>2 DEF TypeOK
  <2>. QED  BY <2>1, <2>2, <2>3 DEF RequestPassed, UrlFetched, BodyOfKind, BodyPassed, AnswerEarned
<1>2. CASE AcceptRequest
  <2>1. TypeOK'
    BY <1>2 DEF AcceptRequest, TypeOK
  <2>. QED
    BY <1>2, <2>1, ProxyAssumption
       DEF AcceptRequest, RequestPassed, UrlFetched, BodyOfKind, BodyPassed, AnswerEarned
<1>3. ASSUME NextUrl, UNCHANGED <<request, clock, checked_at, answer>>,
             pc # "answered", pc # "new", url <= Len(request.urls)
      PROVE  ProxyInv'
  <2>1. request.urls \in Seq({"http", "other"})
    BY ProxyAssumption DEF TypeOK, Requests
  <2>2. url' \in 1 .. Len(request'.urls) + 1
    BY <1>3, <2>1 DEF NextUrl, TypeOK
  <2>3. TypeOK'
    BY <1>3, <2>2 DEF NextUrl, TypeOK
  <2>. QED
    BY <1>3, <2>3, ProxyAssumption
       DEF NextUrl, TypeOK, RequestPassed, UrlFetched, BodyOfKind, BodyPassed, AnswerEarned
<1>4. CASE SkipUrl
  BY <1>3, <1>4 DEF SkipUrl, AtUrl
<1>5. ASSUME Answer(500, None), UNCHANGED <<request, clock, url, body, checked_at>>
      PROVE  ProxyInv'
  <2>1. answer' = [code |-> 500, status |-> None] /\ pc' = "answered"
    BY <1>5 DEF Answer
  <2>2. TypeOK'
    BY <1>5, <2>1 DEF TypeOK
  <2>. QED  BY <1>5, <2>1, <2>2 DEF RequestPassed, UrlFetched, BodyOfKind, BodyPassed, AnswerEarned
<1>6. CASE FetchFails
  BY <1>3, <1>5, <1>6 DEF FetchFails, Failover, AtUrl
<1>7. CASE Receive
  <2>1. TypeOK'
    BY <1>7 DEF Receive, TypeOK
  <2>. QED
    BY <1>7, <2>1, ProxyAssumption
       DEF Receive, AtUrl, RequestPassed, UrlFetched, BodyOfKind, BodyPassed, AnswerEarned
<1>8. CASE DropBody
  BY <1>3, <1>5, <1>8 DEF DropBody, Failover, UrlFetched
<1>9. CASE CheckSignature
  <2>1. UNCHANGED <<request, clock, url, body>> /\ checked_at' = clock /\ body # Unusable
        /\ pc = "received"
    BY <1>9 DEF CheckSignature
  <2>2. CASE SignatureCode = 200 /\ pc' = "verified" /\ UNCHANGED answer
    <3>1. Checked'
      BY <2>1, <2>2 DEF Checked, SignatureCode, CrlSignatureCode, issuer
    <3>2. TypeOK'
      BY <2>1, <2>2 DEF TypeOK
    <3>. QED
      BY <2>1, <2>2, <3>1, <3>2, ProxyAssumption
         DEF RequestPassed, UrlFetched, BodyOfKind, BodyPassed, AnswerEarned
  <2>3. CASE SignatureCode # 200 /\ Answer(SignatureCode, None)
    <3>1. SignatureCode \in {401, 500}
      BY <2>3, SignatureCodeType
    <3>2. answer' = [code |-> SignatureCode, status |-> None] /\ pc' = "answered"
      BY <2>3 DEF Answer
    <3>3. TypeOK'
      BY <2>1, <3>1, <3>2 DEF TypeOK
    <3>. QED
      BY <2>1, <3>1, <3>2, <3>3
         DEF RequestPassed, UrlFetched, BodyOfKind, BodyPassed, AnswerEarned
  <2>. QED  BY <1>9, <2>2, <2>3 DEF CheckSignature
<1>10. CASE CheckContent
  <2>1. UNCHANGED <<request, clock, url, body, checked_at>> /\ pc = "verified"
    BY <1>10 DEF CheckContent
  <2>2. CASE ContentCode(clock) = 200 /\ Answer(200, Verdict)
    <3>1. answer' = [code |-> 200, status |-> Verdict] /\ pc' = "answered"
      BY <2>2 DEF Answer
    <3>2. Verdict \in Status
      BY <2>1, <2>2, VerdictType DEF TypeOK, BodyPassed
    <3>3. TypeOK'
      BY <2>1, <3>1, <3>2 DEF TypeOK
    <3>4. ContentCode(clock)' = ContentCode(clock) /\ Verdict' = Verdict
      BY <2>1 DEF ContentCode, OcspCode, Verdict, cert, issuer
    <3>5. Checked' <=> Checked
      BY <2>1 DEF Checked, CrlSignatureCode, issuer
    <3>. QED
      BY <2>1, <2>2, <3>1, <3>3, <3>4, <3>5
         DEF RequestPassed, UrlFetched, BodyOfKind, BodyPassed, AnswerEarned
  <2>3. CASE ContentCode(clock) # 200 /\ Answer(ContentCode(clock), None)
    <3>1. ContentCode(clock) \in {401, 500}
      BY <2>3, ContentCodeType
    <3>2. answer' = [code |-> ContentCode(clock), status |-> None] /\ pc' = "answered"
      BY <2>3 DEF Answer
    <3>3. TypeOK'
      BY <2>1, <3>1, <3>2 DEF TypeOK
    <3>. QED
      BY <2>1, <3>1, <3>2, <3>3
         DEF RequestPassed, UrlFetched, BodyOfKind, BodyPassed, AnswerEarned
  <2>. QED  BY <1>10, <2>2, <2>3 DEF CheckContent
<1>11. CASE OutOfUrls
  BY <1>5, <1>11 DEF OutOfUrls
<1>12. CASE SetClock
  <2>1. UNCHANGED <<request, pc, url, body, checked_at, answer>> /\ pc # "answered"
    BY <1>12 DEF SetClock
  <2>2. TypeOK'
    BY <1>12, <2>1 DEF SetClock, TypeOK
  <2>3. Checked' <=> Checked
    BY <2>1 DEF Checked, CrlSignatureCode, issuer
  <2>. QED
    BY <2>1, <2>2, <2>3, ProxyAssumption
       DEF RequestPassed, UrlFetched, BodyOfKind, BodyPassed, AnswerEarned
<1>13. CASE UNCHANGED vars
  <2>1. UNCHANGED <<request, clock, pc, url, body, checked_at, answer>>
    BY <1>13 DEF vars
  <2>2. Checked' <=> Checked
    BY <2>1 DEF Checked, CrlSignatureCode, issuer
  <2>3. ContentCode(clock)' = ContentCode(clock) /\ Verdict' = Verdict
    BY <2>1 DEF ContentCode, OcspCode, Verdict, cert, issuer
  <2>. QED
    BY <2>1, <2>2, <2>3
       DEF TypeOK, RequestPassed, UrlFetched, BodyOfKind, BodyPassed, AnswerEarned
<1>. QED
  BY <1>1, <1>2, <1>4, <1>6, <1>7, <1>8, <1>9, <1>10, <1>11, <1>12, <1>13 DEF Next, Handle

-----------------------------------------------------------------------------
(* What the invariant implies.                                             *)

(* The variables of a request keep their types, and no URL beyond the last *)
(* is ever fetched.                                                        *)
THEOREM TypeCorrect == Spec => []TypeOK
<1>1. ProxyInv => TypeOK
  BY DEF ProxyInv
<1>. QED  BY ProxyInit, ProxyStep, <1>1, PTL DEF Spec

LEMMA SignerSound ==
  ASSUME NEW staple, NEW iss, NEW t, SignerOf(staple, iss, t) # None
  PROVE  \/ staple.signedBy = iss.key /\ ValidAt(iss, t)
         \/ \E k \in DOMAIN staple.certs : ResponderSigned(staple, staple.certs[k], iss, t)
<1>1. CASE IssuerSigned(staple, iss, t)
  BY <1>1 DEF IssuerSigned
<1>2. CASE ~IssuerSigned(staple, iss, t)
  BY <1>2 DEF SignerOf
<1>. QED  BY <1>1, <1>2

(* check_ocsp and check_crl: an answer of 200 says what the issuer of the  *)
(* certificate, or a responder that it authorized, signed about it.        *)
THEOREM AnswersAuthentic == Spec => []AnswerIsAuthentic
<1>1. ProxyInv => AnswerIsAuthentic
  <2>. SUFFICES ASSUME ProxyInv, answer.code = 200 PROVE AnswerIsAuthentic
    BY DEF AnswerIsAuthentic
  <2>1. RequestCode(request) = 200 /\ body # Unusable /\ Checked /\ ContentCode(clock) = 200
        /\ answer.status = Verdict
    BY DEF ProxyInv, AnswerEarned
  <2>2. request.ca /\ cert.signedBy = issuer.key /\ cert.issuer = issuer.subject
    BY <2>1 DEF RequestCode, cert, issuer
  <2>3. ASSUME request.kind = "ocsp"
        PROVE  \E n \in DOMAIN body.singles :
                 /\ MadeForIssuer(body)
                 /\ body.singles[n].certId.serial = cert.serial
                 /\ body.singles[n].certId.issuerKey = issuer.key
                 /\ body.singles[n].status = answer.status
    <3>1. body.singles \in Seq(Single)
      BY <2>1, <2>3, ProxyAssumption DEF ProxyInv, BodyOfKind, Staple
    <3>2. body.singles # <<>> /\ CertIdMatches(Head(body.singles).certId, cert, issuer)
      BY <2>1, <2>3 DEF ContentCode, OcspCode
    <3>3. 1 \in DOMAIN body.singles /\ Head(body.singles) = body.singles[1]
      BY <3>1, <3>2
    <3>4. MadeForIssuer(body)
      BY <2>1, <2>3, SignerSound DEF Checked, MadeForIssuer, ResponderSigned
    <3>. QED  BY <2>1, <2>3, <3>2, <3>3, <3>4 DEF CertIdMatches, Verdict
  <2>4. ASSUME request.kind = "crl"
        PROVE  /\ body.signedBy = issuer.key /\ body.issuer = cert.issuer
               /\ answer.status = "Revoked" <=> cert.serial \in body.revoked
    BY <2>1, <2>2, <2>4 DEF Checked, CrlSignatureCode, Verdict
  <2>. QED  BY <2>2, <2>3, <2>4 DEF AnswerIsAuthentic
<1>. QED  BY ProxyInit, ProxyStep, <1>1, PTL DEF Spec

(* check_ocsp and check_crl: with a nextUpdate, an answer of 200 is inside *)
(* its window and not older than the interval allowed, by the clock as it  *)
(* is at the moment of the answer.                                         *)
THEOREM AnswersCurrent == Spec => []AnswerIsCurrent
<1>1. ProxyInv => AnswerIsCurrent
  <2>. SUFFICES ASSUME ProxyInv, answer.code = 200 PROVE AnswerIsCurrent
    BY DEF AnswerIsCurrent
  <2>. DEFINE b == IF request.kind = "crl" THEN body ELSE Head(body.singles)
              max == IF request.kind = "crl" THEN MaxCrlInterval ELSE MaxOcspInterval
  <2>1. body # Unusable /\ ContentCode(clock) = 200 /\ clock \in Int /\ request.kind \in {"ocsp", "crl"}
    BY ConstantsAssumption, ProxyAssumption DEF ProxyInv, AnswerEarned, TypeOK, Requests
  <2>2. b.thisUpdate \in Time \union {None} /\ b.nextUpdate \in Time \union {None, Absent}
    <3>1. CASE request.kind = "crl"
      BY <2>1, <3>1, ProxyAssumption DEF ProxyInv, BodyOfKind, Crl
    <3>2. CASE request.kind = "ocsp"
      <4>1. body.singles \in Seq(Single) /\ body.singles # <<>>
        BY <2>1, <3>2, ProxyAssumption DEF ProxyInv, BodyOfKind, Staple, ContentCode, OcspCode
      <4>2. Head(body.singles) \in Single
        BY <4>1
      <4>. QED  BY <3>2, <4>2 DEF Single
    <3>. QED  BY <2>1, <3>1, <3>2
  <2>3. \E unparsable \in {401, 500} : WindowCode(b, max, unparsable, clock) = 200
    <3>1. CASE request.kind = "crl"
      <4>1. WindowCode(b, max, 500, clock) = 200
        BY <2>1, <3>1 DEF ContentCode
      <4>. QED  BY <4>1
    <3>2. CASE request.kind = "ocsp"
      <4>1. WindowCode(b, max, 401, clock) = 200
        BY <2>1, <3>2 DEF ContentCode, OcspCode
      <4>. QED  BY <4>1
    <3>. QED  BY <2>1, <3>1, <3>2
  <2>. HIDE DEF b, max
  <2>4. max \in Int
    BY ProxyAssumption DEF max
  <2>5. ASSUME b.nextUpdate # Absent
        PROVE  clock \in b.thisUpdate .. b.nextUpdate /\ clock - b.thisUpdate <= max
    <3>0. b.thisUpdate # None /\ b.nextUpdate # None
      BY <2>3, <2>5 DEF WindowCode
    <3>1. b.thisUpdate \in Int /\ b.nextUpdate \in Int
      BY <2>2, <2>5, <3>0, ConstantsAssumption
    <3>2. ~IntervalExceeds(b.thisUpdate, b.nextUpdate, max)
          /\ ~(clock < b.thisUpdate) /\ ~(clock > b.nextUpdate)
      BY <2>3, <2>5 DEF WindowCode
    <3>. QED  BY <2>1, <2>4, <3>1, <3>2 DEF IntervalExceeds
  <2>. QED  BY <2>5 DEF AnswerIsCurrent, b, max
<1>. QED  BY ProxyInit, ProxyStep, <1>1, PTL DEF Spec

-----------------------------------------------------------------------------
(* The proxy and the verifier agree.                                       *)

(* The counterpart of AnswerEarned: an OCSP response is refused for its    *)
(* signature or for its content.                                           *)
RefusalInv ==
  /\ pc \in {"new", "url"} => body = Unusable
  /\ pc = "answered" /\ request.kind = "ocsp" /\ body # Unusable /\ answer.code # 200 =>
       SignerOf(body, issuer, checked_at) = None \/ ContentCode(clock) # 200

LEMMA RefusalStep ==
  ASSUME RefusalInv, [Next]_vars
  PROVE  RefusalInv'
<1>1. CASE RefuseRequest \/ AcceptRequest
  BY <1>1 DEF RefuseRequest, AcceptRequest, Answer, RefusalInv
<1>2. CASE SkipUrl \/ FetchFails \/ DropBody \/ OutOfUrls
  BY <1>2 DEF SkipUrl, FetchFails, DropBody, OutOfUrls, AtUrl, Failover, NextUrl, Answer, RefusalInv
<1>3. CASE Receive
  BY <1>3 DEF Receive, RefusalInv
<1>4. CASE CheckSignature
  <2>1. pc' \in {"verified", "answered"} /\ UNCHANGED <<request, clock, url, body>>
        /\ checked_at' = clock /\ issuer' = issuer
    BY <1>4 DEF CheckSignature, Answer, issuer
  <2>2. pc' = "answered" => SignatureCode # 200
    BY <1>4 DEF CheckSignature, Answer
  <2>3. SignatureCode # 200 /\ request.kind = "ocsp" => SignerOf(body, issuer, clock) = None
    BY DEF SignatureCode
  <2>. QED  BY <2>1, <2>2, <2>3 DEF RefusalInv
<1>5. CASE CheckContent
  <2>1. UNCHANGED <<request, clock, url, body, checked_at>> /\ pc' = "answered"
    BY <1>5 DEF CheckContent, Answer
  <2>2. answer'.code # 200 => ContentCode(clock) # 200
    BY <1>5 DEF CheckContent, Answer
  <2>3. ContentCode(clock)' = ContentCode(clock)
    BY <2>1 DEF ContentCode, OcspCode, cert, issuer
  <2>. QED  BY <2>1, <2>2, <2>3 DEF RefusalInv
<1>6. CASE SetClock
  BY <1>6 DEF SetClock, RefusalInv
<1>7. CASE UNCHANGED vars
  <2>1. UNCHANGED <<request, clock, pc, url, body, checked_at, answer>>
    BY <1>7 DEF vars
  <2>2. ContentCode(clock)' = ContentCode(clock) /\ issuer' = issuer
    BY <2>1 DEF ContentCode, OcspCode, cert, issuer
  <2>. QED  BY <2>1, <2>2 DEF RefusalInv
<1>. QED  BY <1>1, <1>2, <1>3, <1>4, <1>5, <1>6, <1>7 DEF Next, Handle

LEMMA LeastOf ==
  ASSUME NEW T, T \subseteq Nat, T # {}
  PROVE  \E x \in T : \A y \in T : x <= y
<1>. DEFINE R == {ss \in Nat \X Nat : ss[1] < ss[2]}
<1>1. IsWellFoundedOn(R, Nat)
  BY NatLessThanWellFounded DEF OpToRel
<1>2. \E x \in T : \A y \in T : <<y, x>> \notin R
  <2>. HIDE DEF R
  <2>. QED  BY <1>1, WFMin
<1>3. \A x, y \in Nat : <<y, x>> \notin R => x <= y
  OBVIOUS
<1>. QED  BY <1>2, <1>3

(* Whoever signed a response was valid at the time.                        *)
LEMMA SignerValid ==
  ASSUME NEW staple \in Staple, NEW iss, NEW t, SignerOf(staple, iss, t) # None
  PROVE  ValidAt(SignerOf(staple, iss, t), t)
<1>1. CASE IssuerSigned(staple, iss, t)
  BY <1>1 DEF IssuerSigned, SignerOf
<1>2. CASE ~IssuerSigned(staple, iss, t)
  <2>. DEFINE able == {k \in DOMAIN staple.certs : ResponderSigned(staple, staple.certs[k], iss, t)}
              first == CHOOSE k \in able : \A l \in able : k <= l
  <2>1. able # {} /\ SignerOf(staple, iss, t) = staple.certs[first]
    BY <1>2 DEF SignerOf
  <2>2. able \subseteq Nat
    BY DEF Staple
  <2>3. first \in able
    <3>. HIDE DEF able
    <3>1. \E k \in able : \A l \in able : k <= l
      BY <2>1, <2>2, LeastOf
    <3>. QED  BY <3>1
  <2>4. ResponderSigned(staple, staple.certs[first], iss, t)
    BY <2>3
  <2>. HIDE DEF first
  <2>. QED  BY <2>1, <2>4 DEF ResponderSigned
<1>. QED  BY <1>1, <1>2

(* The first single response is the one the verifier goes by, if it is     *)
(* about the leaf.                                                         *)
LEMMA FirstIsFirst ==
  ASSUME NEW staple \in Staple, NEW leaf, NEW iss, NEW t, staple.singles # <<>>,
         CertIdMatches(Head(staple.singles).certId, leaf, iss)
  PROVE  LET first == Head(staple.singles)
             signer == SignerOf(staple, iss, t)
         IN StapleStatus(staple, leaf, iss, t) =
              IF signer # None /\ Fresh(first, t, signer) THEN first.status ELSE None
<1>. DEFINE found == FirstSingle(staple, leaf, iss)
<1>1. staple.singles \in Seq(Single) /\ 1 \in DOMAIN staple.singles
      /\ Head(staple.singles) = staple.singles[1]
      /\ \A l \in DOMAIN staple.singles : l \in Nat /\ 1 <= l
  BY DEF Staple
<1>2. found = {1}
  BY <1>1 DEF FirstSingle
<1>. HIDE DEF found
<1>3. (CHOOSE k \in found : TRUE) = 1 /\ found # {}
  BY <1>2
<1>. QED  BY <1>1, <1>3 DEF StapleStatus, found

(* check_ocsp and the verifier, two programs that judge OCSP responses by  *)
(* code of their own, agree on those that both of them cover, whatever the *)
(* certificates, responses and times.                                      *)
THEOREM StapledAgreement == Spec => []AgreesWithStapled
<1>1. Init => RefusalInv
  BY ProxyAssumption DEF Init, RefusalInv
<1>2. ProxyInv /\ RefusalInv => AgreesWithStapled
  <2>. DEFINE first == Head(body.singles)
              stapled == StapleStatus(body, cert, issuer, clock)
              by == SignerOf(body, issuer, clock)
  <2>. SUFFICES ASSUME ProxyInv, RefusalInv, pc = "answered", request.kind = "ocsp",
                       body # Unusable, body.singles # <<>>, checked_at = clock,
                       first.nextUpdate # Absent, CertIdMatches(first.certId, cert, issuer)
                PROVE  /\ answer.code = 200 => stapled = answer.status
                       /\ stapled # None /\ first.nextUpdate - first.thisUpdate <= MaxOcspInterval
                            => answer.code = 200
    BY DEF AgreesWithStapled
  <2>1. body \in Staple /\ clock \in Int /\ MaxOcspInterval \in Nat
    BY ConstantsAssumption, ProxyAssumption DEF ProxyInv, BodyOfKind, TypeOK
  <2>2. stapled = IF by # None /\ Fresh(first, clock, by) THEN first.status ELSE None
    BY <2>1, FirstIsFirst
  <2>3. by # None => ValidAt(by, clock)
    BY <2>1, SignerValid
  <2>4. /\ first.thisUpdate \in Time \union {None}
        /\ first.nextUpdate \in Time \union {None}
    <3>1. body.singles \in Seq(Single)
      BY <2>1 DEF Staple
    <3>2. first \in Single
      BY <3>1
    <3>. QED  BY <3>2 DEF Single
  <2>5. ContentCode(clock) = WindowCode(first, MaxOcspInterval, 401, clock)
    BY DEF ContentCode, OcspCode
  <2>6. ASSUME answer.code = 200  PROVE stapled = answer.status
    <3>1. by # None /\ ContentCode(clock) = 200 /\ answer.status = first.status
      BY <2>6 DEF ProxyInv, AnswerEarned, Checked, Verdict
    <3>2. first.thisUpdate # None /\ first.nextUpdate # None
          /\ ~(clock < first.thisUpdate) /\ ~(clock > first.nextUpdate)
      BY <2>5, <3>1 DEF WindowCode
    <3>3. first.thisUpdate \in Int /\ first.nextUpdate \in Int
      BY <2>4, <3>2, ConstantsAssumption
    <3>4. Fresh(first, clock, by)
      BY <2>1, <2>3, <3>1, <3>2, <3>3 DEF Fresh, ValidAt
    <3>. QED  BY <2>2, <3>1, <3>4
  <2>7. ASSUME stapled # None, first.nextUpdate - first.thisUpdate <= MaxOcspInterval
        PROVE  answer.code = 200
    <3>1. by # None /\ Fresh(first, clock, by)
      BY <2>2, <2>7
    <3>2. first.thisUpdate # None /\ first.nextUpdate # None
          /\ first.thisUpdate <= clock /\ clock <= first.nextUpdate
      BY <3>1 DEF Fresh
    <3>3. first.thisUpdate \in Int /\ first.nextUpdate \in Int
      BY <2>4, <3>2, ConstantsAssumption
    <3>4. /\ ~(clock < first.thisUpdate) /\ ~(clock > first.nextUpdate)
          /\ ~IntervalExceeds(first.thisUpdate, first.nextUpdate, MaxOcspInterval)
      BY <2>1, <2>7, <3>2, <3>3 DEF IntervalExceeds
    <3>5. WindowCode(first, MaxOcspInterval, 401, clock) = 200
      BY <3>2, <3>4 DEF WindowCode
    <3>. QED  BY <2>5, <3>1, <3>5 DEF RefusalInv
  <2>. QED  BY <2>6, <2>7
<1>. QED  BY <1>1, <1>2, ProxyInit, ProxyStep, RefusalStep, PTL DEF Spec

=============================================================================
