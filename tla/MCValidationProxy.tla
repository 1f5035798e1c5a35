-------------------------- MODULE MCValidationProxy --------------------------
(* Small instances of ValidationProxy: an intermediate CA under a root,    *)
(* what a request can say of them, and the responses and CRLs of the root, *)
(* of a responder and of strangers.                                        *)
EXTENDS ValidationProxy

MCSubject == {"root", "inter", "responder"}
MCKey == MCSubject \union {"stray"}
MCSerial == 0 .. 3
MCTime == {0, 100, 256, 257, 365, 366, 367}

Cert(subject, serial) ==
  [subject |-> subject, issuer |-> "root", serial |-> serial, key |-> subject,
   keyParses |-> TRUE, ski |-> subject, aki |-> "root", notBefore |-> 0, notAfter |-> 367,
   signedBy |-> "root", algPermitted |-> TRUE, ocspSigning |-> FALSE, noCheck |-> FALSE]

Sound(kind) ==
  [kind |-> kind, decodes |-> TRUE, cert |-> Cert("inter", 1), issuer |-> Cert("root", 0),
   ca |-> TRUE, urls |-> <<"http">>, keyUsage |-> "crlSign"]

Kinds == {"ocsp", "crl"}

(* Requests that are refused, for each reason, and variations that are not *)
BadRequests ==
  UNION {{[Sound(k) EXCEPT !.decodes = FALSE], [Sound(k) EXCEPT !.ca = FALSE],
          [Sound(k) EXCEPT !.cert.issuer = "responder"], [Sound(k) EXCEPT !.cert.aki = "stray"],
          [Sound(k) EXCEPT !.issuer.keyParses = FALSE],
          [Sound(k) EXCEPT !.cert.signedBy = "stray"]} : k \in Kinds}
GoodRequests ==
  {[Sound("ocsp") EXCEPT !.issuer.notAfter = last, !.issuer.ski = ski] :
     last \in {100, 367, None}, ski \in {"root", None}}
    \union {[Sound("crl") EXCEPT !.keyUsage = u] : u \in {"absent", "crlSign", "other", "malformed"}}
Urls == UNION {[1 .. n -> {"http", "other"}] : n \in 0 .. 3}
MCRequest ==
  BadRequests \union GoodRequests \union
    {[Sound(k) EXCEPT !.urls = u] : k \in Kinds, u \in Urls}

Dates == [thisUpdate : {0, 100, 257, None}, nextUpdate : {100, 256, 257, 366, 367, None, Absent}]

About(serial, dates, status) ==
  [certId |-> [hashKnown |-> TRUE, issuerName |-> "root", issuerKey |-> "root",
               serial |-> serial],
   status |-> status, thisUpdate |-> dates.thisUpdate, nextUpdate |-> dates.nextUpdate]

Response(signer, certs, singles) ==
  [responderId |-> [by |-> "key", id |-> signer], algPermitted |-> TRUE,
   signedBy |-> signer, certs |-> certs, singles |-> singles]

Current == [thisUpdate |-> 0, nextUpdate |-> 256]
Responder == [Cert("responder", 3) EXCEPT !.ocspSigning = TRUE, !.noCheck = TRUE, !.notAfter = 100]

MCOcspBody ==
  {Response(s, <<Responder>>, <<About(1, d, "Good")>>) : s \in {"root", "responder"}, d \in Dates}
    \union {Response("root", <<>>, ss) :
              ss \in {<<>>, <<About(2, Current, "Good")>>,
                      <<About(1, Current, "Revoked"), About(1, Current, "Good")>>,
                      <<About(2, Current, "Unknown"), About(1, Current, "Good")>>}}
    \union {Response("stray", <<>>, <<About(1, Current, "Good")>>),
            Response("responder", <<[Responder EXCEPT !.ocspSigning = FALSE]>>,
                     <<About(1, Current, "Good")>>)}

List(dates, revoked) ==
  [issuer |-> "root", wellFormed |-> TRUE, aki |-> "root", algPermitted |-> TRUE,
   signedBy |-> "root", thisUpdate |-> dates.thisUpdate, nextUpdate |-> dates.nextUpdate,
   revoked |-> revoked]

MCCrlBody ==
  LET list == List(Current, {}) IN
  {List(d, {1, 2}) : d \in Dates}
    \union {list, List(Current, {2}),
            [list EXCEPT !.issuer = "responder"], [list EXCEPT !.wellFormed = FALSE],
            [list EXCEPT !.aki = "stray"], [list EXCEPT !.aki = None],
            [list EXCEPT !.algPermitted = FALSE], [list EXCEPT !.signedBy = "stray"]}
=============================================================================
