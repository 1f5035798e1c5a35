---------------------------- MODULE MCStapledOcsp ----------------------------
(* Small instances of StapledOcsp: a root, an intermediate and a leaf, and *)
(* the responders that each of the issuers may have authorized.            *)
EXTENDS StapledOcsp

MCSubject == {"root", "inter", "leaf", "responder"}
MCKey == MCSubject \union {"stray"}
MCSerial == 0 .. 3
MCTime == 0 .. 9
Now == 5

Cert(subject, issuer, serial) ==
  [subject |-> subject, issuer |-> issuer, serial |-> serial, key |-> subject,
   keyParses |-> TRUE, ski |-> subject, aki |-> issuer, notBefore |-> 0, notAfter |-> 9,
   signedBy |-> issuer, algPermitted |-> TRUE, ocspSigning |-> FALSE, noCheck |-> FALSE]

Root == Cert("root", "root", 0)
Inter == Cert("inter", "root", 1)
Leaf == Cert("leaf", "inter", 2)
Responder(issuer) == [Cert("responder", issuer, 3) EXCEPT !.ocspSigning = TRUE, !.noCheck = TRUE]

About(leaf, issuer, status) ==
  [certId |-> [hashKnown |-> TRUE, issuerName |-> issuer.subject, issuerKey |-> issuer.key,
               serial |-> leaf.serial],
   status |-> status, thisUpdate |-> 4, nextUpdate |-> 6]

SignedStaple(signer, certs, singles) ==
  [responderId |-> [by |-> "key", id |-> signer], algPermitted |-> TRUE,
   signedBy |-> signer, certs |-> certs, singles |-> singles]

(* Responders: one staple, with every defect of its signer, its responder  *)
(* certificate and its dates.                                              *)
Defects(r) ==
  {r, [r EXCEPT !.subject = "leaf"], [r EXCEPT !.issuer = "root"], [r EXCEPT !.aki = None],
   [r EXCEPT !.aki = "stray"], [r EXCEPT !.keyParses = FALSE], [r EXCEPT !.notAfter = 4],
   [r EXCEPT !.notBefore = 6], [r EXCEPT !.notBefore = None], [r EXCEPT !.signedBy = "stray"],
   [r EXCEPT !.algPermitted = FALSE], [r EXCEPT !.ocspSigning = FALSE],
   [r EXCEPT !.noCheck = FALSE], [r EXCEPT !.key = "stray"]}

ResponderInputs ==
  LET ids == [by : {"name"}, id : {"inter", "responder"}]
               \union [by : {"key"}, id : {"inter", "responder"}]
      certs == {<<>>} \union {<<r>> : r \in Defects(Responder("inter"))}
                 \union {<<r, Responder("inter")>> : r \in Defects(Responder("inter"))}
      singles == {<<About(Leaf, Inter, s)>> : s \in {"Good", "Revoked"}}
      issuers == {Inter, [Inter EXCEPT !.ski = None], [Inter EXCEPT !.notAfter = 4],
                  [Inter EXCEPT !.keyParses = FALSE]}
  IN [chain : {<<Leaf, ca, Root>> : ca \in issuers}, now : {Now},
      staples : [1 .. 1 -> [responderId : ids, algPermitted : BOOLEAN,
                            signedBy : {"inter", "responder", "stray"},
                            certs : certs, singles : singles]]]

(* Dates: one staple, every combination of its dates and the responder's.  *)
DateInputs ==
  LET responders == {[Responder("inter") EXCEPT !.notBefore = nb, !.notAfter = na] :
                       nb \in {0, 5}, na \in {4, 9, None}}
      ids == [hashKnown : BOOLEAN, issuerName : {"inter"}, issuerKey : {"inter"},
              serial : {1, 2}]
      singles == [certId : ids, status : Status, thisUpdate : {2, 3, 4, None},
                  nextUpdate : {4, 6, None, Absent}]
  IN [chain : {<<Leaf, Inter>>}, now : 3 .. 7,
      staples : [1 .. 1 -> [responderId : {[by |-> "key", id |-> "responder"]},
                            algPermitted : {TRUE}, signedBy : {"responder"},
                            certs : [1 .. 1 -> responders], singles : [1 .. 1 -> singles]]]]

(* Staples: up to three staples for a chain of three, in every order.      *)
StapleInputs ==
  LET says(leaf, issuer) ==
        {SignedStaple(issuer.subject, <<>>, <<About(leaf, issuer, s)>>) : s \in Status}
      stray == SignedStaple("stray", <<>>, <<About(Leaf, Inter, "Revoked")>>)
      both == SignedStaple("responder", <<Responder("root")>>,
                           <<About(Inter, Root, "Good"), About(Leaf, Inter, "Revoked")>>)
      stale == SignedStaple("inter", <<>>,
                            <<[About(Leaf, Inter, "Revoked") EXCEPT !.nextUpdate = 4]>>)
      some == says(Leaf, Inter) \union says(Inter, Root) \union {stray, both, stale}
  IN [chain : {<<Leaf, Inter, Root>>, <<Leaf, Inter>>, <<Leaf>>}, now : {Now},
      staples : UNION {[1 .. n -> some] : n \in 0 .. 3}]

(* Singles: one staple or two, with two statuses of the leaf in each.      *)
SingleInputs ==
  LET staple(s, t) ==
        SignedStaple("inter", <<>>, <<About(Leaf, Inter, s), About(Leaf, Inter, t)>>)
      some == {staple(s, t) : s, t \in Status}
  IN [chain : {<<Leaf, Inter>>}, now : {Now},
      staples : UNION {[1 .. n -> some] : n \in 1 .. 2}]

AllInputs == ResponderInputs \union DateInputs \union StapleInputs
=============================================================================
