-------------------------- MODULE MCSignedDataVerify --------------------------
(***************************************************************************)
(* Instances of SignedDataVerify for TLC: five certificates that differ in *)
(* what they vouch for and in how they fail, and four families of          *)
(* messages.                                                               *)
(***************************************************************************)
EXTENDS SignedDataVerify, TLC

CONSTANTS
  alice, ALICE, bob,                 \* alice and ALICE differ in case
  Alice, Eve,                        \* display names
  cAlice,    \* alice's certificate, trusted
  cExpired,  \* the same key and subject key identifier, no chain
  cBadKey,   \* the same subject key identifier, a key that cannot be parsed
  cCorp,     \* bob and alice in it, another name, good staple
  cRevoked,  \* alice's, with a stapled revocation
  sAlice, sKey, sCorp, sRevoked, sNobody,   \* signer identifiers
  text, crlf, other                  \* contents; crlf is text repaired

MCAddr == {alice, ALICE, bob}
MCName == {Alice, Eve}
MCALabel == [a \in MCAddr |-> a]
MCFoldAddr == [a \in MCAddr |-> IF a = ALICE THEN alice ELSE a]
MCFoldName == [n \in MCName |-> n]
MCLocalPart == [a \in MCAddr |-> a]
MCCert == {cAlice, cExpired, cBadKey, cCorp, cRevoked}

MCCertInfo ==
  [c \in MCCert |->
     [emails |-> IF c = cCorp THEN <<bob, ALICE>> ELSE <<alice>>,
      names  |-> IF c = cCorp THEN {} ELSE {Alice},
      keyParses   |-> c # cBadKey,
      chainBuilds |-> c # cExpired,
      revocation  |-> IF c = cRevoked THEN "Revoked"
                      ELSE IF c = cCorp THEN "Good" ELSE "None"]]

MCSid == {sAlice, sKey, sCorp, sRevoked, sNobody}
MCSidKind == [s \in MCSid |-> IF s = sKey THEN "SubjectKeyIdentifier"
                              ELSE "IssuerAndSerialNumber"]
MCIdentifies ==
  {<<sAlice, cAlice>>, <<sCorp, cCorp>>, <<sRevoked, cRevoked>>}
    \union {<<sKey, c>> : c \in {cAlice, cExpired, cBadKey}}

MCContent == {text, crlf, other}
MCDate == {0, 5}

Attrs(d) ==
  [contentTypes |-> <<"data">>, digests |-> <<d>>, signingTimes |-> <<0>>,
   protections |-> <<>>, capabilities |-> 0, essCertificates |-> 0]

(* Attributes that are well-formed, and one deviation of each kind.        *)
AttributeSets ==
  {Attrs(d) : d \in MCContent}
    \union {[Attrs(text) EXCEPT !.contentTypes = ct] :
             ct \in {<<>>, <<"other">>, <<"data", "malformed">>}}
    \union {[Attrs(text) EXCEPT !.digests = ds] : ds \in {<<>>, <<None>>, <<text, text>>}}
    \union {[Attrs(text) EXCEPT !.signingTimes = ts] : ts \in {<<>>, <<5, None>>, <<None>>}}
    \union {[Attrs(text) EXCEPT !.protections = <<"match", "mismatch">>],
            [Attrs(text) EXCEPT !.capabilities = 2],
            [Attrs(text) EXCEPT !.essCertificates = 1]}

KeySets == {{}, {cAlice, cExpired}, {cCorp}, {cRevoked}}

Signer(sid, v, alg, attrs, keys) ==
  [sid |-> sid, version |-> v, algorithms |-> alg, signedAttrs |-> attrs,
   verifiesUnder |-> keys]

From(a, n) == [addr |-> a, name |-> n]
Froms == {None, From(bob, Eve), From(None, Alice)}
InnerFroms == {None, From(alice, Alice), From(ALICE, Eve), From(None, Alice), From(bob, None)}

BaseMessage ==
  [target |-> "Detached", eContent |-> "data", features |-> {}, version |-> 1,
   certs |-> MCCert, signers |-> <<>>, content |-> text, normalized |-> crlf,
   looksLikeSignedAttrs |-> FALSE, outerFrom |-> From(bob, Eve), outerDate |-> 5,
   innerParses |-> TRUE, innerFrom |-> From(alice, Alice), innerDate |-> 0,
   caLoads |-> TRUE, policyBuilds |-> TRUE]

(* The message with these signers, in the version that they require.       *)
Signed(ss) ==
  LET m == [BaseMessage EXCEPT !.signers = ss]
  IN [m EXCEPT !.version = ExpectedVersion(m)]

GoodSigner == Signer(sAlice, 1, "permitted", Attrs(text), {cAlice})
KeySigner == Signer(sKey, 3, "permitted", Attrs(text), {cAlice, cExpired})

(* One signer: every identifier, version, algorithm verdict, attribute     *)
(* deviation and key, under both targets.                                  *)
OneSignerMessages ==
  LET single == {Signer(sid, v, alg, at, ks) :
                    sid \in MCSid, v \in {1, 3}, alg \in {"permitted", "warned", "disallowed"},
                    at \in AttributeSets \union {None}, ks \in KeySets}
      targets == {<<"Detached", text, FALSE>>, <<"Detached", crlf, FALSE>>,
                  <<"EContent", text, FALSE>>, <<"EContent", text, TRUE>>}
  IN {[Signed(<<s>>) EXCEPT !.target = t[1], !.normalized = t[2],
                            !.looksLikeSignedAttrs = t[3]] :
        s \in single, t \in targets}

(* What surrounds the signers: content kind, the trust store, the parsers, *)
(* headers and dates; and the version, for all that decides which one is   *)
(* expected.                                                               *)
SetUpMessages ==
  {[Signed(ss) EXCEPT !.target = t, !.eContent = ec, !.caLoads = ca, !.policyBuilds = pb,
                      !.innerParses = ip, !.outerFrom = of, !.innerFrom = nf] :
     t \in {"Detached", "EContent"}, ec \in {"data", "absent", "other"},
     ss \in {<<>>, <<GoodSigner>>}, ca \in BOOLEAN, pb \in BOOLEAN, ip \in BOOLEAN,
     of \in Froms, nf \in InnerFroms}

VersionMessages ==
  {[BaseMessage EXCEPT !.signers = ss, !.version = v, !.features = ft, !.caLoads = ca] :
     ss \in {<<>>, <<GoodSigner>>, <<GoodSigner, KeySigner>>}, v \in 0 .. 5, ca \in BOOLEAN,
     ft \in SUBSET {"OtherCertificate", "V2AttrCert", "V1AttrCert", "OtherCrl"}}

(* Up to three signers who differ in trust, in the address and name they   *)
(* vouch for, and in which bytes they signed.                              *)
Signers ==
  {GoodSigner,
   Signer(sAlice, 1, "permitted", Attrs(crlf), {cAlice}),
   Signer(sAlice, 1, "disallowed", Attrs(text), {cAlice}),
   KeySigner,
   Signer(sKey, 3, "permitted", Attrs(other), {cAlice, cExpired}),
   Signer(sCorp, 1, "permitted", Attrs(text), {cCorp}),
   Signer(sCorp, 1, "permitted", Attrs(text), {cAlice}),
   Signer(sRevoked, 1, "permitted", Attrs(text), {cRevoked}),
   Signer(sAlice, 1, "permitted", None, {cAlice})}

ManySignersMessages ==
  {[Signed(ss) EXCEPT !.target = t, !.innerFrom = nf] :
     t \in {"Detached", "EContent"}, nf \in InnerFroms,
     ss \in {<<x, y>> : x, y \in Signers} \union {<<x, y, z>> : x, y, z \in Signers}}

AllMessages ==
  UNION {OneSignerMessages, SetUpMessages, VersionMessages, ManySignersMessages}

=============================================================================
