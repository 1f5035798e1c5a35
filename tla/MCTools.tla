-------------------------------- MODULE MCTools --------------------------------
(***************************************************************************)
(* Tools for TLC, in families of sessions: messages that are modified and  *)
(* verified; what servers answer; mail with several PKCS#7 parts; verify   *)
(* and decrypt with all of their arguments; and PKCS#12 files.             *)
(***************************************************************************)
EXTENDS Tools

CONSTANTS Text, OtherText, RightPassword, WrongPassword, Key, OtherKey, Kek, EmptyPassword, Null

-----------------------------------------------------------------------------
(* Certificates and messages.                                              *)

Cert(subj, issuer, rank) == [kind |-> "Certificate", subject |-> subj, issuer |-> issuer, rank |-> rank]
Leaf == Cert("Leaf", "Inter", 2)
Inter == Cert("Inter", "Root", 1)
LateInter == Cert("Inter", "Root", 3)    \* the same with an encoding that sorts last
DebugLeaf == Cert("DebugLeaf", "DebugRoot", 4)
OwnLeaf == Cert("OwnLeaf", "OwnRoot", 5)
Attr(kind) == [kind |-> kind, subject |-> "Attr", issuer |-> "Root", rank |-> 9]

MCName == {"Leaf", "Inter", "DebugLeaf", "OwnLeaf", "Attr", "Root", "DebugRoot", "OwnRoot", "Me"}
MCDate == {"Today", "Then"}
MCPlain == {Text, OtherText}
MCSecret == {RightPassword, Key, OtherKey, Kek}
MCAnchors == [Builtin |-> {"Root"}, Debug |-> {"DebugRoot"}]

HeaderOf(kind, encoding) == [kind |-> kind, encoding |-> encoding, from |-> "Me", date |-> "Today", extra |-> TRUE]
PartOf(kind, encoding, content) == Headed(HeaderOf(kind, encoding)) \o Rendered(Body(encoding, content))
TextPart(text) == PartOf("text", "7bit", text)

Unversioned(certs, crls, signer) ==
  [type |-> "signed", form |-> "BER", version |-> 1, certs |-> certs, crls |-> crls,
   keyIdentified |-> FALSE, signer |-> signer, signingTime |-> "Then", features |-> {},
   payload |-> TextPart(Text)]
Versioned(cms) == [cms EXCEPT !.version = SignedDataVersion(Features(cms), cms.keyIdentified)]
Signed(certs, crls, signer) == Versioned(Unversioned(certs, crls, signer))

ByLeaf == Signed(<<Leaf, LateInter>>, <<>>, "Leaf")
Undated == [ByLeaf EXCEPT !.signingTime = None]
NoData == Versioned([ByLeaf EXCEPT !.features = {"OtherContent"}])
ByDebugLeaf == Signed(<<DebugLeaf>>, <<>>, "DebugLeaf")
ByOwnLeaf == Signed(<<OwnLeaf>>, <<>>, "OwnLeaf")
Opaque(cms) == PartOf("pkcs7-mime", "base64", cms)
ClearSigned(cms, text, encoding) ==
  Headed(HeaderOf("multipart/signed", "7bit")) \o TextPart(text) \o PartOf("pkcs7-signature", encoding, cms)
(* RFC 2634: what is signed is itself a PKCS#7 part.                       *)
Wrapped(inner) ==
  Headed(HeaderOf("multipart/signed", "7bit")) \o Opaque(inner)
    \o PartOf("pkcs7-signature", "base64", [ByLeaf EXCEPT !.payload = Opaque(inner)])
Mixed(first, second, encoding) ==
  Headed(HeaderOf("multipart/mixed", "7bit")) \o PartOf("pkcs7-mime", encoding, first)
    \o TextPart(Text) \o PartOf("pkcs7-mime", "base64", second) \o TextPart(OtherText)
Enveloped(recipients, payload) ==
  [type |-> "enveloped", form |-> "BER", recipients |-> recipients, payload |-> payload]

(* Layers in layers, as deep as decrypt goes and deeper; and some that are *)
(* no S/MIME for it or not what they seem.                                 *)
SignedOver(content) == Opaque([ByLeaf EXCEPT !.payload = content])
Sealed(content) == Opaque(Enveloped({[kind |-> "certificate", secret |-> Key]}, content))
Two == {SignedOver(Opaque(ByLeaf)), Sealed(Opaque(ByLeaf)), SignedOver(Sealed(TextPart(Text)))}
Three == {Sealed(SignedOver(Opaque(ByLeaf))), SignedOver(Sealed(Opaque(ByLeaf)))}
Four == {Sealed(m) : m \in Three}
Odd == {PartOf("pkcs7-mime", "binary", ByDebugLeaf), Opaque(Junk), ClearSigned(ByLeaf, Text, "base64"),
        ClearSigned(ByLeaf, OtherText, "base64") \o PartOf("pkcs7-signature", "base64", ByDebugLeaf),
        Mixed(ByLeaf, ByDebugLeaf, "base64"), Opaque(Enveloped({}, TextPart(Text))), Opaque(NoData), ClearSigned(NoData, Text, "base64")}
MCPayload ==
  {TextPart(Text), Sealed(TextPart(Text))} \union {Opaque(cms) : cms \in {ByLeaf, ByDebugLeaf}}
    \union Two \union Three \union Four \union Odd
Nested ==
  Two \union Three \union Four \union {Sealed(m) : m \in Four \union Odd} \union {SignedOver(m) : m \in Odd} \union {Wrapped(ByDebugLeaf)}

-----------------------------------------------------------------------------
(* Files.                                                                  *)

MCPath == {"in", "out", "readonly", "missing", "junk", "inter", "extra", "attr", "ca", "revocation", "key",
           "certificate", "kek", "cafe", "key.p12"}
MCReadOnly == {"readonly"}
MCP12Path == {"key.p12"}
MCPem == {Key, OtherKey}
MCHexOf == [cafe |-> Kek]

DiskWith(m, intermediate, p12) ==
  [p \in MCPath |->
     CASE p = "in" -> m
       [] p = "junk" -> Junk
       [] p = "inter" -> intermediate
       [] p = "extra" -> DebugLeaf
       [] p = "attr" -> Attr("V2AttrCert")
       [] p = "ca" -> {"OwnRoot"}
       [] p = "revocation" -> "OcspGood"
       [] p = "key" -> Key
       [] p = "certificate" -> Key
       [] p = "kek" -> Kek
       [] p = "cafe" -> OtherKey
       [] p = "key.p12" -> p12
       [] OTHER -> None]

Disk(m) == DiskWith(m, Inter, NoPfx)

-----------------------------------------------------------------------------
(* modify-cms.                                                             *)

MCUrl == {"ftp", "crl1", "crl2", "ocsp1", "ocsp2"}
MCFetchableUrl == MCUrl \ {"ftp"}
MCUrlsIn ==
  [k \in {"crl", "ocsp"} \X MCName |->
     CASE k = <<"crl", "Leaf">> -> <<"ftp", "crl1", "crl2">>
       [] k = <<"ocsp", "Leaf">> -> <<"ocsp1", "ftp", "ocsp2">>
       [] OTHER -> <<>>]

Modify(eml_, certPath, crlPath, ocsp, ocspPath, output) ==
  [tool |-> "modify", eml |-> eml_, output |-> output, cert |-> "inter", certPath |-> certPath,
   crlPath |-> crlPath, ocsp |-> ocsp, ocspPath |-> ocspPath]
Rewrite(from, to) ==
  [tool |-> "ber-to-der", eml |-> from, output |-> to, cert |-> "missing", certPath |-> None,
   crlPath |-> None, ocsp |-> FALSE, ocspPath |-> None]

ModifyCalls ==
  {Modify("in", certPath, None, ocsp, None, output) :
     certPath \in {None, "extra"}, ocsp \in BOOLEAN, output \in {"in", "out"}}
  \union {[Modify("in", None, None, FALSE, None, "out") EXCEPT !.cert = p] : p \in {"missing", "junk", "extra", "attr"}}
  \union {Modify("in", "junk", None, FALSE, None, "out"), Modify("in", "attr", None, FALSE, None, "out"), Modify("in", None, "missing", FALSE, None, "out"),
          Modify("in", None, "junk", FALSE, None, "out"), Modify("in", None, None, TRUE, "missing", "out"),
          Modify("in", None, None, TRUE, "junk", "out"), Modify("in", None, None, FALSE, None, "readonly"),
          Modify("missing", None, None, FALSE, None, "out"), Modify("in", None, "revocation", TRUE, "revocation", "out")}

Answering == [u \in MCUrl |-> IF u \in {"crl1", "crl2", "ftp"} THEN "Crl" ELSE "OcspGood"]
AllAnswers ==
  {[Answering EXCEPT !["crl1"] = a, !["crl2"] = b, !["ocsp1"] = c, !["ocsp2"] = d] :
     a, b \in {"error", "empty", Junk, "Crl"}, c, d \in {"error", "empty", Junk, "OcspGood", "OcspRevoked", "OtherInfo"}}

Kinds == {{}, {"V1AttrCert"}, {"V2AttrCert"}, {"OtherCertificate"}, {"V1AttrCert", "V2AttrCert"}}
SignedMessages ==
  {[Versioned([Unversioned(base \o SetToSeq({Attr(k) : k \in kinds}), crls, signer)
                 EXCEPT !.keyIdentified = ski, !.features = features])
      EXCEPT !.version = IF conformant THEN @ ELSE 0] :
     base \in {<<Leaf>>, <<Inter, Leaf>>, <<LateInter, Leaf>>, <<>>}, kinds \in Kinds,
     crls \in {<<>>, <<"Crl">>, <<"OtherInfo">>}, signer \in {"Leaf", None},
     ski \in BOOLEAN, features \in {{}, {"OtherContent"}}, conformant \in BOOLEAN}

Opaques ==
  {Headed([HeaderOf("pkcs7-mime", encoding) EXCEPT !.from = from, !.date = date])
     \o Rendered(Body(encoding, cms)) :
     cms \in {ByLeaf, Undated}, encoding \in {"base64", "binary", "quoted-printable"}, from \in {"Me", None}, date \in {"Today", None}}

MailWithParts ==
  {Mixed(first, second, encoding) :
     first \in {ByLeaf, Junk, DerOfCms(ByDebugLeaf)}, second \in {ByDebugLeaf, Junk, DerOfCms(ByLeaf)},
     encoding \in {"base64", "binary"}}
  \union {ClearSigned(cms, text, encoding) :
     cms \in {ByLeaf, ByDebugLeaf, Signed(<<Leaf>>, <<>>, "Leaf")}, text \in {Text, OtherText},
     encoding \in {"base64", "binary"}}
  \union {Headed(HeaderOf("multipart/signed", "7bit")) \o Opaque(ByLeaf),
          Headed(HeaderOf("multipart/signed", "7bit")) \o PartOf("pkcs7-signature", "base64", ByLeaf), Wrapped(ByLeaf),
          Opaque(Enveloped({}, TextPart(Text))), TextPart(Text), Junk}

Rewrites == {Rewrite(from, to) : from \in {"in", "missing"}, to \in {"in", "out", "readonly"}}

-----------------------------------------------------------------------------
(* smime.                                                                  *)

Call(command, path, caFile, debug, out_) ==
  [command |-> command, file |-> path, caFile |-> caFile, debug |-> debug, out |-> out_,
   inkey |-> "key", cert |-> "certificate", passin |-> EmptyPassword, password |-> None, kek |-> None]

VerifyCalls ==
  {Call("verify", path, caFile, debug, out_) :
     path \in {"in", "missing"}, caFile \in {None, "ca", "junk", "missing"}, debug \in BOOLEAN,
     out_ \in {None, "out", "readonly"}}

Smime == {ByLeaf, ByDebugLeaf, ByOwnLeaf, [ByLeaf EXCEPT !.version = 3], [ByLeaf EXCEPT !.signer = None],
          [ByLeaf EXCEPT !.crls = <<"OcspRevoked">>, !.version = 5], NoData}

Recipients == {[kind |-> "certificate", secret |-> Key], [kind |-> "certificate", secret |-> OtherKey],
               [kind |-> "password", secret |-> RightPassword], [kind |-> "kek", secret |-> Kek]}
Envelopes == {Opaque(Enveloped(r, p)) :
                r \in {{a, b} : a, b \in Recipients}, p \in {TextPart(Text)} \union {Opaque(c) : c \in {ByLeaf, ByDebugLeaf}}}

DecryptCalls ==
  {[Call("decrypt", "in", None, FALSE, out_) EXCEPT !.inkey = inkey, !.cert = cert, !.passin = passin] :
     out_ \in {None, "out"}, inkey \in {"key", "key.p12", "junk", "missing"},
     cert \in {"certificate", "junk", "missing"}, passin \in {EmptyPassword, RightPassword}}
  \union {[Call("decrypt", "in", None, debug, "out") EXCEPT !.inkey = inkey, !.cert = "junk", !.password = pw, !.kek = kek] :
     debug \in BOOLEAN, inkey \in {"key", "key.p12"}, pw \in {None, RightPassword},
     kek \in {None, "kek", "cafe", "missing"}}
  \union {[Call("decrypt", "in", None, FALSE, None) EXCEPT !.inkey = inkey] : inkey \in {"kek", "in"}}

(* The output may be one of the inputs.                                    *)
NestedCalls ==
  {[Call(command, "in", caFile, debug, out_) EXCEPT !.cert = cert] :
     command \in {"verify", "decrypt"}, caFile \in {None, "ca"}, debug \in BOOLEAN,
     out_ \in {None, "out", "in", "key", "ca"}, cert \in {"certificate", "junk"}}

-----------------------------------------------------------------------------
(* PKCS#12.                                                                *)

MCValue == {Key, OtherKey, "Leaf", "Root", "Broken", "Crl"}
Bag(kind, pw, value) == [kind |-> kind, supported |-> TRUE, password |-> pw, value |-> value, parses |-> TRUE, ca |-> FALSE]
KeyBag == Bag("key", Absent, Key)
Shrouded(pw) == Bag("shrouded", pw, Key)
LeafBag == Bag("x509", Absent, "Leaf")
CaBag == [Bag("x509", Absent, "Root") EXCEPT !.ca = TRUE]
BrokenBag == [Bag("x509", Absent, "Broken") EXCEPT !.parses = FALSE]
OtherBag == Bag("other", Absent, "Crl")

Entry(kind, pw, contents) == [kind |-> kind, supported |-> TRUE, password |-> pw, contents |-> contents]
Mac(pw) == [saltLength |-> 8, iterations |-> 2, digest |-> "supported", password |-> pw]
P12(mac, entries) ==
  [decodes |-> TRUE, version |-> 3, authSafe |-> "data", mac |-> mac, entriesDecode |-> TRUE, entries |-> entries]

MacPasswords == {RightPassword, EmptyPassword, Null}
Macs == {Absent} \union {Mac(pw) : pw \in MacPasswords}
EntryPasswords == {RightPassword, EmptyPassword, WrongPassword}
Contents_ == {<<>>, <<OtherBag>>, <<CaBag, LeafBag>>, <<CaBag, BrokenBag, LeafBag>>, <<LeafBag, KeyBag>>,
              <<Shrouded(RightPassword), Bag("key", Absent, OtherKey)>>, <<OtherBag, Shrouded(EmptyPassword)>>}
Entries == {Entry("data", Absent, c) : c \in Contents_}
           \union {Entry("encrypted", pw, c) : pw \in EntryPasswords, c \in Contents_}
           \union {Entry("empty", Absent, <<>>), Entry("other", Absent, <<>>), Entry("data", Absent, Garbage),
                   [Entry("encrypted", RightPassword, <<KeyBag>>) EXCEPT !.supported = FALSE],
                   Entry("data", Absent, <<[Shrouded(RightPassword) EXCEPT !.supported = FALSE]>>)}
P12Files ==
  {P12(mac, e) : mac \in Macs, e \in {<<>>} \union {<<x>> : x \in Entries}}
  \union {P12(mac, <<x, y>>) : mac \in {Absent, Mac(RightPassword)},
            x \in Entries, y \in {e \in Entries : e.kind # "encrypted" \/ e.password = RightPassword}}
  \union {[P12(Mac(RightPassword), <<Entry("data", Absent, <<KeyBag>>)>>) EXCEPT !.mac = m] :
            m \in {[Mac(pw) EXCEPT !.saltLength = 7] : pw \in {RightPassword, WrongPassword}}
                  \union {[Mac(RightPassword) EXCEPT !.iterations = n] : n \in {0, 1, MaxIterations, MaxIterations + 1}}
                  \union {[Mac(RightPassword) EXCEPT !.digest = "other"]}}
  \union {[P12(Absent, <<Entry("data", Absent, <<KeyBag>>)>>) EXCEPT !.version = 2],
          [P12(Absent, <<>>) EXCEPT !.authSafe = "signed"], [P12(Absent, <<>>) EXCEPT !.entriesDecode = FALSE], NoPfx}

WebCalls ==
  [p12 : {"key.p12"}, password : {None, EmptyPassword, RightPassword, WrongPassword}, what : {"key", "certificate"}]

KeyFiles == {P12(Mac(RightPassword), <<Entry("encrypted", RightPassword, <<LeafBag>>), Entry("data", Absent, <<Shrouded(RightPassword)>>)>>),
             P12(Mac(Null), <<Entry("data", Absent, <<KeyBag, Bag("key", Absent, OtherKey)>>)>>),
             P12(Absent, <<Entry("data", Absent, <<LeafBag>>), Entry("other", Absent, <<>>)>>),
             P12(Absent, <<Entry("encrypted", WrongPassword, <<KeyBag>>), Entry("empty", Absent, <<>>)>>),
             P12(Absent, <<Entry("empty", Absent, <<>>)>>)}

-----------------------------------------------------------------------------
Session(length, files, answers, modify, smime, web) ==
  [length |-> length, files |-> files, servers |-> answers, modify |-> modify, smime |-> smime, web |-> web]
OnlyModify(length, files, answers, modify) == Session(length, files, answers, modify, {}, {})

AllSessions ==
  [versions |-> OnlyModify(1, {Disk(Opaque(cms)) : cms \in SignedMessages}, {Answering},
              {Modify("in", None, None, ocsp, None, "out") : ocsp \in BOOLEAN}),
   servers |-> OnlyModify(1, {Disk(Opaque(ByLeaf))}, AllAnswers, {Modify("in", None, None, TRUE, None, "out")}),
   modify |-> OnlyModify(2, {Disk(Opaque(Signed(<<Leaf>>, <<>>, "Leaf")))}, {Answering}, ModifyCalls),
   encodings |-> Session(2, {Disk(m) : m \in Opaques}, {Answering}, ModifyCalls \union Rewrites,
           {Call("verify", path, None, FALSE, None) : path \in {"in", "out"}}, {}),
   parts |-> Session(2, {Disk(m) : m \in MailWithParts}, {Answering}, Rewrites \union {Modify("in", None, None, FALSE, None, "out")},
           {Call("verify", path, None, debug, None) : path \in {"in", "out"}, debug \in BOOLEAN}, {}),
   verify |-> Session(1, {Disk(Opaque(cms)) : cms \in Smime} \union {Disk(ClearSigned(cms, Text, "base64")) : cms \in Smime},
           {}, {}, VerifyCalls, {}),
   decrypt |-> Session(1, {DiskWith(m, Inter, f) : m \in Envelopes, f \in KeyFiles}, {}, {}, DecryptCalls, {}),
   nested |-> Session(1, {Disk(m) : m \in Nested}, {}, {}, NestedCalls, {}),
   pkcs12 |-> Session(1, {DiskWith(None, Inter, f) : f \in P12Files}, {}, {}, {}, WebCalls)]

(* By name, which spares TLC the evaluation of all for each. *)
MCSessions == [name \in DOMAIN AllSessions |-> AllSessions[name]]

================================================================================
