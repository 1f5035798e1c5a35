----------------------------- MODULE CommandLine -----------------------------
(***************************************************************************)
(* The command smime (src/main.rs): `verify` and `decrypt`, from their     *)
(* arguments to the exit code.  Each step is one thing that can fail with  *)
(* EXIT_ERROR; a key in PKCS#12 is read by the machine of Pkcs12.          *)
(*                                                                         *)
(* The two library calls are one operator each, of what their result       *)
(* depends on here: the machines behind them are SignedDataVerify,         *)
(* ContentDecryption and LayerUnwrap.                                      *)
(***************************************************************************)
EXTENDS MailFiles, Pkcs12

CONSTANTS
  Anchors,     \* the CAs of the embedded stores "Builtin" and "Debug"
  P12Path,     \* paths that end in .p12 or .pfx
  Pem,         \* contents of PEM files, as far as a key is read from them
  HexOf        \* of each argument that is a hex string, what it stands for

ASSUME CommandAssumption ==
  /\ P12Path \subseteq Path /\ {"Builtin", "Debug"} \subseteq DOMAIN Anchors
  /\ None \notin Pfx /\ None \notin Pem /\ Junk \notin Pem

VARIABLES
  call,       \* [command, file, caFile, debug, out, inkey, cert, passin, password, kek]
  trust,      \* TrustConfig: [stores, ca_file_pem]
  eml,        \* what was read from call.file
  keys,       \* DecryptionKeys: [private_key, recipient_cert, password, kek]
  result,     \* [failures, signed_content], where failures is whether there are any
  phase,      \* "idle" | "trust" | "eml" | "key" | "p12" | "cert" | "run" | "output" | "exited"
  exit        \* the exit code

SmimeCall ==
  [command : {"verify", "decrypt"}, file : Path, caFile : Path \union {None}, debug : BOOLEAN,
   out : Path \union {None}, inkey : Path, cert : Path, passin : Password,
   password : Secret \union {None}, kek : Path \union DOMAIN HexOf \union {None}]

callVars == <<call, trust, eml, keys, result, phase, exit>>

ExitSuccess == 0
ExitFailure == 1    \* EXIT_FAILURE
ExitError == 2      \* EXIT_ERROR

-----------------------------------------------------------------------------
(* The library.  A signer is trusted if an anchor or a chain of the        *)
(* certificates in the message leads there.                                *)

(* Mutant: the CA file does not replace the embedded store.                *)
AnchorsAndBuiltin(t) ==
  UNION {Anchors[s] : s \in t.stores \union {"Builtin"}}
    \union (IF t.ca_file_pem = None THEN {} ELSE t.ca_file_pem)

(* load_ca_certs, for bundles that parse                                   *)
AnchorsOf(t) ==
  (UNION {Anchors[s] : s \in t.stores}) \union (IF t.ca_file_pem = None THEN {} ELSE t.ca_file_pem)

ChainLeads(name, certs, anchors) ==
  LET above[n \in Nat] ==
        IF n = 0 THEN {name}
        ELSE above[n - 1] \union {c.issuer : c \in {d \in certs : d.subject \in above[n - 1]}}
  IN name \in {c.subject : c \in certs} /\ above[Cardinality(certs)] \intersect anchors # {}

Trusted(name, cms, anchors) ==
  ChainLeads(name, {c \in ToSet(cms.certs) : c.kind = "Certificate"}, anchors)

(* The eContentType is id-data; nothing else is looked into.               *)
IsData(cms) == "OtherContent" \notin cms.features

(* Whether verify_signed_data finds nothing wrong with a message that has  *)
(* one signer; None is one whose signature does not verify.                *)
SignedWell(cms, from, content, t) ==
  /\ IsData(cms)
  /\ t.ca_file_pem # Junk
  /\ Conformant(cms)
  /\ from # None
  /\ cms.payload = content
  /\ Trusted(cms.signer, cms, AnchorsOf(t))
  /\ "OcspRevoked" \notin ToSet(cms.crls)

NothingVerified == [failures |-> TRUE, signed_content |-> None]

(* If it can be looked into, the content is there whatever becomes of the  *)
(* signer.                                                                 *)
VerifySignedData(cms, from, content, t) ==
  [failures |-> ~SignedWell(cms, from, content, t),
   signed_content |-> IF IsData(cms) THEN content ELSE None]

(* extract_smime_opaque_p7m_der, and the parsing behind it                 *)
OpaqueCms(m) == DerOfCms(Contents(m, FirstPart(m, LAMBDA header : header.kind = "pkcs7-mime")))

(* extract_smime_clear_signed_content: the part that is signed begins with *)
(* its header.                                                             *)
VerifyClearSigned(m, from, t) ==
  LET signatures == {i \in Heads(m) : m[i].of.kind = "pkcs7-signature"}
      children == Heads(m) \ {1}
  IN IF signatures = {} \/ children \ {Min(signatures)} = {} THEN NothingVerified
     ELSE LET cms == DerOfCms(Contents(m, PartAt(m, Min(signatures))))
              part == PartAt(m, Min(children \ {Min(signatures)}))
          IN IF cms = None THEN NothingVerified
             ELSE IF cms.type # "signed" THEN NothingVerified
             ELSE VerifySignedData(cms, from, SubSeq(m, part.offset_body, part.offset_end), t)

(* verify_smime_from_eml_detailed                                          *)
Verify(m, t) ==
  IF m = Junk THEN NothingVerified
  ELSE CASE RootOf(m).kind = "multipart/signed" -> VerifyClearSigned(m, RootOf(m).from, t)
         [] RootOf(m).kind = "pkcs7-mime" ->
              IF OpaqueCms(m) = None THEN NothingVerified
              ELSE IF OpaqueCms(m).type # "signed" THEN NothingVerified
              ELSE VerifySignedData(OpaqueCms(m), RootOf(m).from, OpaqueCms(m).payload, t)
         [] OTHER -> NothingVerified

(* A private key serves with the certificate that names the recipient.     *)
CanOpen(cms, k) ==
  \E r \in cms.recipients :
    \/ r.kind = "certificate" /\ k.recipient_cert = r.secret /\ k.private_key = r.secret
    \/ r.kind = "password" /\ k.password = r.secret
    \/ r.kind = "kek" /\ k.kek = r.secret

(* decrypt_and_verify_one_layer                                            *)
DecryptLayer(m, outermostFrom, k, t) ==
  IF m = Junk THEN NothingVerified
  ELSE IF RootOf(m).kind # "pkcs7-mime" THEN Verify(m, t)
  ELSE IF OpaqueCms(m) = None THEN NothingVerified
  ELSE IF OpaqueCms(m).type = "signed"
  THEN VerifySignedData(OpaqueCms(m), IF RootOf(m).from = None THEN outermostFrom ELSE RootOf(m).from,
                        OpaqueCms(m).payload, t)
  ELSE IF CanOpen(OpaqueCms(m), k) THEN [failures |-> FALSE, signed_content |-> OpaqueCms(m).payload]
  ELSE NothingVerified

(* A body in binary is no UTF-8.                                           *)
IsUtf8(m) == \A i \in DOMAIN m : m[i].at > 0 => m[i].of.text # "binary"
SmimeRoot(m) == RootOf(m).kind \in {"pkcs7-mime", "multipart/signed"}    \* is_smime_mime
IsSmime(content) == content # None /\ IsUtf8(content) /\ SmimeRoot(content)

(* A turn of the loop, for a content that is S/MIME once more.             *)
Inward(r, outermostFrom, k, t) ==
  IF IsSmime(r.signed_content) THEN DecryptLayer(r.signed_content, outermostFrom, k, t) ELSE r

(* The same for the set of one result, which TLC evaluates once.           *)
Turn(results, outermostFrom, k, t) == {Inward(r, outermostFrom, k, t) : r \in results}

(* What no turn is left for is refused.                                    *)
Ended(results) ==
  {IF IsSmime(r.signed_content) THEN NothingVerified ELSE r : r \in results}

(* decrypt_and_verify_smime_from_eml_detailed: MAX_DECRYPT_DEPTH is 4.     *)
Decrypt(m, k, t) ==
  LET from == RootOf(m).from IN
  CHOOSE r \in Ended(Turn(Turn(Turn({DecryptLayer(m, None, k, t)}, from, k, t),
                               from, k, t), from, k, t)) : TRUE

-----------------------------------------------------------------------------
CommandInit ==
  /\ call = None /\ trust = None /\ eml = None /\ keys = None /\ result = None
  /\ phase = "idle" /\ exit = ExitSuccess

StartSmime(c) ==
  /\ call' = c /\ phase' = "trust"
  /\ trust' = None /\ eml' = None /\ keys' = None /\ result' = None /\ exit' = ExitSuccess

Exit(code) == phase' = "exited" /\ exit' = code

(* Err(message)                                                            *)
Stop == Exit(ExitError) /\ UNCHANGED <<call, trust, eml, keys, result, disk>>

(* resolve_trust: the CA file replaces the embedded store, the debug store *)
(* is added to either.  Whether the file parses is not asked.              *)
ResolveTrust ==
  /\ phase = "trust"
  /\ IF call.caFile # None /\ disk[call.caFile] = None THEN Stop
     ELSE /\ trust' = [stores |-> (IF call.caFile = None THEN {"Builtin"} ELSE {})
                                    \union (IF call.debug THEN {"Debug"} ELSE {}),
                       ca_file_pem |-> IF call.caFile = None THEN None ELSE disk[call.caFile]]
          /\ phase' = "eml"
          /\ UNCHANGED <<call, eml, keys, result, exit, disk>>
  /\ UNCHANGED p12Vars

(* String::from_utf8_lossy: CMS in binary does not survive it.             *)
Lossy(m) ==
  IF m = Junk THEN Junk
  ELSE [i \in DOMAIN m |-> IF m[i].at > 0 /\ m[i].of.text = "binary"
                           THEN [m[i] EXCEPT !.of.content = Junk] ELSE m[i]]

ReadEml ==
  /\ phase = "eml"
  /\ IF disk[call.file] = None THEN Stop
     ELSE /\ eml' = Lossy(MailIn(disk[call.file]))
          /\ phase' = IF call.command = "verify" THEN "run" ELSE "key"
          /\ UNCHANGED <<call, trust, keys, result, exit, disk>>
  /\ UNCHANGED p12Vars

(* Both files are read before either is looked into.  Whether what is in   *)
(* the PEM is a key is not asked here.                                     *)
ReadKey ==
  /\ phase = "key"
  /\ IF None \in {disk[call.inkey], disk[call.cert]} THEN Stop /\ UNCHANGED p12Vars
     ELSE IF call.inkey \in P12Path
     THEN /\ Extract(disk[call.inkey], call.passin, "key")
          /\ phase' = "p12"
          /\ UNCHANGED <<call, trust, eml, keys, result, exit, disk>>
     ELSE IF disk[call.inkey] \notin Pem THEN Stop /\ UNCHANGED p12Vars
     ELSE /\ keys' = [private_key |-> disk[call.inkey]]
          /\ phase' = "cert"
          /\ UNCHANGED <<call, trust, eml, result, exit, disk, p12Vars>>

ExtractKey == phase = "p12" /\ Pkcs12Step /\ UNCHANGED <<callVars, disk>>

TakeKey ==
  /\ phase = "p12" /\ step = "done"
  /\ IF answer.kind # "Ok" THEN Stop
     ELSE /\ keys' = [private_key |-> answer.value]
          /\ phase' = "cert"
          /\ UNCHANGED <<call, trust, eml, result, exit, disk>>
  /\ UNCHANGED p12Vars

(* parse_key_arg: a hex string before a path, None if it is neither.       *)
KekOf(arg) == IF arg \in DOMAIN HexOf THEN HexOf[arg] ELSE disk[arg]

(* Mutant: the password of the key is taken for that of the message.       *)
GatherKeysWithPassin ==
  /\ phase = "cert"
  /\ IF call.kek # None /\ KekOf(call.kek) = None THEN Stop
     ELSE /\ keys' = [private_key |-> keys.private_key, recipient_cert |-> disk[call.cert],
                      password |-> call.passin,
                      kek |-> IF call.kek = None THEN None ELSE KekOf(call.kek)]
          /\ phase' = "run"
          /\ UNCHANGED <<call, trust, eml, result, exit, disk>>
  /\ UNCHANGED p12Vars

(* What is no PEM may be DER, so that the certificate is never refused     *)
(* here.                                                                   *)
GatherKeys ==
  /\ phase = "cert"
  /\ IF call.kek # None /\ KekOf(call.kek) = None THEN Stop
     ELSE /\ keys' = [private_key |-> keys.private_key, recipient_cert |-> disk[call.cert],
                      password |-> call.password,
                      kek |-> IF call.kek = None THEN None ELSE KekOf(call.kek)]
          /\ phase' = "run"
          /\ UNCHANGED <<call, trust, eml, result, exit, disk>>
  /\ UNCHANGED p12Vars

Run ==
  /\ phase = "run"
  /\ result' = IF call.command = "verify" THEN Verify(eml, trust) ELSE Decrypt(eml, keys, trust)
  /\ phase' = "output"
  /\ UNCHANGED <<call, trust, eml, keys, exit, disk, p12Vars>>

ExitOf == IF result.failures THEN ExitFailure ELSE ExitSuccess

(* write_output, and main                                                  *)
WriteOutput ==
  /\ phase = "output"
  /\ IF call.out = None THEN Exit(ExitOf) /\ UNCHANGED <<call, trust, eml, keys, result, disk>>
     ELSE IF result.signed_content = None \/ call.out \in ReadOnly THEN Stop
     ELSE /\ Written(call.out, result.signed_content)
          /\ Exit(ExitOf)
          /\ UNCHANGED <<call, trust, eml, keys, result>>
  /\ UNCHANGED p12Vars

CommandStep ==
  \/ ResolveTrust \/ ReadEml \/ ReadKey \/ ExtractKey \/ TakeKey \/ GatherKeys \/ Run \/ WriteOutput

-----------------------------------------------------------------------------
(* Properties                                                              *)

CommandTypeOK ==
  /\ phase \in {"idle", "trust", "eml", "key", "p12", "cert", "run", "output", "exited"}
  /\ exit \in {ExitSuccess, ExitFailure, ExitError}
  /\ phase \in {"eml", "key", "p12", "cert", "run", "output"} => trust.stores \subseteq DOMAIN Anchors
  /\ phase # "idle" => call \in SmimeCall
  /\ phase \in {"key", "p12", "cert"} => call.command = "decrypt"
  /\ phase = "p12" => step # "idle"
  /\ phase = "output" => result.failures \in BOOLEAN

Exited == phase = "exited"

(* What the user said to trust.                                            *)
AnchorsMeant ==
  (IF call.caFile = None THEN Anchors["Builtin"] ELSE disk[call.caFile])
    \union (IF call.debug THEN Anchors["Debug"] ELSE {})

(* What is sent as S/MIME in m, and what may be inside: what the CMS       *)
(* objects are about, or the parts of a message that is signed in clear.   *)
SmimeIn(m) ==
  {Contents(m, PartAt(m, i)) : i \in {j \in Heads(m) : m[j].of.kind \in {"pkcs7-mime", "pkcs7-signature"}}}
ContentsOf(m) ==
  IF RootOf(m).kind = "pkcs7-mime"
  THEN {cms.payload : cms \in SmimeIn(m) \intersect (SignedData \union EnvelopedData)}
  ELSE {SubSeq(m, i, PartAt(m, i).offset_end) : i \in Heads(m) \ {1}}

(* Layer by layer, down to what is inside the fourth.                      *)
Beneath(contents) == UNION {ContentsOf(m) : m \in {c \in contents : IsSmime(c)}}
Insides(m) ==
  LET one == ContentsOf(m)
      two == Beneath(one)
      three == Beneath(two)
  IN <<one, two, three, Beneath(three)>>
Layers(m) == {m} \union {c \in UNION {Insides(m)[n] : n \in 1 .. 3} : IsSmime(c)}

(* The output is no file that decides what is right; it has been           *)
(* overwritten otherwise.                                                  *)
SourcesKept == call.out \notin {call.caFile, call.inkey, call.cert, call.kek} \ {None}

(* The content was signed, in a conformant message in m, by a signer the   *)
(* CAs named by the arguments vouch for; or it was encrypted for the keys. *)
VouchedFor(content, m) ==
  \E cms \in SmimeIn(m) \intersect SignedData :
    /\ Conformant(cms) /\ cms.payload = content
    /\ Trusted(cms.signer, cms, AnchorsMeant) /\ "OcspRevoked" \notin ToSet(cms.crls)
OpenedFor(content, m) ==
  \E cms \in SmimeIn(m) : cms \in EnvelopedData /\ CanOpen(cms, keys) /\ cms.payload = content

(* Exit code 0 vouches for what is given out, all of it: what verify gives *)
(* out was signed by whom the CAs named by the arguments vouch for; what   *)
(* decrypt gives out was, in the layer of the mail it comes from, or was   *)
(* encrypted there, and nothing in it is left to be verified; and the file *)
(* that was asked for has that.                                            *)
SuccessIsEarned ==
  Exited /\ exit = ExitSuccess =>
    LET given == result.signed_content IN
    /\ SourcesKept =>
         IF call.command = "verify" THEN VouchedFor(given, eml)
         ELSE ~IsSmime(given) /\ \E m \in Layers(eml) : VouchedFor(given, m) \/ OpenedFor(given, m)
    /\ call.out # None => disk[call.out] = given

(* What the user has to open mail with, if each of the files is what it is *)
(* said to be; the key is the first one of a PKCS#12 file.                 *)
KeyMeant ==
  IF call.inkey \notin P12Path THEN {disk[call.inkey]} \intersect Pem
  ELSE LET pfx == PfxIn(disk[call.inkey])
       IN IF Sound(pfx, call.passin) THEN FirstIn(pfx, IsKey) ELSE {}

KeysMeant(key) ==
  [private_key |-> key, recipient_cert |-> disk[call.cert], password |-> call.password,
   kek |-> IF call.kek = None THEN None ELSE KekOf(call.kek)]

(* m is as its header says, whoever signed it: a message that is signed,   *)
(* with the text that is, of a type that is read, or one that k opens.     *)
Whole(m, k) ==
  LET signatures == {i \in Heads(m) : m[i].of.kind = "pkcs7-signature"}
      Readable(cms) == cms \in SignedData /\ IsData(cms)
  IN
  IF RootOf(m).kind = "pkcs7-mime"
  THEN \A cms \in SmimeIn(m) : Readable(cms) \/ (cms \in EnvelopedData /\ CanOpen(cms, k))
  ELSE /\ \A i \in signatures : Readable(Contents(m, PartAt(m, i)))
       /\ signatures # {} /\ Heads(m) \ ({1} \union signatures) # {}

(* Whoever has what a message was encrypted for, as files, passwords or    *)
(* hex strings, is given the innermost content, however the key is kept,   *)
(* however the layers are nested, four of them at most, and whatever       *)
(* becomes of the signatures.                                              *)
OwnMailIsRead ==
  Exited /\ call.command = "decrypt" /\ result # None /\ SourcesKept /\ eml # Junk =>
    \A key \in KeyMeant :
      /\ SmimeRoot(eml)
      /\ \A m \in Layers(eml) : Whole(m, KeysMeant(key))
      /\ \A m \in Insides(eml)[4] : ~IsSmime(m)
      => /\ result.signed_content \in UNION {Insides(eml)[n] : n \in 1 .. 4}
         /\ ~IsSmime(result.signed_content)

(* With files that can be read and a key that can be got out of them, the  *)
(* exit code says what became of the mail and not that something went      *)
(* wrong on the way.                                                       *)
NoErrorWithoutCause ==
  Exited /\ exit = ExitError =>
    \/ disk[call.file] = None
    \/ call.caFile # None /\ disk[call.caFile] = None
    \/ call.command = "decrypt" /\ (KeyMeant = {} \/ disk[call.cert] = None)
    \/ call.command = "decrypt" /\ call.kek # None /\ KekOf(call.kek) = None
    \/ call.out \in ReadOnly
    \/ call.out # None /\ result.signed_content = None

(* A script that looks at nothing but the exit code is not misled.         *)
ExitCodeIsTrue == SuccessIsEarned /\ NoErrorWithoutCause

=============================================================================
