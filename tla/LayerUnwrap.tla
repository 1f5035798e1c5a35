----------------------------- MODULE LayerUnwrap -----------------------------
(***************************************************************************)
(* decrypt_and_verify_smime_from_eml_detailed (src/decrypt_verify.rs):     *)
(* decrypting and verifying a message whose S/MIME layers are nested.  The *)
(* loop processes one layer at a time and goes on with the content of the  *)
(* layer as long as that content is itself S/MIME, at most MaxDepth times. *)
(*                                                                         *)
(* Abstractions.  A message is the sequence of its layers, outermost       *)
(* first; the content of layer i is layer i + 1, and content is named by   *)
(* the index of that layer (NoContent: there is none).  Addresses are      *)
(* taken in their canonical form.  verify_signed_data is replaced by what  *)
(* SignedDataVerify shows of it: which signers it lists and which of them  *)
(* are valid is given with the layer, a signer that is skipped or is not   *)
(* valid leaves a failure, and the sender shown is the one SenderDisplay   *)
(* justifies.  The repair of WildDuck's content stays within the layer.    *)
(***************************************************************************)
EXTENDS Integers, Sequences

CONSTANTS
  None,        \* Option::None
  Addr, Name,  \* mailbox addresses and display names
  Date,
  Cert,        \* signer certificates
  CertAddrs,   \* the addresses each carries
  CertNames,   \* the names each carries
  MaxDepth,    \* MAX_DECRYPT_DEPTH
  Message      \* the inputs: nested layers, and whether the trust store loads

Mailbox == [addr : Addr \union {None}, name : Name \union {None}]
Sender == [addr : Addr \union {None}, name : Name \union {None},
           date : Date \union {None}]
Signer == [cert : Cert, valid : BOOLEAN]

EnvelopeKinds == {"Enveloped", "AuthEnveloped"}
SignedKinds == {"OpaqueSigned", "ClearSigned"}

(* smime_content_kind and, below it, what the CMS object turns out to be:  *)
(* "OtherCms" is pkcs7-mime of another content type, "BadCms" and          *)
(* "BadClearSigned" cannot be extracted or parsed.                         *)
SmimeKinds == EnvelopeKinds \union SignedKinds
                \union {"OtherCms", "BadCms", "BadClearSigned"}
LayerKinds == SmimeKinds \union {"Plain", "NoContentType", "Unparsable"}

Layer ==
  [kind      : LayerKinds,
   from      : Mailbox \union {None},  \* first From of the layer's header
   date      : Date \union {None},
   utf8      : BOOLEAN,
   versionOk : BOOLEAN,                \* the CMS version is the expected one
   opens     : {"opened", "absent", "failed"},  \* decryption, or the eContent
   warns     : BOOLEAN,                \* decryption warns of a weak algorithm
   rejects   : BOOLEAN,                \* some signer is skipped with a failure
   signers   : Seq(Signer)]            \* the signers that are listed

(* A layer that opens has a content. *)
Opens(l) ==
  \/ l.kind = "ClearSigned"
  \/ l.kind \in EnvelopeKinds \union {"OpaqueSigned"} /\ l.opens = "opened"

Messages ==
  {m \in [layers : Seq(Layer), caLoads : BOOLEAN] :
     /\ m.layers # <<>>
     /\ \A i \in DOMAIN m.layers : Opens(m.layers[i]) => i < Len(m.layers)}

ASSUME ConstantsAssumption ==
  /\ None \notin Addr \union Name \union Date \union Cert
  /\ CertAddrs \in [Cert -> SUBSET Addr] /\ CertNames \in [Cert -> SUBSET Name]
  /\ MaxDepth \in Nat \ {0}

ASSUME MessageAssumption == Message \subseteq Messages

VARIABLES
  msg,
  pc,                    \* "layer" | "done"
  depth,                 \* layers processed
  result,                \* of the last layer, in the end of the whole
  accumulated_signers,
  outer_encryption_info, \* the layer it describes, NoContent for None
  outer                  \* outer_from_address, outer_from_comment, outer_date

vars == <<msg, pc, depth, result, accumulated_signers, outer_encryption_info, outer>>

-----------------------------------------------------------------------------
(* The result of one layer.                                                *)

NoContent == 0
NoSender == [addr |-> None, name |-> None, date |-> None]

Header(l) ==
  [addr |-> IF l.from = None THEN None ELSE l.from.addr,
   name |-> IF l.from = None THEN None ELSE l.from.name,
   date |-> l.date]

(* SmimeValidationResult; failures and signers carry the layer they are of *)
Failed(kind, i, sender) ==
  [failures |-> {<<kind, i>>}, signers |-> <<>>, signed_content |-> NoContent,
   sender |-> sender, encryption_info |-> NoContent]

(* Mutant: the error of the decryption is lost.                            *)
DecryptWarnings(l) ==
  {k \in {"CmsVersionMismatch", "WeakAlgorithm"} :
     IF k = "CmsVersionMismatch" THEN ~l.versionOk ELSE l.warns /\ l.opens = "opened"}

(* An envelope without content is no failure. *)
DecryptFailures(l) ==
  {k \in {"CmsVersionMismatch", "WeakAlgorithm", "DecryptionFailed"} :
     CASE k = "CmsVersionMismatch" -> ~l.versionOk
       [] k = "WeakAlgorithm"      -> l.warns /\ l.opens = "opened"
       [] k = "DecryptionFailed"   -> l.opens = "failed"}

(* decrypt_enveloped_data_layer, decrypt_auth_enveloped_data_layer         *)
DecryptLayer(l, i) ==
  [failures |-> DecryptFailures(l) \X {i},
   signers |-> <<>>,
   signed_content |-> IF l.opens = "opened" THEN i + 1 ELSE NoContent,
   sender |-> Header(l),
   encryption_info |-> i]

Display(header, claimed, addrCerts, nameCerts) ==
  INSTANCE SenderDisplay WITH endorsers <- {}, shown <- header

(* Mutant: signers vouch whether they are valid or not.                    *)
AllSigners(l) == {l.signers[k].cert : k \in DOMAIN l.signers}

(* The certificates of the valid signers. *)
Endorsers(l) == {l.signers[k].cert : k \in {j \in DOMAIN l.signers : l.signers[j].valid}}

SignedFailureKinds ==
  {"CmsVersionMismatch", "LoadCa", "MissingFrom", "ParseInner", "SignerRejected",
   "ChainValidation"}

LayerFailureKinds ==
  SignedFailureKinds
    \union {"WeakAlgorithm", "DecryptionFailed", "ParseEml", "MissingContentType",
            "NoSmimeSig", "NoSigSubpart", "ParsePkcs7Msg", "NoPkcs7Content"}

FailureKinds == LayerFailureKinds \union {"NestingDepth", "None"}

(* verify_signed_data on layer i of m, for the message's From and date,    *)
(* with `prior` the sender in the result so far.                           *)
VerifySignedData(m, i, from, date, prior) ==
  LET l == m.layers[i]
      inner == m.layers[i + 1]
      verifies == m.caLoads /\ inner.kind # "Unparsable"
      header == IF ~m.caLoads THEN prior
                ELSE IF from = None THEN [prior EXCEPT !.date = date]
                ELSE [addr |-> from.addr, name |-> from.name, date |-> date]
      claimed == Header(inner)
      kinds == {k \in SignedFailureKinds :
                  CASE k = "CmsVersionMismatch" -> ~l.versionOk
                    [] k = "LoadCa"          -> ~m.caLoads
                    [] k = "MissingFrom"     -> m.caLoads /\ from = None
                    [] k = "ParseInner"      -> m.caLoads /\ ~verifies
                    [] k = "SignerRejected"  -> verifies /\ l.rejects
                    [] k = "ChainValidation" -> verifies /\ \E j \in DOMAIN l.signers :
                                                              ~l.signers[j].valid}
  IN [failures |-> kinds \X {i},
      signers |-> IF verifies THEN [k \in DOMAIN l.signers |-> <<i, l.signers[k]>>] ELSE <<>>,
      signed_content |-> i + 1,
      sender |-> IF verifies
                 THEN Display(header, claimed,
                              {c \in Cert : claimed.addr \in CertAddrs[c]},
                              {c \in Cert : claimed.name \in CertNames[c]})!Justified(Endorsers(l))
                 ELSE header,
      encryption_info |-> NoContent]

(* verify_smime_from_eml_detailed *)
VerifyEml(m, i) ==
  LET l == m.layers[i] IN
  CASE l.kind = "Unparsable"     -> Failed("ParseEml", i, NoSender)
    [] l.kind = "NoContentType"  -> Failed("MissingContentType", i, NoSender)
    [] l.kind = "Plain"          -> Failed("NoSmimeSig", i, NoSender)
    [] l.kind = "BadClearSigned" -> Failed("NoSigSubpart", i, NoSender)
    [] l.kind = "BadCms"         -> Failed("ParsePkcs7Msg", i, NoSender)
    [] l.kind \in EnvelopeKinds \union {"OtherCms"} -> Failed("NoPkcs7Content", i, NoSender)
    [] l.kind = "ClearSigned"    -> VerifySignedData(m, i, l.from, l.date, NoSender)
    [] l.kind = "OpaqueSigned"   -> IF Opens(l)
                                    THEN VerifySignedData(m, i, l.from, l.date, NoSender)
                                    ELSE Failed("NoPkcs7Content", i, NoSender)

FromOf(s) == IF s.addr = None THEN None ELSE [addr |-> s.addr, name |-> s.name]

(* Mutant: a layer is verified for the outermost From, whatever its own.   *)
OutermostFrom(own, outermost) == FromOf(outermost)

(* own_from.or(outermost_from) *)
OwnOrOutermostFrom(own, outermost) ==
  IF own.addr # None THEN FromOf(own) ELSE FromOf(outermost)

(* decrypt_and_verify_one_layer: only an opaque signature without a From   *)
(* or Date of its own is verified for the outermost message's.             *)
OneLayer(m, i, outermost) ==
  LET l == m.layers[i]
      own == Header(l)
  IN CASE l.kind \in EnvelopeKinds -> DecryptLayer(l, i)
       [] l.kind = "OtherCms"      -> Failed("NoPkcs7Content", i, own)
       [] l.kind = "OpaqueSigned"  ->
            IF Opens(l)
            THEN VerifySignedData(m, i, OwnOrOutermostFrom(own, outermost),
                   IF own.date # None THEN own.date ELSE outermost.date, own)
            ELSE Failed("NoPkcs7Content", i, own)
       [] OTHER                    -> VerifyEml(m, i)

-----------------------------------------------------------------------------
(* The loop.                                                               *)

Init ==
  /\ msg \in Message
  /\ pc = "layer" /\ depth = 0
  /\ result = Failed("None", 0, NoSender)
  /\ accumulated_signers = <<>>
  /\ outer_encryption_info = NoContent
  /\ outer = NoSender

Current == OneLayer(msg, depth + 1, outer)

(* Mutant: a clear-signed content is not recognised.                       *)
IsPkcs7Mime(m, content) ==
  /\ content # NoContent /\ m.layers[content].utf8
  /\ m.layers[content].kind \in SmimeKinds \ {"ClearSigned", "BadClearSigned"}

(* is_smime_mime of the content, which is text: there is a next layer      *)
IsSmimeMime(m, content) ==
  content # NoContent /\ m.layers[content].utf8 /\ m.layers[content].kind \in SmimeKinds

(* Mutant: the signers of the layer replace those collected before.        *)
KeepLatest(r) ==
  /\ depth' = depth + 1
  /\ outer_encryption_info' = IF outer_encryption_info = NoContent
                              THEN r.encryption_info ELSE outer_encryption_info
  /\ outer' = IF depth = 0 THEN r.sender ELSE outer
  /\ accumulated_signers' = r.signers
  /\ UNCHANGED msg

(* What the loop keeps of a layer before it looks at the content.          *)
Keep(r) ==
  /\ depth' = depth + 1
  /\ outer_encryption_info' = IF outer_encryption_info = NoContent
                              THEN r.encryption_info ELSE outer_encryption_info
  /\ outer' = IF depth = 0 THEN r.sender ELSE outer
  /\ accumulated_signers' = accumulated_signers \o r.signers
  /\ UNCHANGED msg

(* Mutant: the bound is off by one.                                        *)
UnwrapOneMore ==
  /\ pc = "layer" /\ depth <= MaxDepth
  /\ IsSmimeMime(msg, Current.signed_content)
  /\ Keep(Current)
  /\ UNCHANGED <<pc, result>>

UnwrapLayer ==
  /\ pc = "layer" /\ depth < MaxDepth
  /\ IsSmimeMime(msg, Current.signed_content)
  /\ Keep(Current)
  /\ UNCHANGED <<pc, result>>

(* Each field the last layer leaves empty is filled from the outermost.    *)
FilledFrom(sender, outermost) ==
  LET Or(own, other) == IF own = None THEN other ELSE own IN
  [addr |-> Or(sender.addr, outermost.addr),
   name |-> Or(sender.name, outermost.name),
   date |-> Or(sender.date, outermost.date)]

(* result.encryption_info was moved into outer_encryption_info, if that    *)
(* was still empty, and is moved back.                                     *)
Finalize ==
  /\ pc = "layer" /\ depth < MaxDepth
  /\ ~IsSmimeMime(msg, Current.signed_content)
  /\ Keep(Current)
  /\ result' = [Current EXCEPT
       !.signers = accumulated_signers',
       !.encryption_info = IF Current.encryption_info = NoContent
                           THEN outer_encryption_info' ELSE Current.encryption_info,
       !.sender = FilledFrom(Current.sender, outer')]
  /\ pc' = "done"

(* Mutant: what is left after MaxDepth layers is dropped without a word.   *)
GiveUpSilently ==
  /\ pc = "layer" /\ depth = MaxDepth
  /\ result' = [Failed("NestingDepth", depth, outer) EXCEPT
       !.failures = {},
       !.signers = accumulated_signers,
       !.encryption_info = outer_encryption_info]
  /\ pc' = "done"
  /\ UNCHANGED <<msg, depth, accumulated_signers, outer_encryption_info, outer>>

GiveUp ==
  /\ pc = "layer" /\ depth = MaxDepth
  /\ result' = [Failed("NestingDepth", depth, outer) EXCEPT
       !.signers = accumulated_signers,
       !.encryption_info = outer_encryption_info]
  /\ pc' = "done"
  /\ UNCHANGED <<msg, depth, accumulated_signers, outer_encryption_info, outer>>

(* Mutant: nothing happens once the bound is reached.                      *)
NextWithinBound == UnwrapLayer \/ Finalize

Next == UnwrapLayer \/ Finalize \/ GiveUp

Spec == Init /\ [][Next]_vars /\ WF_vars(Next)

-----------------------------------------------------------------------------
(* Properties                                                              *)

Layers == msg.layers
Result ==
  [failures : SUBSET (FailureKinds \X Nat), signers : Seq(Nat \X Signer),
   signed_content : Nat, sender : Sender, encryption_info : Nat]

(* The types of the loop's variables; the layer about to be processed is   *)
(* one that the message has.                                               *)
TypeOK ==
  /\ msg.layers \in Seq(Layer)
  /\ pc \in {"layer", "done"}
  /\ depth \in 0 .. MaxDepth
  /\ pc = "layer" => depth < Len(Layers)
  /\ result \in Result
  /\ accumulated_signers \in Seq(Nat \X Signer)
  /\ outer_encryption_info \in Nat
  /\ outer \in Sender

(* There is a layer i and it is S/MIME text.                               *)
StillProtected(i) ==
  i \in DOMAIN Layers /\ Layers[i].utf8 /\ Layers[i].kind \in SmimeKinds

(* Layer i leads on: what it protects is another S/MIME layer.             *)
LeadsOn(i) == Opens(Layers[i]) /\ StillProtected(i + 1)

(* What is handed out as content is never itself an S/MIME layer, still    *)
(* encrypted or signed, although the recursion is bounded: beyond the      *)
(* bound nothing is handed out.                                            *)
ContentIsUnwrapped ==
  pc = "done" => ~StillProtected(result.signed_content)

(* The nesting is refused exactly when MaxDepth layers have been removed   *)
(* and there is still another one below them.                              *)
DepthLimit ==
  pc = "done" =>
    (<<"NestingDepth", MaxDepth>> \in result.failures
       <=> \A i \in 1 .. MaxDepth : i < Len(Layers) /\ LeadsOn(i))

(* Layers are removed until there is none, and not one more or fewer at    *)
(* the bound.                                                              *)
UnwrappingIsExact == ContentIsUnwrapped /\ DepthLimit

(* The layer after which the loop stopped is the first that does not lead  *)
(* on, and every signer that was listed on the way down is in the result,  *)
(* once and in its place: in the order of the layers, and of each layer in *)
(* that of its signerInfos, also if the nesting is refused.                *)
SignersOf(i) ==
  IF Layers[i].kind \in SignedKinds /\ Opens(Layers[i]) /\ msg.caLoads
       /\ Layers[i + 1].kind # "Unparsable"
  THEN Layers[i].signers ELSE <<>>

ListedInLayers(signers, n) ==
  /\ \A j \in DOMAIN signers : signers[j][1] \in 1 .. n
  /\ \A j, k \in DOMAIN signers : j < k => signers[j][1] <= signers[k][1]
  /\ \A i \in 1 .. n : \E first \in 0 .. Len(signers) :
       /\ {j \in DOMAIN signers : signers[j][1] = i} = first + 1 .. first + Len(SignersOf(i))
       /\ \A k \in DOMAIN SignersOf(i) : signers[first + k][2] = SignersOf(i)[k]

SignersOfAllLayersAreListed ==
  pc = "done" =>
    /\ \A i \in 1 .. (depth - 1) : LeadsOn(i)
    /\ ListedInLayers(result.signers, depth)

(* An address that differs from the one of the outermost message is shown  *)
(* only if the innermost layer processed names it in its header, or if a   *)
(* valid signer of the outermost or innermost layer carries it.            *)
ShownAddressHasSource ==
  pc = "done" /\ result.sender.addr # None =>
    LET shown == result.sender.addr
        vouched(i) == \E k \in DOMAIN SignersOf(i) :
                        SignersOf(i)[k].valid /\ shown \in CertAddrs[SignersOf(i)[k].cert]
    IN \/ shown = Header(Layers[1]).addr \/ shown = Header(Layers[depth]).addr
       \/ vouched(1) \/ vouched(depth)

(* Decrypting agrees with verifying: on a message that is not encrypted,   *)
(* and of which no more than one layer is opened, the failures, signers    *)
(* and content are those of verify_smime_from_eml_detailed, unless the     *)
(* From has no address.                                                    *)
AgreesWithVerify ==
  pc = "done" /\ depth = 1 /\ ~LeadsOn(1) /\ Layers[1].kind \in LayerKinds \ EnvelopeKinds
    /\ (Layers[1].from # None => Layers[1].from.addr # None) =>
    LET v == VerifyEml(msg, 1) IN
    /\ result.failures = v.failures
    /\ result.signers = v.signers
    /\ result.signed_content = v.signed_content

(* A result without failures hands out a content, unless the innermost     *)
(* envelope has none; and no signer of the innermost layer is invalid.     *)
CleanResultIsComplete ==
  pc = "done" /\ result.failures = {} =>
    /\ \/ result.signed_content # NoContent
       \/ Layers[depth].kind \in EnvelopeKinds /\ Layers[depth].opens = "absent"
    /\ \A k \in DOMAIN SignersOf(depth) : SignersOf(depth)[k].valid

(* The loop ends for every nesting.                                        *)
Termination == (pc # "done") ~> (pc = "done")

-----------------------------------------------------------------------------
(* What comments in the code say of this loop, and the loop does not do.   *)

LayerFailures(i) == OneLayer(msg, i, IF i = 1 THEN NoSender ELSE outer).failures

(* types.rs, of failures: "Errors that occurred during validation".        *)
FailuresOfAllLayersAreReported ==
  pc = "done" => \A i \in 1 .. depth : LayerFailures(i) \subseteq result.failures

(* lib.rs, of the inner From that matches the certificate: "we prefer it   *)
(* over the outer (potentially unsigned) From header".                     *)
VouchedSenderReplacesOuter ==
  pc = "done" /\ result.failures = {}
    /\ Len(SignersOf(depth)) = 1 /\ SignersOf(depth)[1].valid
    /\ Header(Layers[depth + 1]).addr \in CertAddrs[SignersOf(depth)[1].cert] =>
    result.sender.name \in {None, Header(Layers[depth + 1]).name}

=============================================================================
