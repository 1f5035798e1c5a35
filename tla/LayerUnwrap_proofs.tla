-------------------------- MODULE LayerUnwrap_proofs --------------------------
(***************************************************************************)
(* Theorems about LayerUnwrap, for messages of any depth of nesting and    *)
(* any MaxDepth.                                                           *)
(*                                                                         *)
(*   TypeCorrect         Spec => []TypeOK                                  *)
(*   UnwrappedContent    Spec => []ContentIsUnwrapped                      *)
(*   DepthLimitExact     Spec => []DepthLimit                              *)
(*   UnwrappingExact     Spec => []UnwrappingIsExact                       *)
(*   AddressSource       Spec => []ShownAddressHasSource                   *)
(*   CleanComplete       Spec => []CleanResultIsComplete                   *)
(*   VerifyAgreement     Spec => []AgreesWithVerify                        *)
(*   SignersListed       Spec => []SignersOfAllLayersAreListed             *)
(*                                                                         *)
(* The inductive invariant (LoopInv) says that every layer removed so far  *)
(* leads on to the next one, and that the loop ends either at the bound    *)
(* with all of them doing so, or below it at a layer that does not. The    *)
(* next three need to know what the result was made from (EndInv): the     *)
(* layer the loop ended at, or the bound, with gaps in the sender filled   *)
(* from the outermost layer.  The last follows the list of signers         *)
(* (SignersInv).                                                           *)
(***************************************************************************)
EXTENDS LayerUnwrap, TLAPS

-----------------------------------------------------------------------------
(* The result of one layer.                                                *)

LEMMA MessageFacts ==
  ASSUME NEW m \in Messages
  PROVE  /\ m.layers \in Seq(Layer) /\ Len(m.layers) \in Nat /\ Len(m.layers) > 0
         /\ DOMAIN m.layers = 1 .. Len(m.layers)
         /\ \A i \in 1 .. Len(m.layers) : Opens(m.layers[i]) => i < Len(m.layers)
BY DEF Messages

LEMMA HeaderType ==
  ASSUME NEW l \in Layer
  PROVE  Header(l) \in Sender
BY DEF Header, Sender, Layer, Mailbox

LayerResult(m, i) ==
  [failures : SUBSET (LayerFailureKinds \X {i}), signers : Seq({i} \X Signer),
   signed_content : {IF Opens(m.layers[i]) THEN i + 1 ELSE NoContent},
   sender : Sender, encryption_info : {NoContent, i}]

LEMMA FailedType ==
  ASSUME NEW m, NEW i, NEW kind \in LayerFailureKinds, NEW sender \in Sender,
         ~Opens(m.layers[i])
  PROVE  Failed(kind, i, sender) \in LayerResult(m, i)
BY DEF Failed, LayerResult

LEMMA DecryptLayerType ==
  ASSUME NEW m \in Messages, NEW i \in 1 .. Len(m.layers),
         m.layers[i].kind \in EnvelopeKinds
  PROVE  DecryptLayer(m.layers[i], i) \in LayerResult(m, i)
<1>. DEFINE l == m.layers[i]
<1>1. l \in Layer
  BY MessageFacts
<1>2. DecryptFailures(l) \X {i} \subseteq LayerFailureKinds \X {i}
  BY DEF DecryptFailures, LayerFailureKinds, SignedFailureKinds
<1>3. Opens(l) <=> l.opens = "opened"
  BY DEF Opens, EnvelopeKinds
<1>4. Header(l) \in Sender
  BY <1>1, HeaderType
<1>5. (IF l.opens = "opened" THEN i + 1 ELSE NoContent)
        = (IF Opens(l) THEN i + 1 ELSE NoContent)
  BY <1>3
<1>6. <<>> \in Seq({i} \X Signer)
  OBVIOUS
<1>. HIDE DEF l
<1>7. [failures |-> DecryptFailures(l) \X {i}, signers |-> <<>>,
       signed_content |-> IF l.opens = "opened" THEN i + 1 ELSE NoContent,
       sender |-> Header(l), encryption_info |-> i]
        \in [failures : SUBSET (LayerFailureKinds \X {i}), signers : Seq({i} \X Signer),
            signed_content : {IF Opens(l) THEN i + 1 ELSE NoContent},
            sender : Sender, encryption_info : {NoContent, i}]
  BY <1>2, <1>4, <1>5, <1>6
<1>. QED  BY <1>7 DEF l, DecryptLayer, LayerResult

LEMMA VerifySignedDataType ==
  ASSUME NEW m \in Messages, NEW i \in 1 .. Len(m.layers), Opens(m.layers[i]),
         NEW from \in [addr : Addr \union {None}, name : Name \union {None}] \union {None},
         NEW date \in Date \union {None}, NEW prior \in Sender
  PROVE  VerifySignedData(m, i, from, date, prior) \in LayerResult(m, i)
<1>. DEFINE l == m.layers[i]
            inner == m.layers[i + 1]
            verifies == m.caLoads /\ inner.kind # "Unparsable"
            header == IF ~m.caLoads THEN prior
                      ELSE IF from = None THEN [prior EXCEPT !.date = date]
                      ELSE [addr |-> from.addr, name |-> from.name, date |-> date]
            claimed == Header(inner)
            r == VerifySignedData(m, i, from, date, prior)
<1>1. l \in Layer /\ inner \in Layer
  BY MessageFacts
<1>2. header \in Sender
  BY DEF Sender
<1>3. claimed \in Sender
  BY <1>1, HeaderType
<1>4. r.failures \subseteq LayerFailureKinds \X {i}
  BY DEF VerifySignedData, LayerFailureKinds
<1>5. r.signers \in Seq({i} \X Signer)
  BY <1>1 DEF VerifySignedData, Layer
<1>6. r.sender \in Sender
  BY <1>2, <1>3 DEF VerifySignedData, Display!Justified, Sender
<1>. QED  BY <1>4, <1>5, <1>6 DEF VerifySignedData, LayerResult

LEMMA VerifyEmlType ==
  ASSUME NEW m \in Messages, NEW i \in 1 .. Len(m.layers),
         m.layers[i].kind \notin EnvelopeKinds \union {"OtherCms"}
  PROVE  VerifyEml(m, i) \in LayerResult(m, i)
<1>. DEFINE l == m.layers[i]
<1>1. l \in Layer
  BY MessageFacts
<1>2. NoSender \in Sender
  BY DEF NoSender, Sender
<1>3. l.from \in [addr : Addr \union {None}, name : Name \union {None}] \union {None}
      /\ l.date \in Date \union {None}
  BY <1>1 DEF Layer, Mailbox
<1>4. CASE Opens(l)
  <2>1. l.kind \in {"ClearSigned", "OpaqueSigned"}
    BY <1>4 DEF Opens
  <2>2. VerifyEml(m, i) = VerifySignedData(m, i, l.from, l.date, NoSender)
    BY <1>4, <2>1 DEF VerifyEml, EnvelopeKinds
  <2>3. VerifySignedData(m, i, l.from, l.date, NoSender) \in LayerResult(m, i)
    <3>1. Opens(m.layers[i])
      BY <1>4
    <3>. HIDE DEF l
    <3>. QED  BY <1>2, <1>3, <3>1, VerifySignedDataType
  <2>. QED  BY <2>2, <2>3
<1>5. CASE ~Opens(l)
  <2>1. \E kind \in LayerFailureKinds : VerifyEml(m, i) = Failed(kind, i, NoSender)
    BY <1>1, <1>5 DEF VerifyEml, LayerFailureKinds, Layer, LayerKinds, SmimeKinds,
                      EnvelopeKinds, SignedKinds, Opens
  <2>. QED  BY <1>2, <1>5, <2>1, FailedType
<1>. QED  BY <1>4, <1>5

LEMMA OneLayerType ==
  ASSUME NEW m \in Messages, NEW i \in 1 .. Len(m.layers), NEW outermost \in Sender
  PROVE  OneLayer(m, i, outermost) \in LayerResult(m, i)
<1>. DEFINE l == m.layers[i]
            own == Header(l)
            from == OwnOrOutermostFrom(own, outermost)
            date == IF own.date # None THEN own.date ELSE outermost.date
<1>1. l \in Layer /\ own \in Sender
  BY MessageFacts, HeaderType
<1>2. from \in [addr : Addr \union {None}, name : Name \union {None}] \union {None}
      /\ date \in Date \union {None}
  BY <1>1 DEF OwnOrOutermostFrom, FromOf, Sender
<1>3. "NoPkcs7Content" \in LayerFailureKinds
  BY DEF LayerFailureKinds
<1>. HIDE DEF from, date, own
<1>4. CASE l.kind \in EnvelopeKinds
  <2>1. OneLayer(m, i, outermost) = DecryptLayer(l, i)
    BY <1>4 DEF OneLayer, EnvelopeKinds
  <2>. QED  BY <1>4, <2>1, DecryptLayerType
<1>5. CASE l.kind = "OtherCms"
  <2>1. OneLayer(m, i, outermost) = Failed("NoPkcs7Content", i, own)
    BY <1>5 DEF OneLayer, EnvelopeKinds, own
  <2>2. ~Opens(l)
    BY <1>5 DEF Opens, EnvelopeKinds
  <2>. QED  BY <1>1, <1>3, <2>1, <2>2, FailedType
<1>6. CASE l.kind = "OpaqueSigned" /\ Opens(l)
  <2>1. OneLayer(m, i, outermost) = VerifySignedData(m, i, from, date, own)
    BY <1>6 DEF OneLayer, EnvelopeKinds, own, from, date
  <2>. QED  BY <1>1, <1>2, <1>6, <2>1, VerifySignedDataType
<1>7. CASE l.kind = "OpaqueSigned" /\ ~Opens(l)
  <2>1. OneLayer(m, i, outermost) = Failed("NoPkcs7Content", i, own)
    BY <1>7 DEF OneLayer, EnvelopeKinds, own
  <2>. QED  BY <1>1, <1>3, <1>7, <2>1, FailedType
<1>8. CASE l.kind \notin EnvelopeKinds \union {"OtherCms", "OpaqueSigned"}
  <2>1. OneLayer(m, i, outermost) = VerifyEml(m, i)
    BY <1>8 DEF OneLayer
  <2>. QED  BY <1>8, <2>1, VerifyEmlType
<1>. QED  BY <1>4, <1>5, <1>6, <1>7, <1>8

-----------------------------------------------------------------------------
(* The loop.                                                               *)

Removed(n) == \A i \in 1 .. n : LeadsOn(i)

(* Where the loop stopped, and what it then hands out.                     *)
Stopped ==
  \/ /\ depth = MaxDepth /\ Removed(MaxDepth) /\ MaxDepth < Len(Layers)
     /\ result.signed_content = NoContent
     /\ <<"NestingDepth", MaxDepth>> \in result.failures
  \/ /\ ~LeadsOn(depth) /\ depth \in 1 .. MaxDepth
     /\ ~StillProtected(result.signed_content)
     /\ <<"NestingDepth", MaxDepth>> \notin result.failures

LoopInv ==
  /\ TypeOK
  /\ msg \in Messages
  /\ pc = "layer" => Removed(depth)
  /\ pc = "done" => Stopped

LEMMA LayerResultTyped ==
  ASSUME NEW m, NEW i \in Nat, NEW r \in LayerResult(m, i)
  PROVE  /\ r \in Result
         /\ r.signers \in Seq(Nat \X Signer)
         /\ <<"NestingDepth", MaxDepth>> \notin r.failures
<1>1. "NestingDepth" \notin LayerFailureKinds
  BY DEF LayerFailureKinds, SignedFailureKinds
<1>2. r.failures \in SUBSET (FailureKinds \X Nat)
  BY DEF LayerResult, FailureKinds
<1>3. r.signers \in Seq(Nat \X Signer)
  BY DEF LayerResult
<1>4. r.signed_content \in Nat /\ r.encryption_info \in Nat /\ r.sender \in Sender
  BY DEF LayerResult, NoContent
<1>5. r = [failures |-> r.failures, signers |-> r.signers,
           signed_content |-> r.signed_content, sender |-> r.sender,
           encryption_info |-> r.encryption_info]
  BY DEF LayerResult
<1>6. r \in Result
  <2>1. ASSUME NEW F, NEW f \in F, NEW S, NEW q \in S, NEW c \in Nat, NEW e \in Nat,
               NEW d \in Sender
        PROVE  [failures |-> f, signers |-> q, signed_content |-> c, sender |-> d,
                encryption_info |-> e]
                 \in [failures : F, signers : S, signed_content : Nat, sender : Sender,
                     encryption_info : Nat]
    OBVIOUS
  <2>. QED  BY <1>2, <1>3, <1>4, <1>5, <2>1, Zenon DEF Result
<1>7. <<"NestingDepth", MaxDepth>> \notin r.failures
  BY <1>1 DEF LayerResult
<1>. QED  BY <1>3, <1>6, <1>7

LEMMA KeepType ==
  ASSUME LoopInv, NEW r \in LayerResult(msg, depth + 1), Keep(r), depth < MaxDepth
  PROVE  /\ depth' \in 1 .. MaxDepth /\ depth' = depth + 1 /\ msg' = msg
         /\ accumulated_signers' \in Seq(Nat \X Signer)
         /\ outer_encryption_info' \in Nat
         /\ outer' \in Sender
<1>1. depth \in 0 .. MaxDepth /\ MaxDepth \in Nat /\ depth + 1 \in Nat
  BY ConstantsAssumption DEF LoopInv, TypeOK
<1>2. r \in Result /\ r.signers \in Seq(Nat \X Signer)
  BY <1>1, LayerResultTyped
<1>3. r.encryption_info \in Nat /\ r.sender \in Sender
  BY <1>2 DEF Result
<1>4. accumulated_signers \o r.signers \in Seq(Nat \X Signer)
  BY <1>2 DEF LoopInv, TypeOK
<1>. QED  BY <1>1, <1>3, <1>4 DEF Keep, LoopInv, TypeOK

(* What the loop tests tells exactly whether the layer leads on. *)
LEMMA ContentLeadsOn ==
  ASSUME msg \in Messages, NEW i \in 1 .. Len(Layers), NEW r \in LayerResult(msg, i)
  PROVE  /\ IsSmimeMime(msg, r.signed_content) <=> LeadsOn(i)
         /\ LeadsOn(i) => i < Len(Layers)
         /\ StillProtected(r.signed_content) => IsSmimeMime(msg, r.signed_content)
<1>1. i \in Nat /\ i + 1 # 0 /\ DOMAIN Layers = 1 .. Len(Layers) /\ Len(Layers) \in Nat
      /\ (Opens(Layers[i]) => i < Len(Layers))
  BY MessageFacts DEF Layers
<1>2. r.signed_content = IF Opens(Layers[i]) THEN i + 1 ELSE 0
  BY DEF LayerResult, Layers, NoContent
<1>3. CASE Opens(Layers[i])
  BY <1>1, <1>2, <1>3 DEF IsSmimeMime, LeadsOn, StillProtected, NoContent, Layers
<1>4. CASE ~Opens(Layers[i])
  BY <1>1, <1>2, <1>4 DEF IsSmimeMime, LeadsOn, StillProtected, NoContent, Layers
<1>. QED  BY <1>3, <1>4

LEMMA LoopInvInit == Init => LoopInv
<1>. SUFFICES ASSUME Init PROVE LoopInv
  OBVIOUS
<1>1. msg \in Messages
  BY MessageAssumption DEF Init
<1>2. NoSender \in Sender
  BY DEF NoSender, Sender
<1>3. result \in Result
  BY <1>2 DEF Init, Failed, Result, FailureKinds, NoContent
<1>4. msg.layers \in Seq(Layer) /\ 0 < Len(Layers) /\ MaxDepth \in Nat
  BY <1>1, MessageFacts, ConstantsAssumption DEF Layers
<1>5. TypeOK
  BY <1>2, <1>3, <1>4 DEF Init, TypeOK, NoContent
<1>. QED  BY <1>1, <1>5 DEF LoopInv, Init, Removed

LEMMA LoopInvNext == LoopInv /\ [Next]_vars => LoopInv'
<1>. SUFFICES ASSUME LoopInv, [Next]_vars PROVE LoopInv'
  OBVIOUS
<1>1. /\ msg \in Messages /\ depth \in 0 .. MaxDepth /\ MaxDepth \in Nat \ {0}
      /\ msg.layers \in Seq(Layer) /\ Len(Layers) \in Nat /\ outer \in Sender
  BY MessageFacts, ConstantsAssumption DEF LoopInv, TypeOK, Layers
<1>2. ASSUME pc = "layer"
      PROVE  depth + 1 \in 1 .. Len(Layers) /\ Current \in LayerResult(msg, depth + 1)
  <2>1. depth + 1 \in 1 .. Len(Layers)
    BY <1>1, <1>2 DEF LoopInv, TypeOK
  <2>. QED  BY <1>1, <2>1, OneLayerType DEF Current, Layers
<1>3. CASE UnwrapLayer
  <2>1. /\ pc = "layer" /\ pc' = "layer" /\ result' = result /\ Keep(Current)
        /\ depth < MaxDepth /\ IsSmimeMime(msg, Current.signed_content)
    BY <1>3 DEF UnwrapLayer
  <2>2. /\ depth' \in 1 .. MaxDepth /\ depth' = depth + 1 /\ msg' = msg
        /\ accumulated_signers' \in Seq(Nat \X Signer)
        /\ outer_encryption_info' \in Nat /\ outer' \in Sender
    BY <1>2, <2>1, KeepType
  <2>3. LeadsOn(depth + 1) /\ depth + 1 < Len(Layers)
    BY <1>1, <1>2, <2>1, ContentLeadsOn
  <2>4. TypeOK'
    BY <1>1, <2>1, <2>2, <2>3 DEF TypeOK, LoopInv, Layers
  <2>5. Removed(depth + 1)
    BY <1>1, <2>1, <2>3 DEF LoopInv, Removed
  <2>6. Removed(depth)'
    BY <2>2, <2>5 DEF Removed, LeadsOn, StillProtected, Layers
  <2>. QED  BY <1>1, <2>1, <2>2, <2>4, <2>6 DEF LoopInv
<1>4. CASE Finalize
  <2>1. /\ pc = "layer" /\ pc' = "done" /\ Keep(Current) /\ depth < MaxDepth
        /\ ~IsSmimeMime(msg, Current.signed_content)
    BY <1>4 DEF Finalize
  <2>2. /\ depth' \in 1 .. MaxDepth /\ depth' = depth + 1 /\ msg' = msg
        /\ accumulated_signers' \in Seq(Nat \X Signer)
        /\ outer_encryption_info' \in Nat /\ outer' \in Sender
    BY <1>2, <2>1, KeepType
  <2>3. ~LeadsOn(depth + 1) /\ ~StillProtected(Current.signed_content)
    BY <1>1, <1>2, <2>1, ContentLeadsOn
  <2>4. Current \in Result /\ <<"NestingDepth", MaxDepth>> \notin Current.failures
    <3>1. depth + 1 \in Nat /\ Current \in LayerResult(msg, depth + 1)
      BY <1>1, <1>2, <2>1
    <3>. QED  BY <3>1, LayerResultTyped
  <2>5. FilledFrom(Current.sender, outer') \in Sender
    <3>1. Current.sender \in Sender
      BY <2>4 DEF Result
    <3>2. ASSUME NEW s \in Sender, NEW o \in Sender
          PROVE  FilledFrom(s, o) \in Sender
      BY DEF FilledFrom, Sender
    <3>. QED  BY <2>2, <3>1, <3>2
  <2>6. /\ result' \in Result
        /\ result'.failures = Current.failures
        /\ result'.signed_content = Current.signed_content
    BY <1>4, <2>2, <2>4, <2>5 DEF Finalize, Result
  <2>7. TypeOK'
    BY <1>1, <2>1, <2>2, <2>6 DEF TypeOK
  <2>8. ~LeadsOn(depth)' /\ ~StillProtected(result.signed_content)'
    BY <2>2, <2>3, <2>6 DEF LeadsOn, StillProtected, Layers
  <2>9. Stopped'
    BY <2>2, <2>4, <2>6, <2>8 DEF Stopped
  <2>. QED  BY <1>1, <2>1, <2>2, <2>7, <2>9 DEF LoopInv
<1>5. CASE GiveUp
  <2>1. /\ pc = "layer" /\ pc' = "done" /\ depth = MaxDepth
        /\ UNCHANGED <<msg, depth, accumulated_signers, outer_encryption_info, outer>>
    BY <1>5 DEF GiveUp
  <2>2. /\ result' \in Result
        /\ result'.failures = {<<"NestingDepth", depth>>}
        /\ result'.signed_content = NoContent
    <3>1. result' = [failures |-> {<<"NestingDepth", depth>>},
                     signers |-> accumulated_signers, signed_content |-> NoContent,
                     sender |-> outer, encryption_info |-> outer_encryption_info]
      BY <1>5 DEF GiveUp, Failed
    <3>2. {<<"NestingDepth", depth>>} \in SUBSET (FailureKinds \X Nat)
      BY <1>1 DEF FailureKinds
    <3>. QED  BY <3>1, <3>2 DEF Result, NoContent, LoopInv, TypeOK
  <2>3. TypeOK'
    BY <1>1, <2>1, <2>2 DEF TypeOK, LoopInv
  <2>4. Removed(MaxDepth) /\ MaxDepth < Len(Layers)
    BY <2>1 DEF LoopInv, TypeOK
  <2>5. Removed(MaxDepth)' /\ (MaxDepth < Len(Layers))'
    BY <2>1, <2>4 DEF Removed, LeadsOn, StillProtected, Layers
  <2>6. Stopped'
    BY <2>1, <2>2, <2>5 DEF Stopped, NoContent
  <2>. QED  BY <1>1, <2>1, <2>3, <2>6 DEF LoopInv
<1>6. CASE UNCHANGED vars
  BY <1>6 DEF vars, LoopInv, TypeOK, Stopped, Removed, LeadsOn, StillProtected, Layers
<1>. QED  BY <1>3, <1>4, <1>5, <1>6 DEF Next

LEMMA LoopInvariant == Spec => []LoopInv
<1>. QED  BY LoopInvInit, LoopInvNext, PTL DEF Spec

-----------------------------------------------------------------------------
(* What the result owes to the last layer and to the outermost one.        *)

Vouched(i, a) ==
  \E k \in DOMAIN SignersOf(i) :
    SignersOf(i)[k].valid /\ a \in CertAddrs[SignersOf(i)[k].cert]

(* The sender verify_signed_data shows is the one it was given, or one that *)
(* a valid signer of the layer vouches for.                                 *)
LEMMA VerifiedSource ==
  ASSUME msg \in Messages, NEW i \in 1 .. Len(Layers),
         Layers[i].kind \in SignedKinds, Opens(Layers[i]),
         NEW from, NEW date, NEW prior \in Sender, NEW a,
         a = VerifySignedData(msg, i, from, date, prior).sender.addr
  PROVE  a = prior.addr \/ (from # None /\ a = from.addr) \/ Vouched(i, a)
<1>. DEFINE l == Layers[i]
            inner == Layers[i + 1]
            verifies == msg.caLoads /\ inner.kind # "Unparsable"
            header == IF ~msg.caLoads THEN prior
                      ELSE IF from = None THEN [prior EXCEPT !.date = date]
                      ELSE [addr |-> from.addr, name |-> from.name, date |-> date]
            claimed == Header(inner)
            addrCerts == {c \in Cert : claimed.addr \in CertAddrs[c]}
            nameCerts == {c \in Cert : claimed.name \in CertNames[c]}
            shown == Display(header, claimed, addrCerts, nameCerts)!Justified(Endorsers(l))
<1>1. header.addr = prior.addr \/ (from # None /\ header.addr = from.addr)
  BY DEF Sender
<1>2. VerifySignedData(msg, i, from, date, prior).sender = IF verifies THEN shown ELSE header
  BY DEF VerifySignedData, Layers
<1>3. CASE ~verifies
  BY <1>1, <1>2, <1>3
<1>4. CASE verifies
  <2>1. \/ shown = header
        \/ shown.addr = claimed.addr /\ Endorsers(l) \intersect addrCerts # {}
    BY DEF Display!Justified, Header
  <2>2. SignersOf(i) = l.signers
    BY <1>4 DEF SignersOf
  <2>3. CASE Endorsers(l) \intersect addrCerts # {}
    <3>1. PICK c \in Endorsers(l) : claimed.addr \in CertAddrs[c]
      BY <2>3
    <3>2. PICK k \in DOMAIN l.signers : l.signers[k].valid /\ c = l.signers[k].cert
      BY <3>1 DEF Endorsers
    <3>3. Vouched(i, claimed.addr)
      BY <2>2, <3>1, <3>2 DEF Vouched
    <3>. QED  BY <1>1, <1>2, <1>4, <2>1, <3>3
  <2>. QED  BY <1>1, <1>2, <1>4, <2>1, <2>3
<1>. QED  BY <1>3, <1>4

LEMMA LayerSource ==
  ASSUME msg \in Messages, NEW i \in 1 .. Len(Layers), NEW o \in Sender, NEW a,
         a = OneLayer(msg, i, o).sender.addr
  PROVE  a \in {None, Header(Layers[i]).addr, o.addr} \/ Vouched(i, a)
<1>. DEFINE l == Layers[i]
            own == Header(l)
            from == OwnOrOutermostFrom(own, o)
            date == IF own.date # None THEN own.date ELSE o.date
<1>1. l \in Layer /\ own \in Sender /\ NoSender \in Sender /\ NoSender.addr = None
  BY MessageFacts, HeaderType DEF Layers, NoSender, Sender
<1>2. from # None => from.addr \in {own.addr, o.addr}
  BY DEF OwnOrOutermostFrom, FromOf
<1>3. l.from # None => l.from.addr = own.addr
  BY DEF Header
<1>. HIDE DEF from, date, own
<1>4. CASE l.kind = "OpaqueSigned" /\ Opens(l)
  <2>1. OneLayer(msg, i, o) = VerifySignedData(msg, i, from, date, own)
    BY <1>4 DEF OneLayer, EnvelopeKinds, own, from, date, Layers
  <2>2. a = own.addr \/ (from # None /\ a = from.addr) \/ Vouched(i, a)
    BY <1>1, <1>4, <2>1, VerifiedSource DEF SignedKinds
  <2>. QED  BY <1>2, <2>2 DEF own
<1>5. CASE l.kind = "ClearSigned"
  <2>1. OneLayer(msg, i, o) = VerifySignedData(msg, i, l.from, l.date, NoSender)
    BY <1>5 DEF OneLayer, VerifyEml, EnvelopeKinds, Layers
  <2>2. a = NoSender.addr \/ (l.from # None /\ a = l.from.addr) \/ Vouched(i, a)
    BY <1>1, <1>5, <2>1, VerifiedSource DEF SignedKinds, Opens
  <2>. QED  BY <1>1, <1>3, <2>2 DEF own
<1>6. CASE ~(l.kind = "OpaqueSigned" /\ Opens(l)) /\ l.kind # "ClearSigned"
  <2>1. OneLayer(msg, i, o).sender \in {own, NoSender}
    BY <1>1, <1>6 DEF OneLayer, VerifyEml, DecryptLayer, Failed, Layer, LayerKinds, SmimeKinds,
                      EnvelopeKinds, SignedKinds, own, Layers
  <2>. QED  BY <1>1, <2>1 DEF own
<1>. QED  BY <1>4, <1>5, <1>6

(* The layer the loop looks at, for the outermost sender known then.       *)
ResultOf(i) == OneLayer(msg, i, IF i = 1 THEN NoSender ELSE outer)

(* The result is that of the layer the loop ended at, unless it ended at   *)
(* the bound.                                                              *)
EndInv ==
  /\ depth <= Len(Layers)
  /\ depth = 0 => pc = "layer" /\ outer = NoSender /\ accumulated_signers = <<>>
  /\ depth # 0 => outer = OneLayer(msg, 1, NoSender).sender
  /\ pc = "done" =>
       \/ /\ depth = MaxDepth /\ LeadsOn(depth) /\ result.sender = outer
          /\ result.failures # {}
       \/ /\ depth # 0
          /\ result.failures = ResultOf(depth).failures
          /\ result.signed_content = ResultOf(depth).signed_content
          /\ result.sender = FilledFrom(ResultOf(depth).sender, outer)
          /\ depth = 1 => result.signers = ResultOf(1).signers

LEMMA EndInvNext == LoopInv /\ EndInv /\ [Next]_vars => EndInv'
<1>. SUFFICES ASSUME LoopInv, EndInv, [Next]_vars PROVE EndInv'
  OBVIOUS
<1>1. depth \in 0 .. MaxDepth /\ MaxDepth \in Nat \ {0}
  BY ConstantsAssumption DEF LoopInv, TypeOK
<1>2. Current = ResultOf(depth + 1)
  BY <1>1 DEF Current, ResultOf, EndInv
<1>3. ASSUME Keep(Current)
      PROVE  /\ msg' = msg /\ depth' = depth + 1 /\ depth' # 0
             /\ outer' = OneLayer(msg, 1, NoSender).sender
             /\ Current = ResultOf(depth)'
  <2>1. msg' = msg /\ depth' = depth + 1 /\ depth' # 0
    BY <1>1, <1>3 DEF Keep
  <2>2. depth = 0 => Current.sender = OneLayer(msg, 1, NoSender).sender
    BY <1>2 DEF ResultOf
  <2>3. outer' = OneLayer(msg, 1, NoSender).sender
    BY <1>3, <2>2 DEF Keep, EndInv
  <2>4. depth # 0 => outer' = outer
    BY <1>3 DEF Keep
  <2>. QED  BY <1>1, <1>2, <2>1, <2>3, <2>4 DEF ResultOf
<1>. DEFINE bound == (depth <= Len(Layers))'
<1>8. pc = "layer" => depth + 1 <= Len(Layers)
  BY <1>1, MessageFacts DEF LoopInv, TypeOK, Layers
<1>4. CASE UnwrapLayer
  <2>1. bound
    BY <1>3, <1>4, <1>8 DEF UnwrapLayer, Layers
  <2>. QED  BY <1>3, <1>4, <2>1 DEF UnwrapLayer, EndInv
<1>5. CASE Finalize
  <2>1. Keep(Current) /\ pc' = "done"
    BY <1>5 DEF Finalize
  <2>2. Current \in LayerResult(msg, depth + 1)
    <3>1. msg \in Messages /\ outer \in Sender /\ depth + 1 \in 1 .. Len(msg.layers)
      BY <1>1, <1>5, MessageFacts DEF LoopInv, TypeOK, Finalize, Layers
    <3>. QED  BY <3>1, OneLayerType DEF Current
  <2>3. depth = 0 => accumulated_signers \o Current.signers = Current.signers
    BY <2>2 DEF EndInv, LayerResult
  <2>4. /\ result'.failures = Current.failures
        /\ result'.signed_content = Current.signed_content
        /\ result'.sender = FilledFrom(Current.sender, outer')
        /\ result'.signers = accumulated_signers \o Current.signers
    BY <1>5, <2>2 DEF Finalize, Keep, LayerResult
  <2>5. depth' = 1 => depth = 0
    BY <1>1, <1>3, <2>1
  <2>6. depth' = 1 => ResultOf(1)' = Current
    BY <1>3, <2>1, <2>5 DEF ResultOf
  <2>7. bound
    BY <1>3, <1>5, <1>8, <2>1 DEF Finalize, Layers
  <2>. QED  BY <1>3, <2>1, <2>3, <2>4, <2>5, <2>6, <2>7 DEF EndInv
<1>6. CASE GiveUp
  <2>1. pc' = "done" /\ depth = MaxDepth /\ UNCHANGED <<msg, depth, outer>>
    BY <1>6 DEF GiveUp
  <2>2. result'.sender = outer /\ result'.failures # {}
    BY <1>6 DEF GiveUp, Failed
  <2>3. LeadsOn(depth)
    BY <1>1, <1>6 DEF GiveUp, LoopInv, Removed
  <2>. QED  BY <1>1, <2>1, <2>2, <2>3 DEF EndInv, LeadsOn, StillProtected, Layers
<1>7. CASE UNCHANGED vars
  BY <1>7 DEF vars, EndInv, ResultOf, LeadsOn, StillProtected, Layers
<1>. QED  BY <1>4, <1>5, <1>6, <1>7 DEF Next

LEMMA EndInvariant == Spec => [](LoopInv /\ EndInv)
<1>1. Init => EndInv
  <2>. SUFFICES ASSUME Init PROVE EndInv
    OBVIOUS
  <2>1. 0 <= Len(Layers)
    BY LoopInvInit, MessageFacts DEF LoopInv, Layers
  <2>. QED  BY <2>1 DEF Init, EndInv
<1>. QED  BY LoopInvInit, LoopInvNext, EndInvNext, <1>1, PTL DEF Spec

LEMMA SourceShown ==
  ASSUME LoopInv, EndInv
  PROVE  ShownAddressHasSource
<1>. SUFFICES ASSUME pc = "done", result.sender.addr # None
              PROVE  LET shown == result.sender.addr IN
                     \/ shown \in {Header(Layers[1]).addr, Header(Layers[depth]).addr}
                     \/ Vouched(1, shown) \/ Vouched(depth, shown)
  BY DEF ShownAddressHasSource, Vouched
<1>1. /\ msg \in Messages /\ 1 \in 1 .. Len(Layers) /\ outer \in Sender /\ NoSender \in Sender
      /\ NoSender.addr = None
  BY MessageFacts DEF LoopInv, TypeOK, Layers, NoSender, Sender
<1>2. depth # 0 /\ depth \in 1 .. Len(Layers)
  BY <1>1, MessageFacts DEF EndInv, LoopInv, TypeOK, Layers
<1>3. outer.addr \in {None, Header(Layers[1]).addr} \/ Vouched(1, outer.addr)
  BY <1>1, <1>2, LayerSource DEF EndInv
<1>4. CASE result.sender = outer
  BY <1>3, <1>4
<1>5. CASE result.sender = FilledFrom(ResultOf(depth).sender, outer)
  <2>. DEFINE a == ResultOf(depth).sender.addr
              o == IF depth = 1 THEN NoSender ELSE outer
  <2>1. result.sender.addr = IF a = None THEN outer.addr ELSE a
    BY <1>5 DEF FilledFrom
  <2>2. a \in {None, Header(Layers[depth]).addr, o.addr} \/ Vouched(depth, a)
    <3>1. o \in Sender /\ a = OneLayer(msg, depth, o).sender.addr
      BY <1>1 DEF ResultOf
    <3>. HIDE DEF o, a
    <3>. QED  BY <1>1, <1>2, <3>1, LayerSource
  <2>. QED  BY <1>1, <1>3, <2>1, <2>2
<1>. QED  BY <1>4, <1>5 DEF EndInv

LEMMA CleanEnd ==
  ASSUME LoopInv, EndInv
  PROVE  CleanResultIsComplete
<1>. SUFFICES ASSUME pc = "done", result.failures = {}
              PROVE  /\ \/ result.signed_content # NoContent
                        \/ Layers[depth].kind \in EnvelopeKinds /\ Layers[depth].opens = "absent"
                     /\ \A k \in DOMAIN SignersOf(depth) : SignersOf(depth)[k].valid
  BY DEF CleanResultIsComplete
<1>. DEFINE l == Layers[depth]
            o == IF depth = 1 THEN NoSender ELSE outer
<1>1. /\ depth # 0 /\ ResultOf(depth).failures = {}
      /\ result.signed_content = ResultOf(depth).signed_content
  BY DEF EndInv
<1>2. msg \in Messages /\ depth \in 1 .. Len(Layers) /\ depth \in Nat /\ l \in Layer
  BY <1>1, MessageFacts DEF LoopInv, TypeOK, EndInv, Layers
<1>3. ResultOf(depth) = OneLayer(msg, depth, o)
  BY DEF ResultOf
<1>. HIDE DEF o
<1>4. CASE l.kind \in EnvelopeKinds
  <2>1. ResultOf(depth) = DecryptLayer(l, depth)
    BY <1>3, <1>4 DEF OneLayer, EnvelopeKinds, Layers
  <2>2. DecryptFailures(l) = {}
    <3>1. ASSUME NEW S, NEW x, S \X {x} = {}  PROVE S = {}
      <4>1. \A y \in S : <<y, x>> \in S \X {x}
        OBVIOUS
      <4>. QED  BY <3>1, <4>1
    <3>2. DecryptFailures(l) \X {depth} = {}
      BY <1>1, <2>1 DEF DecryptLayer
    <3>. HIDE DEF l
    <3>. QED  BY <3>1, <3>2
  <2>3. l.opens # "failed"
    BY <2>2 DEF DecryptFailures
  <2>4. l.opens = "opened" => result.signed_content # NoContent
    BY <1>1, <1>2, <2>1 DEF DecryptLayer, NoContent
  <2>5. SignersOf(depth) = <<>>
    BY <1>4 DEF SignersOf, SignedKinds, EnvelopeKinds
  <2>. QED  BY <1>2, <1>4, <2>3, <2>4, <2>5 DEF Layer
<1>5. CASE l.kind \in SignedKinds /\ Opens(l)
  <2>1. PICK from, date, prior :
          ResultOf(depth) = VerifySignedData(msg, depth, from, date, prior)
    BY <1>3, <1>5 DEF OneLayer, VerifyEml, SignedKinds, EnvelopeKinds, Layers
  <2>2. result.signed_content = depth + 1
    BY <1>1, <2>1 DEF VerifySignedData
  <2>3. ASSUME NEW k \in DOMAIN SignersOf(depth), ~SignersOf(depth)[k].valid
        PROVE  FALSE
    <3>1. /\ msg.caLoads /\ Layers[depth + 1].kind # "Unparsable"
          /\ \E j \in DOMAIN l.signers : ~l.signers[j].valid
      BY <2>3 DEF SignersOf
    <3>2. <<"ChainValidation", depth>> \in ResultOf(depth).failures
      BY <2>1, <3>1 DEF VerifySignedData, SignedFailureKinds, Layers
    <3>. QED  BY <1>1, <3>2
  <2>. QED  BY <1>2, <2>2, <2>3 DEF NoContent
<1>6. CASE l.kind \notin EnvelopeKinds /\ ~(l.kind \in SignedKinds /\ Opens(l))
  <2>1. CASE l.kind \in {"OtherCms", "OpaqueSigned"}
    <3>1. ResultOf(depth) = Failed("NoPkcs7Content", depth, Header(l))
      BY <1>3, <1>6, <2>1 DEF OneLayer, EnvelopeKinds, SignedKinds, Layers
    <3>2. ResultOf(depth).failures = {<<"NoPkcs7Content", depth>>}
      BY <3>1 DEF Failed
    <3>. QED  BY <1>1, <3>2
  <2>2. CASE l.kind \notin {"OtherCms", "OpaqueSigned"}
    <3>1. ResultOf(depth) = VerifyEml(msg, depth)
      BY <1>3, <1>6, <2>2 DEF OneLayer, Layers
    <3>2. \E kind : VerifyEml(msg, depth) = Failed(kind, depth, NoSender)
      BY <1>2, <1>6, <2>2 DEF VerifyEml, Layer, LayerKinds, SmimeKinds, EnvelopeKinds, SignedKinds,
                              Opens, Layers
    <3>3. PICK kind : VerifyEml(msg, depth) = Failed(kind, depth, NoSender)
      BY <3>2
    <3>4. ResultOf(depth).failures = {<<kind, depth>>}
      BY <3>1, <3>3 DEF Failed
    <3>. QED  BY <1>1, <3>4
  <2>. QED  BY <2>1, <2>2
<1>. QED  BY <1>4, <1>5, <1>6

LEMMA SameAsVerify ==
  ASSUME LoopInv, EndInv
  PROVE  AgreesWithVerify
<1>. DEFINE l == Layers[1]
            v == VerifyEml(msg, 1)
            own == Header(l)
            r == OneLayer(msg, 1, NoSender)
<1>. SUFFICES ASSUME pc = "done", depth = 1, ~LeadsOn(1), l.kind \in LayerKinds \ EnvelopeKinds,
                     l.from # None => l.from.addr # None
              PROVE  /\ result.failures = v.failures /\ result.signers = v.signers
                     /\ result.signed_content = v.signed_content
  BY DEF AgreesWithVerify
<1>1. /\ result.failures = r.failures /\ result.signers = r.signers
      /\ result.signed_content = r.signed_content
  BY DEF EndInv, ResultOf
<1>2. l \in Layer
  BY MessageFacts DEF LoopInv, Layers
<1>3. CASE l.kind = "OtherCms" \/ (l.kind = "OpaqueSigned" /\ ~Opens(l))
  BY <1>1, <1>3 DEF OneLayer, VerifyEml, Failed, EnvelopeKinds, Layers
<1>4. CASE l.kind = "OpaqueSigned" /\ Opens(l)
  <2>1. OwnOrOutermostFrom(own, NoSender) = l.from
    BY <1>2 DEF OwnOrOutermostFrom, FromOf, Header, NoSender, Layer, Mailbox
  <2>2. (IF own.date # None THEN own.date ELSE NoSender.date) = l.date
    BY DEF Header, NoSender
  <2>3. r = VerifySignedData(msg, 1, l.from, l.date, own)
    BY <1>4, <2>1, <2>2 DEF OneLayer, EnvelopeKinds, Layers
  <2>4. v = VerifySignedData(msg, 1, l.from, l.date, NoSender)
    BY <1>4 DEF VerifyEml, EnvelopeKinds, Layers
  <2>. HIDE DEF r, v, own
  <2>5. r.failures = v.failures /\ r.signers = v.signers /\ r.signed_content = v.signed_content
    BY <2>3, <2>4 DEF VerifySignedData
  <2>. QED  BY <1>1, <2>5
<1>5. CASE l.kind \notin EnvelopeKinds \union {"OtherCms", "OpaqueSigned"}
  <2>1. r = v
    BY <1>5 DEF OneLayer, Layers
  <2>. QED  BY <1>1, <2>1
<1>. QED  BY <1>3, <1>4, <1>5

-----------------------------------------------------------------------------
(* Whose signers are listed.                                               *)

(* What one layer lists.                                                   *)
LEMMA LayerSigners ==
  ASSUME msg \in Messages, NEW i \in 1 .. Len(Layers), NEW o
  PROVE  /\ SignersOf(i) \in Seq(Signer)
         /\ OneLayer(msg, i, o).signers = [k \in DOMAIN SignersOf(i) |-> <<i, SignersOf(i)[k]>>]
<1>. DEFINE l == Layers[i]
<1>1. l \in Layer
  BY MessageFacts DEF Layers
<1>2. l.signers \in Seq(Signer)
  BY <1>1 DEF Layer
<1>3. SignersOf(i) \in Seq(Signer)
  BY <1>2 DEF SignersOf
<1>4. ASSUME SignersOf(i) = <<>> PROVE [k \in DOMAIN SignersOf(i) |-> <<i, SignersOf(i)[k]>>] = <<>>
  BY <1>4
<1>5. CASE l.kind \in SignedKinds /\ Opens(l)
  <2>1. PICK from, date, prior : OneLayer(msg, i, o) = VerifySignedData(msg, i, from, date, prior)
    BY <1>5 DEF OneLayer, VerifyEml, SignedKinds, EnvelopeKinds, Layers
  <2>2. OneLayer(msg, i, o).signers =
          IF msg.caLoads /\ Layers[i + 1].kind # "Unparsable"
          THEN [k \in DOMAIN l.signers |-> <<i, l.signers[k]>>] ELSE <<>>
    BY <2>1 DEF VerifySignedData, Layers
  <2>3. SignersOf(i) = IF msg.caLoads /\ Layers[i + 1].kind # "Unparsable" THEN l.signers ELSE <<>>
    BY <1>5 DEF SignersOf
  <2>. HIDE DEF l
  <2>. QED  BY <1>3, <1>4, <2>2, <2>3
<1>6. CASE ~(l.kind \in SignedKinds /\ Opens(l))
  <2>1. SignersOf(i) = <<>>
    BY <1>6 DEF SignersOf
  <2>2. OneLayer(msg, i, o).signers = <<>>
    BY <1>1, <1>6 DEF OneLayer, VerifyEml, DecryptLayer, Failed, Layer, LayerKinds, SmimeKinds,
                      EnvelopeKinds, SignedKinds, Opens, Layers
  <2>. QED  BY <1>3, <1>4, <2>1, <2>2
<1>. QED  BY <1>5, <1>6

LEMMA FunctionIsSequence ==
  ASSUME NEW S, NEW n \in Nat, NEW f \in [1 .. n -> S]
  PROVE  f \in Seq(S) /\ Len(f) = n
OBVIOUS

(* The signers of one more layer, behind those of the layers above it.     *)
LEMMA OneMoreListed ==
  ASSUME NEW signers \in Seq(Nat \X Signer), NEW n \in Nat, ListedInLayers(signers, n),
         \A i \in 1 .. n + 1 : SignersOf(i) \in Seq(Signer),
         NEW more, more = [k \in DOMAIN SignersOf(n + 1) |-> <<n + 1, SignersOf(n + 1)[k]>>]
  PROVE  ListedInLayers(signers \o more, n + 1)
<1>. PICK own : own = SignersOf(n + 1)
  OBVIOUS
<1>1. own \in Seq(Signer) /\ Len(own) \in Nat /\ DOMAIN own = 1 .. Len(own)
  <2>1. n + 1 \in 1 .. n + 1
    OBVIOUS
  <2>. QED  BY <2>1
<1>9. /\ more \in Seq(Nat \X Signer) /\ Len(more) = Len(own)
      /\ \A k \in 1 .. Len(own) : more[k] = <<n + 1, own[k]>>
  <2>1. more = [k \in 1 .. Len(own) |-> <<n + 1, own[k]>>]
    BY <1>1
  <2>2. \A k \in 1 .. Len(own) : <<n + 1, own[k]>> \in Nat \X Signer
    BY <1>1
  <2>3. more \in [1 .. Len(own) -> Nat \X Signer]
    BY <2>1, <2>2
  <2>5. more \in Seq(Nat \X Signer) /\ Len(more) = Len(own)
    <3>. DEFINE S == Nat \X Signer
    <3>1. more \in [1 .. Len(own) -> S]
      BY <2>3
    <3>. HIDE DEF S
    <3>. PICK len \in Nat : len = Len(own)
      BY <1>1
    <3>3. \A f \in [1 .. len -> S] : f \in Seq(S) /\ Len(f) = len
      BY FunctionIsSequence
    <3>2. more \in Seq(S) /\ Len(more) = Len(own)
      BY <3>1, <3>3
    <3>. QED  BY <3>2 DEF S
  <2>. QED  BY <2>1, <2>5
<1>2. Len(signers) \in Nat /\ DOMAIN signers = 1 .. Len(signers)
  OBVIOUS
<1>. PICK all : all = signers \o more
  OBVIOUS
<1>3. /\ all \in Seq(Nat \X Signer) /\ Len(all) = Len(signers) + Len(own) /\ DOMAIN all = 1 .. Len(all)
      /\ \A j \in 1 .. Len(signers) : all[j] = signers[j]
      /\ \A k \in 1 .. Len(own) : all[Len(signers) + k] = <<n + 1, own[k]>>
  <2>. DEFINE S == Nat \X Signer
  <2>1. signers \in Seq(S) /\ more \in Seq(S)
    BY <1>9
  <2>. HIDE DEF S
  <2>2. all \in Seq(S) /\ Len(all) = Len(signers) + Len(more) /\ DOMAIN all = 1 .. Len(signers) + Len(more)
    BY <2>1
  <2>3. \A j \in 1 .. Len(signers) : all[j] = signers[j]
    BY <2>1
  <2>4. \A k \in 1 .. Len(more) : all[Len(signers) + k] = more[k]
    BY <2>1
  <2>. QED  BY <1>9, <2>2, <2>3, <2>4 DEF S
<1>4. \A j \in 1 .. Len(all) :
        \/ j \in 1 .. Len(signers) /\ all[j] = signers[j]
        \/ j > Len(signers) /\ j - Len(signers) \in 1 .. Len(own) /\ all[j] = <<n + 1, own[j - Len(signers)]>>
  <2>. SUFFICES ASSUME NEW j \in 1 .. Len(all), j \notin 1 .. Len(signers)
                PROVE  j > Len(signers) /\ j - Len(signers) \in 1 .. Len(own)
                       /\ all[j] = <<n + 1, own[j - Len(signers)]>>
    BY <1>3
  <2>1. j > Len(signers) /\ j - Len(signers) \in 1 .. Len(own) /\ j = Len(signers) + (j - Len(signers))
    BY <1>1, <1>2, <1>3
  <2>. QED  BY <1>3, <2>1
<1>10. \A j, s : all[j] = <<n + 1, s>> => all[j][1] = n + 1
  <2>. SUFFICES ASSUME NEW p, NEW s, p = <<n + 1, s>> PROVE p[1] = n + 1
    BY Zenon
  <2>. QED  OBVIOUS
<1>5. \A j \in 1 .. Len(signers) : signers[j][1] \in 1 .. n
  BY <1>2 DEF ListedInLayers
<1>6. \A j \in DOMAIN all : all[j][1] \in 1 .. n + 1
  <2>. SUFFICES ASSUME NEW j \in 1 .. Len(all) PROVE all[j][1] \in 1 .. n + 1
    BY <1>3
  <2>1. CASE j \in 1 .. Len(signers) /\ all[j] = signers[j]
    <3>1. signers[j][1] \in 1 .. n
      BY <1>5, <2>1
    <3>. QED  BY <2>1, <3>1
  <2>2. CASE all[j][1] = n + 1
    BY <2>2
  <2>. QED  BY <1>4, <1>10, <2>1, <2>2
<1>7. \A j, k \in DOMAIN all : j < k => all[j][1] <= all[k][1]
  <2>. SUFFICES ASSUME NEW j \in 1 .. Len(all), NEW k \in 1 .. Len(all), j < k PROVE all[j][1] <= all[k][1]
    BY <1>3
  <2>1. CASE k \in 1 .. Len(signers)
    <3>1. j \in 1 .. Len(signers)
      BY <1>2, <2>1
    <3>. QED  BY <1>2, <1>3, <2>1, <3>1 DEF ListedInLayers
  <2>2. CASE all[k][1] = n + 1
    <3>1. all[j][1] \in 1 .. n + 1
      BY <1>3, <1>6
    <3>. QED  BY <2>2, <3>1
  <2>3. k \in 1 .. Len(signers) \/ all[k][1] = n + 1
    BY <1>4, <1>10
  <2>. QED  BY <2>1, <2>2, <2>3
<1>8. ASSUME NEW i \in 1 .. n + 1
      PROVE  \E first \in 0 .. Len(all) :
               /\ {j \in DOMAIN all : all[j][1] = i} = first + 1 .. first + Len(SignersOf(i))
               /\ \A k \in DOMAIN SignersOf(i) : all[first + k][2] = SignersOf(i)[k]
  <2>1. CASE i = n + 1
    <3>1. {j \in DOMAIN all : all[j][1] = i} = Len(signers) + 1 .. Len(signers) + Len(own)
      <4>1. \A j \in DOMAIN all : all[j][1] = i <=> j > Len(signers)
        BY <1>2, <1>3, <1>4, <1>5, <2>1
      <4>2. \A j : j \in DOMAIN all /\ j > Len(signers) <=> j \in Len(signers) + 1 .. Len(signers) + Len(own)
        BY <1>1, <1>2, <1>3
      <4>. QED  BY <4>1, <4>2
    <3>2. \A k \in DOMAIN own : all[Len(signers) + k][2] = own[k]
      BY SMTT(30), <1>1, <1>3
    <3>3. Len(signers) \in 0 .. Len(all)
      BY <1>1, <1>2, <1>3
    <3>. QED  BY <2>1, <3>1, <3>2, <3>3
  <2>2. CASE i \in 1 .. n
    <3>. PICK s : s = SignersOf(i)
      OBVIOUS
    <3>1. PICK first \in 0 .. Len(signers) :
             /\ {j \in DOMAIN signers : signers[j][1] = i} = first + 1 .. first + Len(s)
             /\ \A k \in DOMAIN s : signers[first + k][2] = s[k]
      BY <2>2 DEF ListedInLayers
    <3>2. \A j : j \in DOMAIN all /\ all[j][1] = i <=> j \in DOMAIN signers /\ signers[j][1] = i
      <4>1. \A j \in DOMAIN signers : j \in DOMAIN all /\ all[j] = signers[j]
        BY <1>1, <1>2, <1>3
      <4>2. ASSUME NEW j \in DOMAIN all, j \notin DOMAIN signers PROVE all[j][1] # i
        <5>1. all[j][1] = n + 1
          BY <1>2, <1>3, <1>4, <1>10, <4>2
        <5>. QED  BY SMTT(30), <2>2, <5>1
      <4>. QED  BY <4>1, <4>2
    <3>6. {j \in DOMAIN all : all[j][1] = i} = {j \in DOMAIN signers : signers[j][1] = i}
      BY <3>2
    <3>3. Len(s) \in Nat /\ DOMAIN s = 1 .. Len(s)
      <4>1. s \in Seq(Signer)
        BY <2>2
      <4>. QED  BY <4>1
    <3>4. \A k \in DOMAIN s : first + k \in 1 .. Len(signers)
      <4>1. ASSUME NEW k \in DOMAIN s PROVE first + k \in 1 .. Len(signers)
        <5>1. first + k \in first + 1 .. first + Len(s)
          BY <3>3, <4>1
        <5>. QED  BY <1>2, <3>1, <5>1
      <4>. QED  BY <4>1
    <3>5. first \in 0 .. Len(all)
      BY <1>1, <1>2, <1>3
    <3>7. \A k \in DOMAIN s : all[first + k][2] = s[k]
      BY <1>3, <3>1, <3>4
    <3>. QED  BY <3>1, <3>5, <3>6, <3>7
  <2>3. i \in 1 .. n \/ i = n + 1
    OBVIOUS
  <2>. QED  BY <2>1, <2>2, <2>3
<1>. QED  BY <1>6, <1>7, <1>8 DEF ListedInLayers

(* The signers of the layers removed so far are listed, and in the end all *)
(* of them.                                                                *)
SignersInv ==
  /\ pc = "layer" => ListedInLayers(accumulated_signers, depth)
  /\ pc = "done" => Removed(depth - 1) /\ ListedInLayers(result.signers, depth)

LEMMA SignersInvNext == LoopInv /\ SignersInv /\ [Next]_vars => SignersInv'
<1>. SUFFICES ASSUME LoopInv, SignersInv, [Next]_vars PROVE SignersInv'
  OBVIOUS
<1>1. /\ msg \in Messages /\ depth \in Nat /\ Len(Layers) \in Nat
      /\ accumulated_signers \in Seq(Nat \X Signer) /\ outer \in Sender
  BY MessageFacts, ConstantsAssumption DEF LoopInv, TypeOK, Layers
<1>2. ASSUME UNCHANGED msg
      PROVE  /\ \A signers, n : ListedInLayers(signers, n)' = ListedInLayers(signers, n)
             /\ \A n : Removed(n)' = Removed(n)
  BY <1>2 DEF ListedInLayers, SignersOf, Removed, LeadsOn, StillProtected, Layers
<1>3. ASSUME pc = "layer"
      PROVE  /\ ListedInLayers(accumulated_signers \o Current.signers, depth + 1)
             /\ accumulated_signers \o Current.signers \in Seq(Nat \X Signer)
             /\ Current \in Result
  <2>1. depth + 1 \in 1 .. Len(Layers)
    BY <1>1, <1>3 DEF LoopInv, TypeOK
  <2>2. Current.signers = [k \in DOMAIN SignersOf(depth + 1) |-> <<depth + 1, SignersOf(depth + 1)[k]>>]
    BY <1>1, <2>1, LayerSigners DEF Current
  <2>7. \A i \in 1 .. depth + 1 : SignersOf(i) \in Seq(Signer)
    <3>1. \A i \in 1 .. depth + 1 : i \in 1 .. Len(Layers)
      BY <1>1, <2>1
    <3>. QED  BY <1>1, <3>1, LayerSigners
  <2>3. Current \in Result
    <3>1. Current \in LayerResult(msg, depth + 1) /\ depth + 1 \in Nat
      BY <1>1, <2>1, OneLayerType DEF Current, Layers
    <3>. QED  BY <3>1, LayerResultTyped
  <2>4. Current.signers \in Seq(Nat \X Signer)
    BY <2>3 DEF Result
  <2>5. \A u, v \in Seq(Nat \X Signer) : u \o v \in Seq(Nat \X Signer)
    OBVIOUS
  <2>6. ListedInLayers(accumulated_signers, depth)
    BY <1>3 DEF SignersInv
  <2>. HIDE DEF Current
  <2>. QED  BY <1>1, <2>2, <2>3, <2>4, <2>5, <2>6, <2>7, OneMoreListed
<1>4. CASE UnwrapLayer
  BY <1>2, <1>3, <1>4 DEF UnwrapLayer, Keep, SignersInv
<1>5. CASE Finalize
  <2>1. /\ pc = "layer" /\ pc' = "done" /\ msg' = msg /\ depth' = depth + 1
        /\ accumulated_signers' = accumulated_signers \o Current.signers
    BY <1>5 DEF Finalize, Keep
  <2>2. result'.signers = accumulated_signers \o Current.signers
    BY <1>3, <1>5, <2>1 DEF Finalize, Result
  <2>3. Removed(depth) /\ depth' - 1 = depth
    BY <1>1, <2>1 DEF LoopInv
  <2>. QED  BY <1>2, <1>3, <2>1, <2>2, <2>3 DEF SignersInv
<1>6. CASE GiveUp
  <2>1. /\ pc = "layer" /\ pc' = "done" /\ UNCHANGED <<msg, depth>> /\ result'.signers = accumulated_signers
    BY <1>6 DEF GiveUp, Failed
  <2>2. Removed(depth - 1)
    BY <1>1, <2>1 DEF LoopInv, Removed
  <2>. QED  BY <1>2, <2>1, <2>2 DEF SignersInv
<1>7. CASE UNCHANGED vars
  BY <1>2, <1>7 DEF vars, SignersInv
<1>. QED  BY <1>4, <1>5, <1>6, <1>7 DEF Next

-----------------------------------------------------------------------------
(* Theorems.                                                               *)

(* The loop's variables keep their types, and the layer it is about to     *)
(* process is one the message has: the content that decides whether there  *)
(* is a next layer is the content that is then processed.                  *)
THEOREM TypeCorrect == Spec => []TypeOK
<1>1. LoopInv => TypeOK
  BY DEF LoopInv
<1>. QED  BY <1>1, LoopInvariant, PTL

(* For any nesting and any bound, what decrypt_and_verify_smime_from_eml   *)
(* hands out is not itself an S/MIME layer: the loop stops at the first    *)
(* layer whose content is not, or at the bound, where it hands out none.   *)
THEOREM UnwrappedContent == Spec => []ContentIsUnwrapped
<1>1. LoopInv => ContentIsUnwrapped
  <2>. SUFFICES ASSUME LoopInv, pc = "done", Stopped
                PROVE  ~StillProtected(result.signed_content)
    BY DEF LoopInv, ContentIsUnwrapped
  <2>1. ~StillProtected(NoContent)
    BY MessageFacts DEF LoopInv, StillProtected, NoContent, Layers
  <2>. QED  BY <2>1 DEF Stopped
<1>. QED  BY <1>1, LoopInvariant, PTL

(* For any nesting and any bound, "nested too deeply" is reported exactly  *)
(* for the messages with more than MaxDepth layers, all of which open.     *)
THEOREM DepthLimitExact == Spec => []DepthLimit
<1>1. LoopInv => DepthLimit
  <2>. SUFFICES ASSUME LoopInv, pc = "done", Stopped
                PROVE  <<"NestingDepth", MaxDepth>> \in result.failures
                         <=> \A i \in 1 .. MaxDepth : i < Len(Layers) /\ LeadsOn(i)
    BY DEF LoopInv, DepthLimit
  <2>1. Len(Layers) \in Nat /\ MaxDepth \in Nat
    BY MessageFacts, ConstantsAssumption DEF LoopInv, Layers
  <2>. QED  BY <2>1 DEF Stopped, Removed
<1>. QED  BY <1>1, LoopInvariant, PTL

(* Both together, which is what a caller of                                *)
(* decrypt_and_verify_smime_from_eml_detailed relies on.                   *)
THEOREM UnwrappingExact == Spec => []UnwrappingIsExact
BY UnwrappedContent, DepthLimitExact, PTL DEF UnwrappingIsExact

(* Every layer's idea of what the outermost sender is comes back to a      *)
(* header that was read or a valid signer, whatever the nesting.           *)
THEOREM AddressSource == Spec => []ShownAddressHasSource
BY EndInvariant, SourceShown, PTL

(* A result without failures is not one of a layer that was given up.      *)
THEOREM CleanComplete == Spec => []CleanResultIsComplete
BY EndInvariant, CleanEnd, PTL

(* decrypt_and_verify_smime_from_eml_detailed and                          *)
(* verify_smime_from_eml_detailed, two ways through the code, give the     *)
(* same verdict on a message that is not encrypted.                        *)
THEOREM VerifyAgreement == Spec => []AgreesWithVerify
BY EndInvariant, SameAsVerify, PTL

(* No layer's signers are lost on the way down, nor counted twice, and     *)
(* none is put to the account of another layer, however deep the nesting.  *)
THEOREM SignersListed == Spec => []SignersOfAllLayersAreListed
<1>1. Init => SignersInv
  <2>. SUFFICES ASSUME Init PROVE ListedInLayers(<<>>, 0)
    BY DEF Init, SignersInv
  <2>. QED  BY DEF ListedInLayers
<1>2. SignersInv => SignersOfAllLayersAreListed
  BY DEF SignersInv, SignersOfAllLayersAreListed, Removed
<1>. QED  BY <1>1, <1>2, LoopInvInit, LoopInvNext, SignersInvNext, PTL DEF Spec

===============================================================================
