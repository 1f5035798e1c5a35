--------------------------- MODULE RoundTrip_proofs ---------------------------
(***************************************************************************)
(* Theorems about ContentDecryption, for envelopes with recipient infos of *)
(* any number and kind and any keys to try on them, and about RoundTrip,   *)
(* for lists of recipients of any length, with keys of any type, in        *)
(* whatever order the DER encoding puts their recipient infos.             *)
(*                                                                         *)
(*   TypeCorrect           Spec => []TypeOK                                *)
(*   OwnKeyReads           Spec => []OwnRecipientSuffices                  *)
(*   OnlyKeysRead          Spec => []ContentIsEarned                       *)
(*   WarningsComplete      Spec => []WarningsAreComplete                   *)
(*   DecryptionSound       RoundTripSpec => [](TypeOK /\ ...)              *)
(*   EveryRecipientReads   RoundTripSpec => []RecipientsRead               *)
(*                                                                         *)
(* The inductive invariant of the search says what it has established:     *)
(* nothing before `next` opens (Passed), the key at hand is the one the    *)
(* recipient info at `next` yields (Found), and what has been recorded up  *)
(* to then (Recorded).  The three properties are about the end; nothing    *)
(* happens after it, so that they are parts of the invariant themselves.   *)
(*                                                                         *)
(* That of the sender says that the recipient infos built so far are those *)
(* of the certificates passed (Building), and that the envelope sent has   *)
(* one for every recipient and no others (SentToAll).                      *)
(***************************************************************************)
EXTENDS RoundTrip, TLAPS, WellFoundedInduction

Info == Ktri \union Kari \union Kekri \union Pwri \union Ori

(* What is recorded before any recipient info is looked at.                *)
HeaderFailures ==
  IF env.version = ExpectedEnvelopeVersion(env) THEN {} ELSE {<<"CmsVersionMismatch", 0>>}
EarlyWarnings ==
  {<<"CmsVersionMismatch", i>> : i \in MisversionedRecipients(env)}
    \union (IF env.cipher = "3DES" THEN {<<"WeakContentEncryptionAlg", 0>>} ELSE {})

Started ==
  /\ pc \in {"idle", "read"} => next = 1 /\ last_err = 0
  /\ pc # "done" => signed_content = None

Passed ==
  pc \in {"search", "open"} =>
    /\ env.content # None /\ Supported(env) /\ keys.cert # Garbage
    /\ \A j \in 1 .. (next - 1) : ~Opens(j)

Found == pc = "open" => next \in DOMAIN env.ris /\ Yields(next, cek)

Recorded ==
  /\ pc \in {"read", "search", "open"} => failures = HeaderFailures
  /\ pc = "search" => warnings = EarlyWarnings
  /\ pc = "open" => warnings = EarlyWarnings \union {<<k, next>> : k \in WeakKinds(env.ris[next])}

IInv ==
  /\ TypeOK /\ Started /\ Passed /\ Found /\ Recorded
  /\ OwnRecipientSuffices /\ ContentIsEarned /\ WarningsAreComplete

-----------------------------------------------------------------------------
(* The helpers.                                                            *)

LEMMA ElementOf ==
  ASSUME NEW S, NEW q \in Seq(S), NEW i \in DOMAIN q
  PROVE  q[i] \in S
OBVIOUS

LEMMA NatMinimum ==
  ASSUME NEW T, T \subseteq Nat, T # {}
  PROVE  First(T) \in T /\ \A y \in T : First(T) <= y
<1>. DEFINE R == {ss \in Nat \X Nat : ss[1] < ss[2]}
<1>1. IsWellFoundedOn(R, Nat)
  BY NatLessThanWellFounded DEF OpToRel
<1>2. \E x \in T : \A y \in T : <<y, x>> \notin R
  <2>. HIDE DEF R
  <2>. QED  BY <1>1, WFMin
<1>3. \A x, y \in Nat : <<y, x>> \notin R => x <= y
  OBVIOUS
<1>4. \E x \in T : \A y \in T : x <= y
  BY <1>2, <1>3
<1>. QED  BY <1>4 DEF First

(* The five kinds are told apart by their tag.                             *)
LEMMA KindTells ==
  ASSUME NEW info \in Info
  PROVE  /\ info.kind \in {"ktri", "kari", "kekri", "pwri", "ori"}
         /\ info.kind = "ktri" => info \in Ktri
         /\ info.kind = "kari" => info \in Kari
         /\ info.kind = "kekri" => info \in Kekri
         /\ info.kind = "pwri" => info \in Pwri
BY DEF Info, Ktri, Kari, Kekri, Pwri, Ori

(* A recipient info that opens yields a content-encryption key.            *)
LEMMA CekIsKey ==
  ASSUME NEW info \in Info, OpenKeys(info) # {}
  PROVE  CekOf(info) \in Cek
<1>1. CASE info.kind = "kari"
  <2>1. info.keys \in Seq([rid : RecipientId, locked : Locked])
    BY <1>1, KindTells DEF Kari
  <2>2. OpenKeys(info) \subseteq DOMAIN info.keys
    BY <1>1 DEF OpenKeys
  <2>3. OpenKeys(info) \subseteq Nat
    BY <2>1, <2>2
  <2>4. First(OpenKeys(info)) \in DOMAIN info.keys
    BY <2>2, <2>3, NatMinimum
  <2>5. info.keys[First(OpenKeys(info))] \in [rid : RecipientId, locked : Locked]
    BY <2>1, <2>4, ElementOf
  <2>. QED  BY <1>1, <2>5 DEF CekOf, Locked
<1>2. CASE info.kind # "kari"
  <2>1. info.kind # "ori"
    BY DEF OpenKeys
  <2>2. info.locked \in Locked
    BY <1>2, <2>1, KindTells DEF Ktri, Kekri, Pwri
  <2>. QED  BY <1>2, <2>2 DEF CekOf, Locked
<1>. QED  BY <1>1, <1>2

LEMMA RecordedTypes ==
  ASSUME NEW e \in Envelopes, NEW info
  PROVE  /\ MisversionedRecipients(e) \subseteq Nat
         /\ WeakKinds(info) \subseteq FailureKinds
BY DEF Envelopes, MisversionedRecipients, WeakKinds, FailureKinds

(* What opens depends on the message and the keys alone.                   *)
LEMMA OpensStays ==
  ASSUME env' = env, keys' = keys
  PROVE  /\ \A i : Opens(i)' <=> Opens(i)
         /\ \A i, k : Yields(i, k)' <=> Yields(i, k)
<1>1. \A i : (OpenKeys(env.ris[i]))' = OpenKeys(env.ris[i])
  BY DEF OpenKeys, KtriOpens, KariOpens, SecretOpens, Agrees, Matches
<1>2. \A i : (Tried(env.ris[i]))' <=> Tried(env.ris[i])
  BY DEF Tried, Matches
<1>3. \A i : (CekOf(env.ris[i]))' = CekOf(env.ris[i])
  BY <1>1 DEF CekOf
<1>. QED  BY <1>1, <1>2, <1>3 DEF Opens, Yields

-----------------------------------------------------------------------------
(* Every step preserves the invariant.  TypeOK, for what is called with,   *)
(* is about envelopes and key rings of the declared types.                 *)

LEMMA Initially == Init => IInv
<1>. SUFFICES ASSUME Init PROVE IInv
  OBVIOUS
<1>. QED
  BY DEF Init, IInv, TypeOK, Started, Passed, Found, Recorded, OwnRecipientSuffices,
         ContentIsEarned, WarningsAreComplete

LEMMA CallPreserves ==
  ASSUME IInv, NEW e \in Envelopes, NEW k \in KeyRings, Decrypt(e, k)
  PROVE  IInv'
<1>. USE DEF IInv, Decrypt
<1>1. TypeOK'
  BY DEF TypeOK, FailureKinds
<1>2. Started' /\ Passed' /\ Found'
  BY DEF Started, Passed, Found
<1>3. Recorded'
  <2>1. HeaderFailures' = failures'
    BY DEF HeaderFailures
  <2>. QED  BY <2>1 DEF Recorded
<1>4. OwnRecipientSuffices' /\ ContentIsEarned' /\ WarningsAreComplete'
  BY DEF OwnRecipientSuffices, ContentIsEarned, WarningsAreComplete
<1>. QED  BY <1>1, <1>2, <1>3, <1>4

(* Nothing comes of a step that ends without content, but what such an end *)
(* must not be when the reader's own recipient info is there.              *)
LEMMA EndsWithoutContent ==
  ASSUME pc' = "done", signed_content' = None
  PROVE  ContentIsEarned' /\ WarningsAreComplete'
BY DEF ContentIsEarned, WarningsAreComplete

LEMMA StutterPreserves ==
  ASSUME IInv, UNCHANGED vars
  PROVE  IInv'
<1>1. (\A i : Opens(i)' <=> Opens(i)) /\ (\A i, k : Yields(i, k)' <=> Yields(i, k))
  BY OpensStays DEF vars
<1>. USE DEF IInv, vars
<1>2. TypeOK' /\ Started'
  BY DEF TypeOK, Started
<1>3. Passed' /\ Found' /\ Recorded'
  BY <1>1 DEF Passed, Found, Recorded, HeaderFailures, EarlyWarnings
<1>4. OwnRecipientSuffices' /\ ContentIsEarned'
  BY <1>1 DEF OwnRecipientSuffices, ContentIsEarned
<1>5. WarningsAreComplete'
  BY <1>1 DEF WarningsAreComplete
<1>. QED  BY <1>2, <1>3, <1>4, <1>5

(* The recipient info at `next`, while the search goes on.                 *)
LEMMA AtInfo ==
  ASSUME TypeOK, AtRecipient
  PROVE  /\ next \in DOMAIN env.ris /\ next \in Nat /\ Len(env.ris) \in Nat
         /\ DOMAIN env.ris = 1 .. Len(env.ris) /\ ri \in Info
<1>1. env.ris \in Seq(Info)
  BY DEF TypeOK, AtRecipient, Envelopes, Info
<1>2. next \in DOMAIN env.ris /\ DOMAIN env.ris = 1 .. Len(env.ris) /\ Len(env.ris) \in Nat
  BY <1>1 DEF TypeOK, AtRecipient
<1>3. ri \in Info
  BY <1>1, <1>2, ElementOf DEF ri
<1>. QED  BY <1>2, <1>3

(* A recipient info that does not open leaves the search where nothing up  *)
(* to it has opened.                                                       *)
LEMMA PassingPreserves ==
  ASSUME IInv, AtRecipient, ~Opens(next),
         next' = next + 1, last_err' \in {last_err, next},
         UNCHANGED <<env, keys, pc, cek, warnings, failures, signed_content>>
  PROVE  IInv'
<1>1. (\A i : Opens(i)' <=> Opens(i)) /\ (\A i, k : Yields(i, k)' <=> Yields(i, k))
  BY OpensStays
<1>2. pc = "search" /\ next \in 1 .. Len(env.ris) /\ Len(env.ris) \in Nat
  BY AtInfo DEF IInv, AtRecipient
<1>. USE DEF IInv
<1>3. TypeOK' /\ Started'
  BY <1>2 DEF TypeOK, Started
<1>4. Passed'
  <2>1. \A j \in 1 .. (next' - 1) : j = next \/ j \in 1 .. (next - 1)
    BY <1>2
  <2>. QED  BY <1>1, <1>2, <2>1 DEF Passed, Supported
<1>5. Found' /\ Recorded'
  BY <1>2 DEF Found, Recorded, HeaderFailures, EarlyWarnings
<1>6. OwnRecipientSuffices' /\ ContentIsEarned' /\ WarningsAreComplete'
  BY <1>2 DEF OwnRecipientSuffices, ContentIsEarned, WarningsAreComplete
<1>. QED  BY <1>3, <1>4, <1>5, <1>6

(* While the content is about to be opened, whoever has a right to it has  *)
(* its key at hand.                                                        *)
LEMMA RightKey ==
  ASSUME IInv, pc = "open", NEW i \in DOMAIN env.ris,
         Yields(i, env.content.cek),
         \A j \in 1 .. (i - 1) : Opens(j) => Yields(j, env.content.cek)
  PROVE  cek = env.content.cek
<1>1. next \in DOMAIN env.ris /\ Yields(next, cek) /\ \A j \in 1 .. (next - 1) : ~Opens(j)
  BY DEF IInv, Found, Passed
<1>2. DOMAIN env.ris \subseteq Nat \ {0}
  <2>1. env.ris \in Seq(Info)
    BY DEF IInv, TypeOK, Envelopes, Info
  <2>. QED  BY <2>1
<1>3. i \notin 1 .. (next - 1)
  BY <1>1 DEF Yields
<1>4. CASE next = i
  BY <1>1, <1>4 DEF Yields
<1>5. CASE next \in 1 .. (i - 1)
  BY <1>1, <1>5 DEF Yields
<1>. QED  BY <1>1, <1>2, <1>3, <1>4, <1>5

(* An end without content: it remains to show that nobody had a right to   *)
(* it.                                                                     *)
LEMMA FailingPreserves ==
  ASSUME IInv, pc \in {"read", "search", "open"}, pc' = "done",
         failures' \subseteq FailureKinds \X Nat, OwnRecipientSuffices',
         UNCHANGED <<env, keys, next, last_err, cek, warnings, signed_content>>
  PROVE  IInv'
<1>. USE DEF IInv
<1>1. TypeOK' /\ Started' /\ signed_content' = None
  BY DEF TypeOK, Started
<1>2. Passed' /\ Found' /\ Recorded'
  BY DEF Passed, Found, Recorded
<1>. QED  BY <1>1, <1>2, EndsWithoutContent

LEMMA StartPreserves ==
  ASSUME IInv, StartSearch
  PROVE  IInv'
<1>. USE DEF IInv, StartSearch
<1>1. env \in Envelopes /\ pc = "read" /\ next = 1 /\ last_err = 0
  BY DEF TypeOK, Started
<1>2. Len(env.ris) \in Nat
  BY <1>1 DEF Envelopes
<1>3. warnings' \subseteq FailureKinds \X Nat
  <2>1. {<<"CmsVersionMismatch", i>> : i \in MisversionedRecipients(env)} \subseteq FailureKinds \X Nat
    BY <1>1, RecordedTypes DEF FailureKinds
  <2>2. <<"WeakContentEncryptionAlg", 0>> \in FailureKinds \X Nat
    BY DEF FailureKinds
  <2>. QED  BY <2>1, <2>2
<1>4. TypeOK' /\ Started'
  BY <1>1, <1>2, <1>3 DEF TypeOK, Started
<1>5. Passed' /\ Found'
  BY <1>1 DEF Passed, Found, Supported
<1>6. Recorded'
  <2>1. HeaderFailures' = HeaderFailures /\ EarlyWarnings' = EarlyWarnings
    BY DEF HeaderFailures, EarlyWarnings
  <2>2. warnings' = EarlyWarnings
    BY DEF EarlyWarnings
  <2>. QED  BY <1>1, <2>1, <2>2 DEF Recorded
<1>7. OwnRecipientSuffices' /\ ContentIsEarned' /\ WarningsAreComplete'
  BY DEF OwnRecipientSuffices, ContentIsEarned, WarningsAreComplete
<1>. QED  BY <1>4, <1>5, <1>6, <1>7

LEMMA OpensPreserves ==
  ASSUME IInv, RecipientOpens
  PROVE  IInv'
<1>1. (\A i : Opens(i)' <=> Opens(i)) /\ (\A i, k : Yields(i, k)' <=> Yields(i, k))
  BY OpensStays DEF RecipientOpens
<1>. USE DEF IInv, RecipientOpens
<1>2. next \in DOMAIN env.ris /\ next \in Nat /\ ri \in Info /\ pc = "search"
  BY AtInfo DEF AtRecipient
<1>3. cek' \in Cek
  BY <1>2, CekIsKey
<1>4. warnings' \subseteq FailureKinds \X Nat
  <2>1. WeakKinds(ri) \subseteq FailureKinds
    BY DEF WeakKinds, FailureKinds
  <2>2. warnings \subseteq FailureKinds \X Nat
    BY DEF TypeOK
  <2>. QED  BY <1>2, <2>1, <2>2
<1>5. TypeOK' /\ Started'
  BY <1>2, <1>3, <1>4 DEF TypeOK, Started
<1>6. Passed'
  BY <1>1, <1>2 DEF Passed, Supported
<1>7. Found'
  <2>1. Yields(next, cek')
    BY DEF Yields, Opens, ri
  <2>2. (OpenKeys(env.ris[next]))' = OpenKeys(env.ris[next])
    BY DEF OpenKeys, KtriOpens, KariOpens, SecretOpens, Agrees, Matches
  <2>3. (Tried(env.ris[next]))' <=> Tried(env.ris[next])
    BY DEF Tried, Matches
  <2>4. (CekOf(env.ris[next]))' = CekOf(env.ris[next])
    BY <2>2 DEF CekOf
  <2>. QED  BY <1>2, <2>1, <2>2, <2>3, <2>4 DEF Found, Yields, Opens
<1>8. Recorded'
  <2>1. HeaderFailures' = HeaderFailures /\ EarlyWarnings' = EarlyWarnings
    BY DEF HeaderFailures, EarlyWarnings
  <2>2. warnings' = EarlyWarnings \union {<<k, next>> : k \in WeakKinds(env.ris[next])}
    BY <1>2 DEF Recorded, ri
  <2>. QED  BY <1>2, <2>1, <2>2 DEF Recorded
<1>9. OwnRecipientSuffices' /\ ContentIsEarned' /\ WarningsAreComplete'
  BY DEF OwnRecipientSuffices, ContentIsEarned, WarningsAreComplete
<1>. QED  BY <1>5, <1>6, <1>7, <1>8, <1>9

LEMMA ContentPreserves ==
  ASSUME IInv, OpenContent
  PROVE  IInv'
<1>1. (\A i : Opens(i)' <=> Opens(i)) /\ (\A i, k : Yields(i, k)' <=> Yields(i, k))
  BY OpensStays DEF OpenContent
<1>2. PICK plain \in Outcomes(env, cek) :
        /\ signed_content' = plain
        /\ failures' = failures \union (IF plain = None THEN {<<"Content", 0>>} ELSE warnings)
  BY DEF OpenContent
<1>. USE DEF IInv
<1>3. /\ pc = "open" /\ env \in Envelopes /\ env.content # None /\ Supported(env)
      /\ next \in DOMAIN env.ris /\ Yields(next, cek) /\ \A j \in 1 .. (next - 1) : ~Opens(j)
  BY DEF OpenContent, TypeOK, Passed, Found
<1>4. env.content.plain \in Plain
  BY <1>3 DEF Envelopes, Content
<1>5. Outcomes(env, cek) \subseteq {env.content.plain, None, Garbage}
  BY DEF Outcomes
<1>6. TypeOK' /\ Started' /\ Passed' /\ Found' /\ Recorded'
  <2>1. failures' \subseteq FailureKinds \X Nat
    BY <1>2 DEF TypeOK, FailureKinds
  <2>2. TypeOK'
    BY <1>2, <1>3, <1>4, <1>5, <2>1 DEF TypeOK, OpenContent
  <2>. QED  BY <2>2 DEF Started, Passed, Found, Recorded, OpenContent
<1>7. OwnRecipientSuffices'
  <2>. SUFFICES ASSUME NEW i \in DOMAIN env.ris,
                       Fits(env, env.content.cek), env.paramsOk, env.cipher # "AES192-CCM",
                       Yields(i, env.content.cek),
                       \A j \in 1 .. (i - 1) : Opens(j) => Yields(j, env.content.cek)
                PROVE  signed_content' = env.content.plain
    BY <1>1 DEF OwnRecipientSuffices, OpenContent, Fits
  <2>1. cek = env.content.cek
    BY <1>3, RightKey
  <2>2. Outcomes(env, cek) = {env.content.plain}
    BY <2>1 DEF Outcomes
  <2>. QED  BY <1>2, <2>2
<1>8. ContentIsEarned'
  <2>. SUFFICES ASSUME signed_content' # None
                PROVE  /\ signed_content' = env.content.plain =>
                            \E i \in DOMAIN env.ris : Yields(i, env.content.cek)
                       /\ env.kind = "AuthEnveloped" =>
                            signed_content' = env.content.plain /\ env.content.intact
    BY <1>1 DEF ContentIsEarned, OpenContent
  <2>1. env.content.plain \notin {None, Garbage}
    BY <1>4, ConstantsAssumption
  <2>2. signed_content' = env.content.plain => cek = env.content.cek
    BY <1>2, <2>1 DEF Outcomes, Fits
  <2>3. env.kind = "AuthEnveloped" => env.cipher \in AeadCiphers
    BY <1>3 DEF Supported
  <2>4. env.kind = "AuthEnveloped" => signed_content' = env.content.plain /\ env.content.intact
    BY <1>2, <2>3 DEF Outcomes, Fits
  <2>. QED  BY <1>3, <2>2, <2>4
<1>9. WarningsAreComplete'
  <2>. SUFFICES ASSUME signed_content' # None
                PROVE  WarningsAreComplete'
    BY DEF WarningsAreComplete
  <2>1. failures' = HeaderFailures \union EarlyWarnings
                      \union {<<k, next>> : k \in WeakKinds(env.ris[next])}
    BY <1>2, <1>3 DEF Recorded
  <2>2. Opens(next)
    BY <1>3 DEF Yields
  <2>. QED  BY <1>1, <1>3, <2>1, <2>2 DEF WarningsAreComplete, HeaderFailures, EarlyWarnings, OpenContent
<1>. QED  BY <1>6, <1>7, <1>8, <1>9

LEMMA StepPreserves ==
  ASSUME IInv, Step
  PROVE  IInv'
<1>1. CASE NoContent
  <2>1. OwnRecipientSuffices'
    BY <1>1 DEF NoContent, OwnRecipientSuffices
  <2>. QED  BY <1>1, <2>1, FailingPreserves DEF NoContent, IInv, TypeOK
<1>2. CASE RejectAlgorithm
  <2>1. OwnRecipientSuffices'
    BY <1>2 DEF RejectAlgorithm, Fail, OwnRecipientSuffices, Supported
  <2>2. failures' \subseteq FailureKinds \X Nat
    BY <1>2 DEF RejectAlgorithm, Fail, IInv, TypeOK, FailureKinds
  <2>. QED  BY <1>2, <2>1, <2>2, FailingPreserves DEF RejectAlgorithm, Fail
<1>3. CASE RejectCertificate
  <2>1. OwnRecipientSuffices'
    BY <1>3 DEF RejectCertificate, Fail, OwnRecipientSuffices
  <2>2. failures' \subseteq FailureKinds \X Nat
    BY <1>3 DEF RejectCertificate, Fail, IInv, TypeOK, FailureKinds
  <2>. QED  BY <1>3, <2>1, <2>2, FailingPreserves DEF RejectCertificate, Fail
<1>4. CASE StartSearch
  BY <1>4, StartPreserves
<1>5. CASE SkipRecipient
  BY <1>5, PassingPreserves DEF SkipRecipient, Opens, ri
<1>6. CASE RecipientFails
  BY <1>6, PassingPreserves DEF RecipientFails, Opens, ri
<1>7. CASE RecipientOpens
  BY <1>7, OpensPreserves
<1>8. CASE NoRecipient
  <2>1. DOMAIN env.ris = 1 .. Len(env.ris) /\ Len(env.ris) \in Nat /\ next \in Nat
    BY <1>8 DEF NoRecipient, IInv, TypeOK, Envelopes
  <2>2. \A i \in DOMAIN env.ris : i \in 1 .. (next - 1)
    BY <1>8, <2>1 DEF NoRecipient
  <2>3. \A i \in DOMAIN env.ris : ~Opens(i)
    BY <1>8, <2>2 DEF NoRecipient, IInv, Passed
  <2>4. (\A i : Opens(i)' <=> Opens(i)) /\ UNCHANGED env
    BY <1>8, OpensStays DEF NoRecipient, Fail
  <2>5. OwnRecipientSuffices'
    BY <2>3, <2>4 DEF OwnRecipientSuffices, Yields
  <2>6. failures' \subseteq FailureKinds \X Nat
    BY <1>8 DEF NoRecipient, Fail, IInv, TypeOK, FailureKinds
  <2>. QED  BY <1>8, <2>5, <2>6, FailingPreserves DEF NoRecipient, Fail
<1>9. CASE RejectLength
  <2>1. (\A i : Opens(i)' <=> Opens(i)) /\ (\A i, k : Yields(i, k)' <=> Yields(i, k))
    BY <1>9, OpensStays DEF RejectLength, Fail
  <2>2. OwnRecipientSuffices'
    <3>. SUFFICES ASSUME NEW i \in DOMAIN env.ris,
                         CekLen[env.content.cek] = KeyLen(env.cipher),
                         Yields(i, env.content.cek),
                         \A j \in 1 .. (i - 1) : Opens(j) => Yields(j, env.content.cek)
                  PROVE  FALSE
      BY <1>9, <2>1 DEF OwnRecipientSuffices, RejectLength, Fail
    <3>. QED  BY <1>9, RightKey DEF RejectLength
  <2>3. failures' \subseteq FailureKinds \X Nat
    BY <1>9 DEF RejectLength, Fail, IInv, TypeOK, FailureKinds
  <2>. QED  BY <1>9, <2>2, <2>3, FailingPreserves DEF RejectLength, Fail
<1>10. CASE OpenContent
  BY <1>10, ContentPreserves
<1>. QED  BY <1>1, <1>2, <1>3, <1>4, <1>5, <1>6, <1>7, <1>8, <1>9, <1>10 DEF Step

LEMMA Invariant == Spec => []IInv
<1>1. IInv /\ [Next]_vars => IInv'
  <2>. SUFFICES ASSUME IInv, [Next]_vars PROVE IInv'
    OBVIOUS
  <2>1. CASE Call
    <3>1. PICK e \in Envelope, k \in KeyRing : Decrypt(e, k)
      BY <2>1 DEF Call
    <3>. QED  BY <3>1, CallPreserves, InputAssumption
  <2>2. CASE Step
    BY <2>2, StepPreserves
  <2>3. CASE UNCHANGED vars
    BY <2>3, StutterPreserves
  <2>. QED  BY <2>1, <2>2, <2>3 DEF Next
<1>. QED  BY Initially, <1>1, PTL DEF Spec

-----------------------------------------------------------------------------
(* The type invariant of recover_cek's search and of what surrounds it.    *)
THEOREM TypeCorrect == Spec => []TypeOK
BY Invariant, PTL DEF IInv

(* recover_cek's loop reaches the reader's own recipient info, whatever    *)
(* goes wrong with those before it, for any number of them; the content is *)
(* then opened.                                                            *)
THEOREM OwnKeyReads == Spec => []OwnRecipientSuffices
BY Invariant, PTL DEF IInv

(* decrypt_enveloped_data and its AEAD counterpart hand the plaintext out  *)
(* only to who holds what a recipient info is locked with, and with an     *)
(* AEAD cipher nothing but the unchanged plaintext.                        *)
THEOREM OnlyKeysRead == Spec => []ContentIsEarned
BY Invariant, PTL DEF IInv

(* The failures beside a content are those of its envelope, of its         *)
(* recipient infos' versions and of the algorithms that led to it: none of *)
(* the vectors of warnings is lost on its way up, and no recipient info    *)
(* that was passed over leaves one.                                        *)
THEOREM WarningsComplete == Spec => []WarningsAreComplete
BY Invariant, PTL DEF IInv

-----------------------------------------------------------------------------
(* The round trip.                                                         *)

(* The recipient infos of an envelope are those of the certificates.       *)
ForAll(infos) ==
  /\ infos \in Seq(Info)
  /\ \A i \in DOMAIN infos :
       \E c \in Recipients : E!ValidKey(c) /\ infos[i] = E!RecipientInfo(c)
  /\ \A c \in Recipients :
       E!ValidKey(c) /\ \E i \in DOMAIN infos : infos[i] = E!RecipientInfo(c)

Asked ==
  e_pc \in {"build", "sent"} => request \in Requests /\ Recipients \subseteq Cert

Building ==
  e_pc = "build" =>
    /\ e_next \in 1 .. Len(request.certs) + 1
    /\ ris \in Seq(Info) /\ Len(ris) = e_next - 1
    /\ \A i \in 1 .. (e_next - 1) :
         E!ValidKey(request.certs[i]) /\ ris[i] = E!RecipientInfo(request.certs[i])

SentToAll == e_pc = "sent" => \E infos : ForAll(infos) /\ sent = E!Sealed(infos)

Handed ==
  /\ pc # "idle" => e_pc \in {"idle", "sent"}
  /\ pc # "idle" /\ e_pc = "sent" => env = sent
  /\ e_pc = "idle" => ris = <<>> /\ e_next = 1

SInv == Asked /\ Building /\ SentToAll /\ Handed

-----------------------------------------------------------------------------
(* What build_recipient_info makes.                                        *)

LEMMA InfoMade ==
  ASSUME request \in Requests, NEW c \in Cert, E!ValidKey(c)
  PROVE  /\ E!RecipientInfo(c) \in Ktri \union Kari
         /\ E!RecipientInfo(c) \in Info
<1>1. /\ CertKey[c] \in Key /\ CertIas[c] \in RecipientId /\ FreshCek \in Cek
      /\ KeyType[CertKey[c]] \in KeyTypes
  BY ConstantsAssumption, SenderAssumption
<1>2. CASE KeyType[CertKey[c]] = "RSA"
  <2>1. E!RecipientAlg(c) \in {"PKCS1", "OAEP"}
    BY <1>2 DEF E!RecipientAlg
  <2>2. E!LockedFor(c, "ktri") \in Locked
    BY <1>1, <2>1 DEF E!LockedFor, Locked, Lock, KtriAlgs
  <2>3. E!RecipientInfo(c) \in Ktri
    BY <1>1, <1>2, <2>1, <2>2 DEF E!RecipientInfo, Ktri, KtriAlgs
  <2>. QED  BY <2>3 DEF Info
<1>3. CASE KeyType[CertKey[c]] # "RSA"
  <2>1. E!RecipientAlg(c) \in {"hkdf", "std"}
    BY <1>3 DEF E!RecipientAlg
  <2>2. E!LockedFor(c, "kari") \in Locked
    BY <1>1, <2>1 DEF E!LockedFor, Locked, Lock, KariAlgs
  <2>3. <<[rid |-> CertIas[c], locked |-> E!LockedFor(c, "kari")]>>
          \in Seq([rid : RecipientId, locked : Locked])
    BY <1>1, <2>2
  <2>4. E!RecipientInfo(c) \in Kari
    BY <1>1, <1>3, <2>1, <2>3 DEF E!RecipientInfo, Kari, KariAlgs
  <2>. QED  BY <2>4 DEF Info
<1>. QED  BY <1>2, <1>3

LEMMA EnvelopeMade ==
  ASSUME request \in Requests, NEW infos, ForAll(infos)
  PROVE  E!Sealed(infos) \in Envelopes
<1>1. FreshCek \in Cek
  BY SenderAssumption
<1>. QED  BY <1>1 DEF E!Sealed, Envelopes, ForAll, Info, Requests, Content, Ciphers, CbcCiphers, AeadCiphers

-----------------------------------------------------------------------------
(* Reading it.                                                             *)

LEMMA OneKey == First({1}) = 1
<1>1. \A l \in {1} : 1 <= l
  OBVIOUS
<1>. QED  BY <1>1 DEF First

(* The recipient info of its holder opens, and whichever opens, yields the *)
(* content-encryption key.                                                 *)
LEMMA HolderOpens ==
  ASSUME request \in Requests, NEW c \in Cert, E!ValidKey(c), NEW i,
         env.ris[i] = E!RecipientInfo(c)
  PROVE  /\ keys.cert = c /\ keys.private = CertKey[c] => Opens(i)
         /\ Opens(i) => Yields(i, FreshCek)
<1>1. /\ CertKey[c] \in Key /\ CertKey[c] # None /\ c # None /\ c # Garbage
      /\ CertIas[c] \in CertIds[c]
  BY ConstantsAssumption, SenderAssumption
<1>2. CASE KeyType[CertKey[c]] = "RSA"
  <2>1. env.ris[i].kind = "ktri" /\ env.ris[i].locked.cek = FreshCek
    BY <1>2 DEF E!RecipientInfo, E!LockedFor
  <2>2. keys.cert = c /\ keys.private = CertKey[c] => KtriOpens(env.ris[i]) /\ Matches(env.ris[i].rid)
    BY <1>1, <1>2 DEF E!RecipientInfo, E!LockedFor, E!RecipientAlg, KtriOpens, Matches
  <2>3. keys.cert = c /\ keys.private = CertKey[c] => Opens(i)
    BY <2>1, <2>2 DEF Opens, OpenKeys, Tried
  <2>. QED  BY <2>1, <2>3 DEF Yields, CekOf
<1>3. CASE KeyType[CertKey[c]] # "RSA"
  <2>. DEFINE info == env.ris[i]
  <2>1. /\ info.kind = "kari" /\ info.alg = E!RecipientAlg(c) /\ info.ephemeral = KeyType[CertKey[c]]
        /\ info.keys = <<[rid |-> CertIas[c], locked |-> E!LockedFor(c, "kari")]>>
    BY <1>3 DEF E!RecipientInfo
  <2>2. /\ DOMAIN info.keys = {1} /\ info.keys[1].locked.cek = FreshCek
        /\ info.keys[1].rid = CertIas[c]
        /\ info.keys[1].locked.lock = [by |-> "kari", alg |-> E!RecipientAlg(c), key |-> CertKey[c]]
    BY <2>1 DEF E!LockedFor
  <2>3. OpenKeys(info) = {j \in {1} : KariOpens(info, j)}
    BY <2>1, <2>2 DEF OpenKeys
  <2>4. KeyType[CertKey[c]] # None
    BY ConstantsAssumption, SenderAssumption
  <2>5. keys.cert = c /\ keys.private = CertKey[c] => Agrees(info)
    BY <1>1, <1>3, <2>1, <2>4 DEF Agrees, CofactorAlgs, E!RecipientAlg, E!ValidKey, Curves
  <2>6. keys.cert = c /\ keys.private = CertKey[c] => KariOpens(info, 1)
    BY <1>1, <2>1, <2>2, <2>5 DEF KariOpens, Matches
  <2>7. keys.cert = c /\ keys.private = CertKey[c] => Opens(i)
    BY <1>1, <2>1, <2>3, <2>6 DEF Opens, Tried
  <2>8. Opens(i) => OpenKeys(info) = {1}
    BY <2>3 DEF Opens
  <2>9. Opens(i) => CekOf(info) = FreshCek
    BY <2>1, <2>2, <2>8, OneKey DEF CekOf
  <2>. QED  BY <2>7, <2>9 DEF Yields
<1>. QED  BY <1>2, <1>3

(* Whoever is among the recipients and has the key reads the plaintext:    *)
(* its recipient info is there, no other yields another key, and nothing   *)
(* that encrypt writes deserves a warning.                                 *)
LEMMA Reading ==
  ASSUME IInv, SInv
  PROVE  RecipientsRead
<1>. SUFFICES ASSUME Delivered, keys.cert \in Recipients, keys.private = CertKey[keys.cert]
              PROVE  signed_content = request.plaintext /\ failures = {}
  BY DEF RecipientsRead
<1>1. pc = "done" /\ request \in Requests /\ Recipients \subseteq Cert
  BY DEF Delivered, SInv, Asked
<1>2. PICK infos : ForAll(infos) /\ env = E!Sealed(infos)
  BY <1>1 DEF Delivered, SInv, SentToAll, Handed
<1>3. /\ env.ris = infos /\ env.isData /\ env.cipher = request.cipher /\ env.hkdf = FALSE
      /\ env.paramsOk /\ env.originator = "none" /\ ~env.unprotectedAttrs
      /\ env.kind = IF request.cipher = "AES256-GCM" THEN "AuthEnveloped" ELSE "Enveloped"
      /\ env.version = IF \/ request.cipher = "AES256-GCM"
                          \/ \A i \in DOMAIN infos : infos[i].kind = "ktri" THEN 0 ELSE 2
      /\ env.content = [cek |-> FreshCek, hkdf |-> FALSE, cipher |-> request.cipher,
                        plain |-> request.plaintext, intact |-> TRUE]
  BY <1>2 DEF E!Sealed
<1>4. request.plaintext \in Plain /\ request.cipher \in {"AES256-CBC", "AES256-GCM"}
  BY <1>1 DEF Requests
<1>5. env.content \in Content /\ env.content # None
  <2>1. FreshCek \in Cek
    BY SenderAssumption
  <2>2. env.content \in Content
    BY <1>3, <1>4, <2>1 DEF Content, Ciphers, CbcCiphers, AeadCiphers
  <2>. QED  BY <2>2, ConstantsAssumption
<1>6. \A i \in DOMAIN infos : Opens(i) => Yields(i, FreshCek)
  BY <1>1, <1>2, <1>3, HolderOpens DEF ForAll
<1>7. PICK mine \in DOMAIN infos : Opens(mine) /\ Yields(mine, FreshCek)
  <2>1. PICK i \in DOMAIN infos : infos[i] = E!RecipientInfo(keys.cert)
    BY <1>2 DEF ForAll
  <2>2. E!ValidKey(keys.cert)
    BY <1>2 DEF ForAll
  <2>. QED  BY <1>1, <1>3, <2>1, <2>2, HolderOpens
<1>8. env.content.cek = FreshCek /\ env.content.plain = request.plaintext
  BY <1>3
<1>9. keys.cert # Garbage
  BY <1>1, ConstantsAssumption
<1>10. Supported(env) /\ Fits(env, env.content.cek) /\ env.cipher # "AES192-CCM"
  <2>1. Supported(env) /\ env.cipher # "AES192-CCM"
    BY <1>3, <1>4 DEF Supported, CbcCiphers, AeadCiphers
  <2>2. env.content.intact = TRUE
    BY <1>3
  <2>3. env.content.cipher = env.cipher
    BY <1>3
  <2>4. env.content.hkdf = FALSE
    BY <1>3
  <2>5. env.content.hkdf = env.hkdf
    BY Zenon, <1>3, <2>4
  <2>. QED  BY <2>1, <2>2, <2>3, <2>5 DEF Fits
<1>11. CekLen[env.content.cek] = KeyLen(env.cipher)
  BY <1>3, <1>4, <1>8, SenderAssumption DEF KeyLen
<1>12. signed_content = request.plaintext
  <2>1. \A j \in 1 .. (mine - 1) : Opens(j) => Yields(j, env.content.cek)
    <3>1. DOMAIN infos = 1 .. Len(infos) /\ Len(infos) \in Nat
      BY <1>2 DEF ForAll
    <3>. QED  BY <1>6, <1>8, <3>1
  <2>. QED  BY <1>1, <1>3, <1>5, <1>7, <1>8, <1>9, <1>10, <1>11, <2>1 DEF IInv, OwnRecipientSuffices
<1>13. PICK used \in DOMAIN infos : failures =
           (IF env.version = ExpectedEnvelopeVersion(env) THEN {} ELSE {<<"CmsVersionMismatch", 0>>})
           \union {<<"CmsVersionMismatch", i>> : i \in MisversionedRecipients(env)}
           \union (IF env.cipher = "3DES" THEN {<<"WeakContentEncryptionAlg", 0>>} ELSE {})
           \union {<<k, used>> : k \in WeakKinds(env.ris[used])}
  <2>1. signed_content # None
    BY <1>4, <1>12, ConstantsAssumption
  <2>. QED  BY <1>1, <1>3, <2>1 DEF IInv, WarningsAreComplete
<1>14. \A i \in DOMAIN infos :
         /\ infos[i].kind \in {"ktri", "kari"}
         /\ infos[i].version = ExpectedRecipientVersion(infos[i])
         /\ infos[i].kind = "ktri" => infos[i].version = 0
         /\ WeakKinds(infos[i]) = {}
  <2>. SUFFICES ASSUME NEW i \in DOMAIN infos, NEW c \in Cert, infos[i] = E!RecipientInfo(c)
                PROVE  /\ infos[i].kind \in {"ktri", "kari"}
                       /\ infos[i].version = ExpectedRecipientVersion(infos[i])
                       /\ infos[i].kind = "ktri" => infos[i].version = 0
                       /\ WeakKinds(infos[i]) = {}
    BY <1>1, <1>2 DEF ForAll
  <2>1. IdBy[CertIas[c]] = "ias"
    BY SenderAssumption
  <2>2. E!RecipientAlg(c) \notin {"OAEP-SHA1", "PBKDF2-SHA1"} \union Sha1KdfAlgs
    BY DEF E!RecipientAlg, Sha1KdfAlgs
  <2>. QED  BY <2>1, <2>2 DEF E!RecipientInfo, ExpectedRecipientVersion, WeakKinds
<1>15. env.version = ExpectedEnvelopeVersion(env)
  <2>1. {infos[i].kind : i \in DOMAIN infos} \intersect {"pwri", "ori"} = {}
    BY <1>14
  <2>. QED  BY <1>3, <1>14, <2>1 DEF ExpectedEnvelopeVersion
<1>16. MisversionedRecipients(env) = {}
  BY <1>3, <1>14 DEF MisversionedRecipients
<1>17. failures = {}
  BY <1>3, <1>4, <1>13, <1>14, <1>15, <1>16
<1>. QED  BY <1>12, <1>17

-----------------------------------------------------------------------------
(* The sender's steps.                                                     *)

(* What is made for a certificate depends on the request alone.            *)
LEMMA MadeStays ==
  ASSUME request' = request
  PROVE  /\ \A c : (E!RecipientInfo(c))' = E!RecipientInfo(c)
         /\ \A infos : ForAll(infos)' <=> ForAll(infos)
         /\ \A infos : (E!Sealed(infos))' = E!Sealed(infos)
         /\ Recipients' = Recipients
<1>1. \A c : (E!RecipientInfo(c))' = E!RecipientInfo(c)
  BY DEF E!RecipientInfo, E!LockedFor, E!RecipientAlg
<1>2. Recipients' = Recipients
  BY DEF Recipients
<1>3. \A infos : (E!Sealed(infos))' = E!Sealed(infos)
  BY DEF E!Sealed
<1>4. \A infos : ForAll(infos)' <=> ForAll(infos)
  BY <1>1, <1>2 DEF ForAll
<1>. QED  BY <1>1, <1>2, <1>3, <1>4

LEMMA SenderAtRest ==
  ASSUME SInv, UNCHANGED senderVars,
         pc' # "idle" => /\ e_pc \in {"idle", "sent"}
                         /\ e_pc = "sent" => env' = sent
  PROVE  SInv'
<1>. USE DEF SInv, senderVars
<1>1. Asked'
  BY MadeStays DEF Asked
<1>2. Building'
  BY MadeStays DEF Building
<1>3. SentToAll'
  BY MadeStays DEF SentToAll
<1>4. Handed'
  BY DEF Handed
<1>. QED  BY <1>1, <1>2, <1>3, <1>4

LEMMA SendPreserves ==
  ASSUME SInv, Send
  PROVE  SInv'
<1>. USE DEF SInv, Send, vars
<1>1. PICK r \in Request : E!Encrypt(r)
  OBVIOUS
<1>2. r \in Requests /\ r.certs \in Seq(Cert \union {Garbage})
  BY SenderAssumption DEF Requests
<1>3. Asked'
  BY <1>1, <1>2 DEF Asked, E!Encrypt, Recipients
<1>4. Building'
  BY <1>1, <1>2 DEF Building, E!Encrypt, Handed
<1>5. SentToAll' /\ Handed'
  BY <1>1 DEF SentToAll, Handed, E!Encrypt
<1>. QED  BY <1>3, <1>4, <1>5

LEMMA AddPreserves ==
  ASSUME SInv, E!AddRecipient, UNCHANGED vars
  PROVE  SInv'
<1>. USE DEF SInv, E!AddRecipient, E!AtCert, vars
<1>1. Asked' /\ SentToAll' /\ Handed'
  BY DEF Asked, Recipients, SentToAll, Handed
<1>2. Building'
  <2>. DEFINE c == request.certs[e_next]
  <2>1. /\ request.certs \in Seq(Cert \union {Garbage}) /\ e_next \in 1 .. Len(request.certs)
        /\ Len(request.certs) \in Nat /\ request \in Requests
    BY DEF Asked, Building, Requests
  <2>2. c \in Cert
    BY <2>1 DEF Asked, Recipients
  <2>3. E!ValidKey(c) /\ ris' = Append(ris, E!RecipientInfo(c)) /\ E!RecipientInfo(c) \in Info
    BY <2>1, <2>2, InfoMade DEF E!NextCert
  <2>4. /\ ris' \in Seq(Info) /\ Len(ris') = e_next /\ ris'[e_next] = E!RecipientInfo(c)
        /\ \A i \in 1 .. (e_next - 1) : ris'[i] = ris[i]
    BY <2>1, <2>3 DEF Building
  <2>5. \A i \in 1 .. e_next :
          E!ValidKey(request.certs[i]) /\ ris'[i] = E!RecipientInfo(request.certs[i])
    <3>. TAKE i \in 1 .. e_next
    <3>1. CASE i = e_next
      BY <2>3, <2>4, <3>1
    <3>2. CASE i \in 1 .. (e_next - 1)
      BY <2>4, <3>2 DEF Building
    <3>3. i = e_next \/ i \in 1 .. (e_next - 1)
      BY <2>1
    <3>. QED  BY <3>1, <3>2, <3>3
  <2>6. \A x : (E!RecipientInfo(x))' = E!RecipientInfo(x)
    BY MadeStays
  <2>. QED  BY <2>1, <2>4, <2>5, <2>6 DEF Building
<1>. QED  BY <1>1, <1>2

LEMMA SealPreserves ==
  ASSUME SInv, E!Seal, UNCHANGED vars
  PROVE  SInv'
<1>. USE DEF SInv, E!Seal, vars
<1>. DEFINE D == DOMAIN ris
<1>1. PICK p \in E!Bijection(D, D) : sent' = E!Sealed([i \in D |-> ris[p[i]]])
  OBVIOUS
<1>. DEFINE infos == [i \in D |-> ris[p[i]]]
<1>2. p \in [D -> D] /\ \A w \in D : \E v \in D : p[v] = w
  BY DEF E!Bijection, E!Surjection
<1>3. /\ ris \in Seq(Info) /\ D = 1 .. Len(request.certs) /\ D = DOMAIN request.certs
      /\ \A i \in D : E!ValidKey(request.certs[i]) /\ ris[i] = E!RecipientInfo(request.certs[i])
  <2>1. request.certs \in Seq(Cert \union {Garbage})
    BY DEF Asked, Requests
  <2>2. e_next = Len(request.certs) + 1 /\ Len(request.certs) \in Nat
    BY <2>1 DEF Building
  <2>3. Len(ris) = Len(request.certs) /\ ris \in Seq(Info)
    BY <2>2 DEF Building
  <2>. QED  BY <2>1, <2>2, <2>3 DEF Building
<1>4. ForAll(infos)
  <2>1. infos \in [1 .. Len(request.certs) -> Info]
    BY <1>2, <1>3, ElementOf
  <2>2. infos \in Seq(Info)
    <3>1. Len(request.certs) \in Nat
      BY DEF Asked, Requests
    <3>2. \A n \in Nat : \A f \in [1 .. n -> Info] : f \in Seq(Info)
      OBVIOUS
    <3>. QED  BY <2>1, <3>1, <3>2, Zenon
  <2>3. \A i \in DOMAIN infos :
          \E c \in Recipients : E!ValidKey(c) /\ infos[i] = E!RecipientInfo(c)
    <3>1. ASSUME NEW i \in D
          PROVE  /\ request.certs[p[i]] \in Recipients /\ E!ValidKey(request.certs[p[i]])
                 /\ infos[i] = E!RecipientInfo(request.certs[p[i]])
      BY <1>2, <1>3, <3>1 DEF Recipients
    <3>. QED  BY <3>1
  <2>4. \A c \in Recipients :
          E!ValidKey(c) /\ \E i \in DOMAIN infos : infos[i] = E!RecipientInfo(c)
    <3>. SUFFICES ASSUME NEW j \in D
                  PROVE  /\ E!ValidKey(request.certs[j])
                         /\ \E i \in D : infos[i] = E!RecipientInfo(request.certs[j])
      BY <1>3 DEF Recipients
    <3>1. PICK i \in D : p[i] = j
      BY <1>2
    <3>. QED  BY <1>3, <3>1
  <2>. QED  BY <2>2, <2>3, <2>4 DEF ForAll
<1>5. Asked' /\ Building' /\ Handed'
  BY DEF Asked, Building, Handed, Recipients
<1>6. SentToAll'
  <2>. HIDE DEF infos
  <2>1. ForAll(infos)' /\ sent' = (E!Sealed(infos))'
    BY <1>1, <1>4, MadeStays DEF infos
  <2>. QED  BY <1>1, <1>4, MadeStays DEF SentToAll, infos
<1>. QED  BY <1>5, <1>6

-----------------------------------------------------------------------------

LEMMA SentIsEnvelope ==
  ASSUME SInv, e_pc = "sent"
  PROVE  sent \in Envelopes
<1>1. PICK infos : ForAll(infos) /\ sent = E!Sealed(infos)
  BY DEF SInv, SentToAll
<1>. QED  BY <1>1, EnvelopeMade DEF SInv, Asked

LEMMA RoundTripInvariant == RoundTripSpec => [](IInv /\ SInv)
<1>1. RoundTripInit => IInv /\ SInv
  <2>. SUFFICES ASSUME RoundTripInit PROVE IInv /\ SInv
    OBVIOUS
  <2>1. IInv
    BY Initially DEF RoundTripInit
  <2>2. SInv
    BY DEF RoundTripInit, Init, E!EncryptInit, SInv, Asked, Building, SentToAll, Handed
  <2>. QED  BY <2>1, <2>2
<1>2. IInv /\ SInv /\ [RoundTripNext]_allVars => IInv' /\ SInv'
  <2>. SUFFICES ASSUME IInv, SInv, [RoundTripNext]_allVars PROVE IInv' /\ SInv'
    OBVIOUS
  <2>1. CASE Send
    BY <2>1, SendPreserves, StutterPreserves DEF Send
  <2>2. CASE EncryptOn
    <3>1. CASE E!AddRecipient
      BY <2>2, <3>1, AddPreserves, StutterPreserves DEF EncryptOn
    <3>2. CASE E!RefuseRecipient
      <4>1. SInv'
        BY <2>2, <3>2 DEF EncryptOn, E!RefuseRecipient, E!AtCert, vars, SInv, Asked, Building,
                          SentToAll, Handed
      <4>. QED  BY <2>2, <4>1, StutterPreserves DEF EncryptOn
    <3>3. CASE E!Seal
      BY <2>2, <3>3, SealPreserves, StutterPreserves DEF EncryptOn
    <3>. QED  BY <2>2, <3>1, <3>2, <3>3 DEF EncryptOn, E!EncryptStep
  <2>3. CASE Deliver
    <3>1. PICK k \in KeyRing : Decrypt(sent, k)
      BY <2>3 DEF Deliver
    <3>2. IInv'
      BY <2>3, <3>1, SentIsEnvelope, CallPreserves, InputAssumption DEF Deliver
    <3>3. SInv'
      BY <2>3, <3>1, SenderAtRest DEF Deliver, Decrypt
    <3>. QED  BY <3>2, <3>3
  <2>4. CASE Receive
    <3>1. PICK e \in Envelope, k \in KeyRing : Decrypt(e, k)
      BY <2>4 DEF Receive, Call
    <3>2. IInv'
      BY <3>1, CallPreserves, InputAssumption
    <3>3. SInv'
      BY <2>4, SenderAtRest DEF Receive
    <3>. QED  BY <3>2, <3>3
  <2>5. CASE DecryptOn
    <3>1. pc # "idle" /\ env' = env
      BY <2>5 DEF DecryptOn, Step, NoContent, RejectAlgorithm, RejectCertificate, StartSearch,
                  SkipRecipient, RecipientFails, RecipientOpens, NoRecipient, RejectLength,
                  OpenContent, Fail, AtRecipient
    <3>2. SInv'
      BY <2>5, <3>1, SenderAtRest DEF DecryptOn, SInv, Handed
    <3>. QED  BY <2>5, <3>2, StepPreserves DEF DecryptOn
  <2>6. CASE UNCHANGED allVars
    <3>1. SInv'
      BY <2>6, SenderAtRest DEF allVars, vars, SInv, Handed
    <3>. QED  BY <2>6, <3>1, StutterPreserves DEF allVars
  <2>. QED  BY <2>1, <2>2, <2>3, <2>4, <2>5, <2>6 DEF RoundTripNext
<1>. QED  BY <1>1, <1>2, PTL DEF RoundTripSpec

-----------------------------------------------------------------------------
(* What is proved of decryption holds in the company of a sender, whose    *)
(* messages are among those it is called with.                             *)
THEOREM DecryptionSound ==
  RoundTripSpec => [](TypeOK /\ OwnRecipientSuffices /\ ContentIsEarned /\ WarningsAreComplete)
BY RoundTripInvariant, PTL DEF IInv

(* Every recipient of a message that encrypt made, with its certificate    *)
(* and key, gets the plaintext and no failure from the decryption layers,  *)
(* for any number of recipients and in any order of the SET OF.            *)
THEOREM EveryRecipientReads == RoundTripSpec => []RecipientsRead
BY RoundTripInvariant, Reading, PTL

=============================================================================
