-------------------------- MODULE ContentDecryption --------------------------
(***************************************************************************)
(* Decrypting one EnvelopedData or AuthEnvelopedData: the search for the   *)
(* content-encryption key among the recipient infos (recover_cek) and the  *)
(* opening of the content, in src/decrypt.rs, with the checks of the two   *)
(* layer functions of src/decrypt_verify.rs around them.                   *)
(*                                                                         *)
(* Cryptography is symbolic.  What encrypts a key is a Lock, which names   *)
(* the algorithms and the key it takes to open it; the content is locked   *)
(* under a CEK and whether that was derived once more (RFC 9709).  Which   *)
(* of its errors a recipient info ends with is not distinguished, only     *)
(* that it is that recipient info's error.                                 *)
(***************************************************************************)
EXTENDS Integers, Sequences

CONSTANTS
  None,
  Garbage,    \* what CBC makes of a wrong key or a changed ciphertext
  Key,        \* asymmetric key pairs
  KeyType,    \* the algorithm of each
  Secret,     \* passwords and pre-shared keys
  Cek,        \* content-encryption keys
  CekLen,     \* the length of each, in bytes
  Cert,       \* certificates of recipients
  CertIds,    \* the recipient identifiers that match each
  RecipientId,
  IdBy,       \* "ias" (issuer and serial number) or "ski", for each
  Plain,      \* plaintexts
  Envelope,   \* the inputs: what is decrypted
  KeyRing     \* and what it is decrypted with

Curves == {"P256", "P384", "P521"}
KeyTypes == Curves \union {"RSA", "RSA1024", "X25519", "X448"}

KtriAlgs == {"PKCS1", "OAEP", "OAEP-SHA1", "other"}
KariAlgs == {"std", "std-sha1", "cofactor", "cofactor-sha1", "hkdf", "other"}   \* and their AES wrap
CofactorAlgs == {"cofactor", "cofactor-sha1"}   \* is_cofactor_dh
Sha1KdfAlgs == {"std-sha1", "cofactor-sha1"}    \* Kdf::X963(KdfHash::Sha1)
KekriAlgs == {"AES", "other"}
PwriAlgs == {"PBKDF2", "PBKDF2-SHA1", "other"}

Lock == [by : {"ktri", "kari", "kekri", "pwri"}, key : Key \union Secret,
         alg : KtriAlgs \union KariAlgs \union KekriAlgs \union PwriAlgs]
Locked == [lock : Lock, cek : Cek]

Ktri == [kind : {"ktri"}, version : Nat, alg : KtriAlgs, rid : RecipientId, locked : Locked]
Kari == [kind : {"kari"}, version : Nat, alg : KariAlgs,
         ephemeral : KeyTypes \union {None},   \* None: not an originatorKey
         keys : Seq([rid : RecipientId, locked : Locked])]
Kekri == [kind : {"kekri"}, version : Nat, alg : KekriAlgs, locked : Locked]
Pwri == [kind : {"pwri"}, version : Nat, alg : PwriAlgs, low : BOOLEAN, locked : Locked]
Ori == [kind : {"ori"}]

CbcCiphers == {"AES128-CBC", "AES256-CBC", "3DES"}
AeadCiphers == {"AES128-GCM", "AES256-GCM", "AES256-CCM", "AES192-CCM"}
Ciphers == CbcCiphers \union AeadCiphers \union {"other"}

Content == [cek : Cek, hkdf : BOOLEAN, cipher : Ciphers, plain : Plain,
            intact : BOOLEAN]   \* what was locked up, and whether unchanged

Envelopes ==
  [kind       : {"Enveloped", "AuthEnveloped"},
   version    : Nat,
   originator : {"none", "plain", "v2attr", "other"},
   unprotectedAttrs : BOOLEAN,
   ris        : Seq(Ktri \union Kari \union Kekri \union Pwri \union Ori),
   isData     : BOOLEAN,        \* the content type is id-data
   cipher     : Ciphers,        \* the algorithm declared, below id-alg-cek-hkdf
   hkdf       : BOOLEAN,
   paramsOk   : BOOLEAN,        \* nonce and tag have a permitted length
   content    : Content \union {None}]

KeyRings ==
  [private : Key \union {None}, cert : Cert \union {None, Garbage},
   password : Secret \union {None}, kek : Secret \union {None}]

ASSUME ConstantsAssumption ==
  /\ KeyType \in [Key -> KeyTypes]
  /\ CekLen \in [Cek -> {16, 24, 32, 40}]
  /\ CertIds \in [Cert -> SUBSET RecipientId]
  /\ IdBy \in [RecipientId -> {"ias", "ski"}]
  /\ None \notin Key \union Secret \union Cert \union Plain \union {Garbage}
  /\ None \notin Content \union KeyTypes
  /\ Garbage \notin Plain \union Cert

(* What is decrypted, with what.                                           *)
ASSUME InputAssumption == Envelope \subseteq Envelopes /\ KeyRing \subseteq KeyRings

(* The recipient infos are a SET OF, which ber_to_der puts in the order of *)
(* its encodings: first of all by tag, that is by kind.                    *)
Rank == [ktri |-> 1, kari |-> 2, kekri |-> 3, pwri |-> 4, ori |-> 5]
Sorted(ris) == \A i, j \in DOMAIN ris : i < j => Rank[ris[i].kind] <= Rank[ris[j].kind]

VARIABLES
  env, keys,
  pc,         \* "idle" | "read" | "search" | "open" | "done"
  next,       \* the recipient info to look at
  last_err,   \* the last one that failed, 0 for None
  cek,
  warnings,
  failures, signed_content   \* of the SmimeValidationResult

vars == <<env, keys, pc, next, last_err, cek, warnings, failures, signed_content>>

-----------------------------------------------------------------------------
(* One recipient info.                                                     *)

Matches(rid) == keys.cert \notin {None, Garbage} /\ rid \in CertIds[keys.cert]

KtriOpens(ri) ==
  /\ keys.private # None /\ KeyType[keys.private] \in {"RSA", "RSA1024"}
  /\ ri.alg # "other"
  /\ ri.locked.lock = [by |-> "ktri", alg |-> ri.alg, key |-> keys.private]

(* The key agreement succeeds, before any recipient key is looked at.      *)
Agrees(ri) ==
  /\ ri.alg # "other" /\ ri.ephemeral # None
  /\ keys.private # None
  /\ KeyType[keys.private] \in Curves \union {"X25519"}
  /\ KeyType[keys.private] = "X25519" => ri.alg \notin CofactorAlgs
  /\ ri.ephemeral = KeyType[keys.private]

KariOpens(ri, j) ==
  /\ Agrees(ri) /\ Matches(ri.keys[j].rid)
  /\ ri.keys[j].locked.lock = [by |-> "kari", alg |-> ri.alg, key |-> keys.private]

SecretOpens(ri, by, secret) ==
  secret # None /\ ri.alg # "other" /\ ri.locked.lock = [by |-> by, alg |-> ri.alg, key |-> secret]

(* Where the recipient info has a key that opens; a key agreement may have *)
(* several of the reader's, and the first of them is taken.                *)
OpenKeys(ri) ==
  CASE ri.kind = "ktri"  -> {j \in {0} : KtriOpens(ri)}
    [] ri.kind = "kari"  -> {j \in DOMAIN ri.keys : KariOpens(ri, j)}
    [] ri.kind = "kekri" -> {j \in {0} : SecretOpens(ri, "kekri", keys.kek)}
    [] ri.kind = "pwri"  -> {j \in {0} : SecretOpens(ri, "pwri", keys.password)}
    [] ri.kind = "ori"   -> {}

First(S) == CHOOSE j \in S : \A l \in S : j <= l

(* The CEK a recipient info yields.                                        *)
CekOf(ri) == IF ri.kind = "kari" THEN ri.keys[First(OpenKeys(ri))].locked.cek ELSE ri.locked.cek

(* A key agreement is tried for every recipient who has a certificate; a   *)
(* key transport only for the one it names.                                *)
Tried(ri) ==
  CASE ri.kind = "ktri" -> Matches(ri.rid)
    [] ri.kind = "kari" -> keys.cert # None
    [] ri.kind = "ori"  -> FALSE
    [] OTHER            -> TRUE

WeakKinds(ri) ==
  {k \in {"WeakKeyEncryptionAlg", "Pbkdf2LowIterationCount"} :
     \/ k = "WeakKeyEncryptionAlg" /\ ri.kind = "ktri" /\ ri.alg = "OAEP-SHA1"
     \/ k = "WeakKeyEncryptionAlg" /\ ri.kind = "kari" /\ ri.alg \in Sha1KdfAlgs
     \/ k = "WeakKeyEncryptionAlg" /\ ri.kind = "pwri" /\ ri.alg = "PBKDF2-SHA1"
     \/ k = "Pbkdf2LowIterationCount" /\ ri.kind = "pwri" /\ ri.low}

ExpectedRecipientVersion(ri) ==
  CASE ri.kind = "ktri"  -> IF IdBy[ri.rid] = "ias" THEN 0 ELSE 2
    [] ri.kind = "kari"  -> 3
    [] ri.kind = "kekri" -> 4
    [] ri.kind = "pwri"  -> 0

MisversionedRecipients(e) ==
  {i \in DOMAIN e.ris : /\ e.ris[i].kind # "ori"
                        /\ e.ris[i].version # ExpectedRecipientVersion(e.ris[i])}

(* RFC 5652 6.1 and RFC 5083 2.1, checked by the layer functions           *)
ExpectedEnvelopeVersion(e) ==
  LET kinds == {e.ris[i].kind : i \in DOMAIN e.ris} IN
  IF e.kind = "AuthEnveloped" THEN 0
  ELSE IF e.originator = "other" THEN 4
  ELSE IF e.originator = "v2attr" \/ kinds \intersect {"pwri", "ori"} # {} THEN 3
  ELSE IF /\ e.originator = "none" /\ ~e.unprotectedAttrs
          /\ \A i \in DOMAIN e.ris : e.ris[i].kind = "ktri" /\ e.ris[i].version = 0
       THEN 0
  ELSE 2

-----------------------------------------------------------------------------
(* The content.                                                            *)

KeyLen(cipher) ==
  CASE cipher \in {"AES128-CBC", "AES128-GCM"}               -> 16
    [] cipher \in {"AES192-CCM", "3DES"}                     -> 24
    [] cipher \in {"AES256-CBC", "AES256-GCM", "AES256-CCM"} -> 32

Supported(e) ==
  e.isData /\ e.cipher \in (IF e.kind = "Enveloped" THEN CbcCiphers ELSE AeadCiphers)

(* The key and the algorithm are the ones the content was locked up with.  *)
Fits(e, k) ==
  /\ e.content.cek = k /\ e.content.hkdf = e.hkdf
  /\ e.content.cipher = e.cipher /\ e.content.intact

(* Mutant: the tag is not checked.                                         *)
OutcomesWithoutTag(e, k) == IF Fits(e, k) THEN {e.content.plain} ELSE {None, Garbage}

(* decrypt_cbc removes the padding, which a wrong key may leave well       *)
(* formed; decrypt_aes_gcm and decrypt_aes_ccm check the tag.              *)
Outcomes(e, k) ==
  IF e.cipher \in AeadCiphers
  THEN IF Fits(e, k) /\ e.paramsOk /\ e.cipher # "AES192-CCM"
       THEN {e.content.plain} ELSE {None}
  ELSE IF Fits(e, k) THEN {e.content.plain} ELSE {None, Garbage}

-----------------------------------------------------------------------------
(* The search.                                                             *)

Init ==
  /\ pc = "idle"
  /\ env = None /\ keys = None
  /\ next = 1 /\ last_err = 0 /\ cek = None
  /\ warnings = {} /\ failures = {} /\ signed_content = None

(* A call of decrypt_enveloped_data_layer or its AEAD counterpart, which   *)
(* check the version first.                                                *)
Decrypt(e, k) ==
  /\ pc = "idle"
  /\ env' = e /\ keys' = k /\ pc' = "read"
  /\ failures' = IF e.version = ExpectedEnvelopeVersion(e) THEN {}
                 ELSE {<<"CmsVersionMismatch", 0>>}
  /\ UNCHANGED <<next, last_err, cek, warnings, signed_content>>

Call == pc = "idle" /\ \E e \in Envelope, k \in KeyRing : Decrypt(e, k)

Fail(error) ==
  /\ failures' = failures \union {error}
  /\ pc' = "done"
  /\ UNCHANGED <<env, keys, next, last_err, cek, warnings, signed_content>>

(* Ok(None): nothing is encrypted *)
NoContent ==
  /\ pc = "read" /\ env.content = None
  /\ pc' = "done"
  /\ UNCHANGED <<env, keys, next, last_err, cek, warnings, failures, signed_content>>

RejectAlgorithm ==
  /\ pc = "read" /\ env.content # None /\ ~Supported(env)
  /\ Fail(<<"UnsupportedContentEncryptionAlg", 0>>)

RejectCertificate ==
  /\ pc = "read" /\ env.content # None /\ Supported(env) /\ keys.cert = Garbage
  /\ Fail(<<"RecipientCertificate", 0>>)

StartSearch ==
  /\ pc = "read" /\ env.content # None /\ Supported(env) /\ keys.cert # Garbage
  /\ warnings' = {<<"CmsVersionMismatch", i>> : i \in MisversionedRecipients(env)}
                 \union (IF env.cipher = "3DES" THEN {<<"WeakContentEncryptionAlg", 0>>} ELSE {})
  /\ pc' = "search"
  /\ UNCHANGED <<env, keys, next, last_err, cek, failures, signed_content>>

AtRecipient == pc = "search" /\ next <= Len(env.ris)
ri == env.ris[next]

(* Mutant: a recipient info that is skipped is looked at again.            *)
StayAtRecipient ==
  /\ AtRecipient /\ ~Tried(ri)
  /\ UNCHANGED vars

SkipRecipient ==
  /\ AtRecipient /\ ~Tried(ri)
  /\ next' = next + 1
  /\ UNCHANGED <<env, keys, pc, last_err, cek, warnings, failures, signed_content>>

(* Mutant: a recipient info is lost behind one that fails.                 *)
RecipientFailsAndSkips ==
  /\ AtRecipient /\ Tried(ri) /\ OpenKeys(ri) = {}
  /\ last_err' = next /\ next' = next + 2
  /\ UNCHANGED <<env, keys, pc, cek, warnings, failures, signed_content>>

(* Mutant: the first error ends the search.                                *)
StopAtFailure ==
  /\ AtRecipient /\ Tried(ri) /\ OpenKeys(ri) = {}
  /\ last_err' = next /\ next' = Len(env.ris) + 1
  /\ UNCHANGED <<env, keys, pc, cek, warnings, failures, signed_content>>

RecipientFails ==
  /\ AtRecipient /\ Tried(ri) /\ OpenKeys(ri) = {}
  /\ last_err' = next /\ next' = next + 1
  /\ UNCHANGED <<env, keys, pc, cek, warnings, failures, signed_content>>

(* Mutant: the warnings are those of the key alone.                        *)
RecipientOpensAnew ==
  /\ AtRecipient /\ Tried(ri) /\ OpenKeys(ri) # {}
  /\ cek' = CekOf(ri)
  /\ warnings' = {<<k, next>> : k \in WeakKinds(ri)}
  /\ pc' = "open"
  /\ UNCHANGED <<env, keys, next, last_err, failures, signed_content>>

RecipientOpens ==
  /\ AtRecipient /\ Tried(ri) /\ OpenKeys(ri) # {}
  /\ cek' = CekOf(ri)
  /\ warnings' = warnings \union {<<k, next>> : k \in WeakKinds(ri)}
  /\ pc' = "open"
  /\ UNCHANGED <<env, keys, next, last_err, failures, signed_content>>

NoRecipient ==
  /\ pc = "search" /\ next > Len(env.ris)
  /\ Fail(IF last_err = 0 THEN <<"NoMatchingRecipient", 0>> ELSE <<"Recipient", last_err>>)

RejectLength ==
  /\ pc = "open" /\ CekLen[cek] # KeyLen(env.cipher)
  /\ Fail(<<"CekLength", 0>>)

(* An error takes the place of the warnings.                               *)
OpenContent ==
  /\ pc = "open" /\ CekLen[cek] = KeyLen(env.cipher)
  /\ \E plain \in Outcomes(env, cek) :
       /\ signed_content' = plain
       /\ failures' = failures \union (IF plain = None THEN {<<"Content", 0>>} ELSE warnings)
  /\ pc' = "done"
  /\ UNCHANGED <<env, keys, next, last_err, cek, warnings>>

Step ==
  \/ NoContent \/ RejectAlgorithm \/ RejectCertificate \/ StartSearch
  \/ SkipRecipient \/ RecipientFails \/ RecipientOpens \/ NoRecipient
  \/ RejectLength \/ OpenContent

Next == Call \/ Step

Spec == Init /\ [][Next]_vars /\ WF_vars(Next)

-----------------------------------------------------------------------------
(* Properties                                                              *)

FailureKinds ==
  {"CmsVersionMismatch", "WeakContentEncryptionAlg", "WeakKeyEncryptionAlg",
   "Pbkdf2LowIterationCount", "UnsupportedContentEncryptionAlg",
   "RecipientCertificate", "Recipient", "NoMatchingRecipient", "CekLength", "Content"}

(* The types of the variables; the search stays within the recipient infos *)
(* and one step behind them.                                               *)
TypeOK ==
  /\ pc \in {"idle", "read", "search", "open", "done"}
  /\ pc # "idle" => env \in Envelopes /\ keys \in KeyRings
  /\ pc \in {"search", "open"} => next \in 1 .. Len(env.ris) + 1 /\ last_err \in 0 .. Len(env.ris)
  /\ cek \in Cek \union {None} /\ (pc = "open" => cek \in Cek)
  /\ warnings \subseteq FailureKinds \X Nat /\ failures \subseteq FailureKinds \X Nat
  /\ signed_content \in Plain \union {None, Garbage}

(* Recipient info i yields k for these keys.                               *)
Opens(i) == Tried(env.ris[i]) /\ OpenKeys(env.ris[i]) # {}
Yields(i, k) == Opens(i) /\ CekOf(env.ris[i]) = k

(* Who has what one recipient info asks for reads the content, whatever    *)
(* goes wrong with the recipient infos of others before it, as long as     *)
(* none of them yields the same reader a different key.                    *)
OwnRecipientSuffices ==
  pc = "done" /\ env.content # None /\ keys.cert # Garbage =>
    \A i \in DOMAIN env.ris :
      /\ Supported(env) /\ Fits(env, env.content.cek) /\ env.paramsOk /\ env.cipher # "AES192-CCM"
      /\ CekLen[env.content.cek] = KeyLen(env.cipher)
      /\ Yields(i, env.content.cek)
      /\ \A j \in 1 .. (i - 1) : Opens(j) => Yields(j, env.content.cek)
      => signed_content = env.content.plain

(* The plaintext comes out only for the holder of a secret that some       *)
(* recipient info is locked with; with an AEAD cipher nothing else comes   *)
(* out, while CBC may yield garbage.                                       *)
ContentIsEarned ==
  pc = "done" /\ signed_content # None =>
    /\ signed_content = env.content.plain => \E i \in DOMAIN env.ris : Yields(i, env.content.cek)
    /\ env.kind = "AuthEnveloped" => signed_content = env.content.plain /\ env.content.intact

(* A content that is handed out comes with a failure for every recipient   *)
(* info and envelope that is not of its version, and for every weakness of *)
(* the algorithms that led to it, by the first recipient info that opens,  *)
(* and with no others.                                                     *)
WarningsAreComplete ==
  pc = "done" /\ signed_content # None =>
    \E used \in DOMAIN env.ris :
      /\ Opens(used) /\ \A j \in 1 .. (used - 1) : ~Opens(j)
      /\ failures =
           (IF env.version = ExpectedEnvelopeVersion(env) THEN {} ELSE {<<"CmsVersionMismatch", 0>>})
           \union {<<"CmsVersionMismatch", i>> : i \in MisversionedRecipients(env)}
           \union (IF env.cipher = "3DES" THEN {<<"WeakContentEncryptionAlg", 0>>} ELSE {})
           \union {<<k, used>> : k \in WeakKinds(env.ris[used])}

(* Decryption of what has been called for comes to an end.                 *)
Termination == (pc = "read") ~> (pc = "done")

=============================================================================
