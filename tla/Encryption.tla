------------------------------ MODULE Encryption ------------------------------
(***************************************************************************)
(* encrypt (src/encrypt.rs): an EnvelopedData (AES-256-CBC) or             *)
(* AuthEnvelopedData (AES-256-GCM) for a list of recipient certificates,   *)
(* with one recipient info each.                                           *)
(*                                                                         *)
(* The envelope is in the terms of ContentDecryption, whose comment says   *)
(* how cryptography is abstracted; the ephemeral keys and random values    *)
(* are those of an honest sender.                                          *)
(***************************************************************************)
EXTENDS Integers, Sequences, Functions

CONSTANTS
  None, Garbage,   \* a Garbage certificate is not one that PEM or DER can hold
  Key, KeyType,
  Cert,
  CertKey,         \* the public key of each
  CertIas,         \* its issuer and serial number
  Rank,            \* of the kinds of recipient infos, in a DER SET OF
  FreshCek,        \* the 32 random bytes
  Request          \* what encrypt is called with

VARIABLES
  request,   \* [certs, cipher, pkcs1v15, plaintext]
  e_pc,      \* "idle" | "build" | "sent" | "refused"
  e_next,    \* the certificate to look at
  ris,       \* the recipient infos built so far
  sent       \* the envelope

evars == <<request, e_pc, e_next, ris, sent>>

-----------------------------------------------------------------------------

(* validate_spki: RSA of 2048 to 4096 bits, P-256, P-384, P-521 or X25519  *)
ValidKey(c) == KeyType[CertKey[c]] \in {"RSA", "P256", "P384", "P521", "X25519"}

RecipientAlg(c) ==
  CASE KeyType[CertKey[c]] = "RSA"    -> IF request.pkcs1v15 THEN "PKCS1" ELSE "OAEP"
    [] KeyType[CertKey[c]] = "X25519" -> "hkdf"
    [] OTHER                          -> "std"

LockedFor(c, kind) ==
  [lock |-> [by |-> kind, alg |-> RecipientAlg(c), key |-> CertKey[c]], cek |-> FreshCek]

(* build_ktri, build_kari, build_kari_x25519 *)
RecipientInfo(c) ==
  IF KeyType[CertKey[c]] = "RSA"
  THEN [kind |-> "ktri", version |-> 0, alg |-> RecipientAlg(c), rid |-> CertIas[c],
        locked |-> LockedFor(c, "ktri")]
  ELSE [kind |-> "kari", version |-> 3, alg |-> RecipientAlg(c),
        ephemeral |-> KeyType[CertKey[c]],
        keys |-> <<[rid |-> CertIas[c], locked |-> LockedFor(c, "kari")]>>]

(* Mutant: the version does not look at all the recipient infos.           *)
SealedByFirst(infos) ==
  [kind |-> IF request.cipher = "AES256-GCM" THEN "AuthEnveloped" ELSE "Enveloped",
   version |-> IF request.cipher = "AES256-GCM" \/ infos[1].kind = "ktri" THEN 0 ELSE 2,
   originator |-> "none", unprotectedAttrs |-> FALSE,
   ris |-> infos,
   isData |-> TRUE, cipher |-> request.cipher, hkdf |-> FALSE, paramsOk |-> TRUE,
   content |-> [cek |-> FreshCek, hkdf |-> FALSE, cipher |-> request.cipher,
                plain |-> request.plaintext, intact |-> TRUE]]

Sealed(infos) ==
  [kind |-> IF request.cipher = "AES256-GCM" THEN "AuthEnveloped" ELSE "Enveloped",
   version |-> IF request.cipher = "AES256-GCM" \/ \A i \in DOMAIN infos : infos[i].kind = "ktri"
               THEN 0 ELSE 2,
   originator |-> "none", unprotectedAttrs |-> FALSE,
   ris |-> infos,
   isData |-> TRUE, cipher |-> request.cipher, hkdf |-> FALSE, paramsOk |-> TRUE,
   content |-> [cek |-> FreshCek, hkdf |-> FALSE, cipher |-> request.cipher,
                plain |-> request.plaintext, intact |-> TRUE]]

-----------------------------------------------------------------------------

EncryptInit == request = None /\ e_pc = "idle" /\ e_next = 1 /\ ris = <<>> /\ sent = None

Encrypt(r) ==
  /\ e_pc = "idle"
  /\ request' = r
  /\ e_pc' = IF r.certs = <<>> \/ Garbage \in {r.certs[i] : i \in DOMAIN r.certs}
             THEN "refused" ELSE "build"
  /\ UNCHANGED <<e_next, ris, sent>>

AtCert == e_pc = "build" /\ e_next <= Len(request.certs)
NextCert == request.certs[e_next]

AddRecipient ==
  /\ AtCert /\ ValidKey(NextCert)
  /\ ris' = Append(ris, RecipientInfo(NextCert))
  /\ e_next' = e_next + 1
  /\ UNCHANGED <<request, e_pc, sent>>

(* Mutant: a recipient whose key is not supported is left out.             *)
DropRecipient ==
  /\ AtCert /\ ~ValidKey(NextCert)
  /\ e_next' = e_next + 1
  /\ UNCHANGED <<request, e_pc, ris, sent>>

(* One unsupported recipient refuses the whole message.                    *)
RefuseRecipient ==
  /\ AtCert /\ ~ValidKey(NextCert)
  /\ e_pc' = "refused"
  /\ UNCHANGED <<request, e_next, ris, sent>>

(* SetOfWriter sorts the recipient infos by their encodings.               *)
Seal ==
  /\ e_pc = "build" /\ e_next > Len(request.certs)
  /\ \E p \in Bijection(DOMAIN ris, DOMAIN ris) :
       LET infos == [i \in DOMAIN ris |-> ris[p[i]]] IN
       /\ \A i, j \in DOMAIN infos : i < j => Rank[infos[i].kind] <= Rank[infos[j].kind]
       /\ sent' = Sealed(infos)
  /\ e_pc' = "sent"
  /\ UNCHANGED <<request, e_next, ris>>

EncryptStep == AddRecipient \/ RefuseRecipient \/ Seal

EncryptNext == EncryptStep \/ \E r \in Request : Encrypt(r)

EncryptSpec == EncryptInit /\ [][EncryptNext]_evars /\ WF_evars(EncryptNext)

=============================================================================
