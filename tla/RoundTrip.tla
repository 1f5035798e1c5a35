------------------------------ MODULE RoundTrip ------------------------------
(***************************************************************************)
(* Encryption and ContentDecryption together: a message that encrypt made  *)
(* is decrypted by somebody, a recipient or not; or a message from         *)
(* elsewhere is.                                                           *)
(***************************************************************************)
EXTENDS ContentDecryption

CONSTANTS CertKey, CertIas, FreshCek, Request

VARIABLES request, e_pc, e_next, ris, sent

E == INSTANCE Encryption

senderVars == <<request, e_pc, e_next, ris, sent>>
allVars == <<vars, senderVars>>

Requests ==
  [certs : Seq(Cert \union {Garbage}), cipher : {"AES256-CBC", "AES256-GCM"},
   pkcs1v15 : BOOLEAN, plaintext : Plain]

ASSUME SenderAssumption ==
  /\ Request \subseteq Requests
  /\ CertKey \in [Cert -> Key]
  /\ CertIas \in [Cert -> RecipientId]
  /\ FreshCek \in Cek /\ CekLen[FreshCek] = 32
  /\ \A c \in Cert : CertIas[c] \in CertIds[c] /\ IdBy[CertIas[c]] = "ias"
  /\ \A c, d \in Cert : CertIas[c] \in CertIds[d] => c = d

RoundTripInit == Init /\ E!EncryptInit

Send ==
  /\ pc = "idle"
  /\ \E r \in Request : E!Encrypt(r)
  /\ UNCHANGED vars

EncryptOn == E!EncryptStep /\ UNCHANGED vars

(* Anybody may get hold of the message, with any keys.                     *)
Deliver ==
  /\ e_pc = "sent" /\ pc = "idle"
  /\ \E k \in KeyRing : Decrypt(sent, k)
  /\ UNCHANGED senderVars

Receive == e_pc = "idle" /\ Call /\ UNCHANGED senderVars

DecryptOn == Step /\ UNCHANGED senderVars

RoundTripNext == Send \/ EncryptOn \/ Deliver \/ Receive \/ DecryptOn

RoundTripSpec == RoundTripInit /\ [][RoundTripNext]_allVars /\ WF_allVars(RoundTripNext)

-----------------------------------------------------------------------------
(* Properties                                                              *)

Delivered == pc = "done" /\ e_pc = "sent"
Recipients == {request.certs[i] : i \in DOMAIN request.certs}

(* Every one of the recipients, with the certificate and its key, reads    *)
(* the plaintext and sees no failure: whatever the keys of the others, and *)
(* wherever in the sorted set their recipient info ended up.               *)
RecipientsRead ==
  Delivered /\ keys.cert \in Recipients /\ keys.private = CertKey[keys.cert] =>
    signed_content = request.plaintext /\ failures = {}

=============================================================================
