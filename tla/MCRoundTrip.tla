----------------------------- MODULE MCRoundTrip -----------------------------
(***************************************************************************)
(* RoundTrip for TLC: six recipients with keys of every type, messages to  *)
(* up to three of them, and foreign messages with everything that can be   *)
(* wrong with one recipient info, with the envelope, and with a second     *)
(* recipient info in front.                                                *)
(***************************************************************************)
EXTENDS RoundTrip, FiniteSets

CONSTANTS
  r, s, w, p, x, v,         \* keys
  cr, cs, cw, cp, cx, cv,   \* the certificates for them
  pw, kek, wrong,           \* secrets
  fresh, short, other, odd, \* CEKs of 32, 16, 32 and 40 bytes
  text

MCKey == {r, s, w, p, x, v}
MCKeyType ==
  [k \in MCKey |-> CASE k \in {r, s} -> "RSA" [] k = w -> "RSA1024" [] k = p -> "P256"
                     [] k = x -> "X25519" [] k = v -> "X448"]
MCCert == {cr, cs, cw, cp, cx, cv}
MCCertKey ==
  [c \in MCCert |-> CASE c = cr -> r [] c = cs -> s [] c = cw -> w [] c = cp -> p
                      [] c = cx -> x [] c = cv -> v]
MCRecipientId == [by : {"ias", "ski"}, of : MCCert]
MCIdBy == [id \in MCRecipientId |-> id.by]
MCCertIds == [c \in MCCert |-> {id \in MCRecipientId : id.of = c}]
MCCertIas == [c \in MCCert |-> [by |-> "ias", of |-> c]]
MCCek == {fresh, short, other, odd}
MCCekLen == [k \in MCCek |-> CASE k \in {fresh, other} -> 32 [] k = short -> 16 [] k = odd -> 40]

NoKeys == [private |-> None, cert |-> None, password |-> None, kek |-> None]
Holder(c) == [NoKeys EXCEPT !.cert = c, !.private = MCCertKey[c]]
MCKeyRing ==
  {Holder(c) : c \in MCCert}
    \union {NoKeys, [NoKeys EXCEPT !.cert = Garbage], [Holder(cr) EXCEPT !.private = s],
            [Holder(cr) EXCEPT !.private = None], [Holder(cp) EXCEPT !.private = r],
            [NoKeys EXCEPT !.password = pw], [Holder(cr) EXCEPT !.password = wrong, !.kek = kek]}

-----------------------------------------------------------------------------
(* What is sent.                                                           *)

CertLists ==
  {<<>>, <<cr, Garbage>>, <<cs, cw>>, <<cw, cs>>, <<cp, cv, cr>>, <<cr, cp, cs>>, <<cx, cs, cp>>,
   <<cr, cs, cr>>, <<cp, cx, cp>>}
    \union {<<c>> : c \in {cr, cp, cx}} \union {<<c, d>> : c, d \in {cr, cs, cp, cx}}

MCRequest ==
  [certs : CertLists, cipher : {"AES256-CBC", "AES256-GCM"}, pkcs1v15 : BOOLEAN,
   plaintext : {text}]

-----------------------------------------------------------------------------
(* Messages from elsewhere.                                                *)

Lk(by, alg, key, k) == [lock |-> [by |-> by, alg |-> alg, key |-> key], cek |-> k]
AKtri(c, by, alg, version, k) ==
  [kind |-> "ktri", version |-> version, alg |-> alg, rid |-> [by |-> by, of |-> c],
   locked |-> Lk("ktri", alg, MCCertKey[c], k)]
AKari(c, by, alg, eph, version, k) ==
  [kind |-> "kari", version |-> version, alg |-> alg, ephemeral |-> eph,
   keys |-> <<[rid |-> [by |-> by, of |-> c], locked |-> Lk("kari", alg, MCCertKey[c], k)]>>]
(* One ephemeral key for two recipients, the second by its key identifier. *)
SharedKari(c, k) ==
  [AKari(c, "ias", "std", "P256", 3, k) EXCEPT
     !.keys = <<[rid |-> [by |-> "ias", of |-> cs], locked |-> Lk("kari", "std", p, k)],
                [rid |-> [by |-> "ski", of |-> c], locked |-> Lk("kari", "std", s, k)],
                [rid |-> [by |-> "ski", of |-> c], locked |-> Lk("kari", "std", p, k)]>>]
AKekri(alg, version, k) ==
  [kind |-> "kekri", version |-> version, alg |-> alg, locked |-> Lk("kekri", alg, kek, k)]
APwri(alg, low, version, k) ==
  [kind |-> "pwri", version |-> version, alg |-> alg, low |-> low,
   locked |-> Lk("pwri", alg, pw, k)]

RecipientInfos(k) ==
  {AKtri(cr, by, alg, version, k) : by \in {"ias", "ski"}, alg \in KtriAlgs, version \in {0, 2}}
    \union {AKtri(cs, "ias", "OAEP", 0, k), SharedKari(cp, k), [kind |-> "ori"]}
    \union {AKari(cp, "ias", alg, eph, 3, k) : alg \in KariAlgs, eph \in {"P256", "P384", None}}
    \union {AKari(cx, "ias", alg, "X25519", 3, k) : alg \in KariAlgs}
    \union {AKari(cp, "ski", "std", "P256", 2, k), AKari(cv, "ias", "hkdf", "X448", 3, k)}
    \union {AKekri(alg, version, k) : alg \in KekriAlgs, version \in {0, 4}}
    \union {APwri(alg, low, version, k) : alg \in PwriAlgs, low \in BOOLEAN, version \in {0, 3}}

FewInfos ==
  {AKtri(cr, "ias", "OAEP-SHA1", 0, fresh), AKtri(cr, "ias", "other", 2, fresh),
   AKtri(cr, "ski", "OAEP", 2, other), AKtri(cs, "ias", "OAEP", 0, fresh),
   AKari(cp, "ias", "std-sha1", "P256", 3, fresh), AKari(cx, "ias", "hkdf", "X25519", 2, short),
   SharedKari(cp, fresh), AKekri("AES", 4, fresh), APwri("PBKDF2-SHA1", TRUE, 0, fresh),
   APwri("PBKDF2", FALSE, 0, other), [kind |-> "ori"]}

Envel(kind, version, cipher, infos, k) ==
  [kind |-> kind, version |-> version, originator |-> "none", unprotectedAttrs |-> FALSE,
   ris |-> infos, isData |-> TRUE, cipher |-> cipher, hkdf |-> FALSE, paramsOk |-> TRUE,
   content |-> [cek |-> k, hkdf |-> FALSE, cipher |-> cipher, plain |-> text, intact |-> TRUE]]

OneInfo ==
  {Envel("Enveloped", version, "AES256-CBC", <<i>>, fresh) :
     version \in {0, 2}, i \in RecipientInfos(fresh)}

SortedLists == {l \in FewInfos \X FewInfos : Sorted(l)}
TwoInfos ==
  {Envel("AuthEnveloped", 0, "AES256-GCM", <<l[1], l[2]>>, fresh) : l \in SortedLists}
    \union {Envel("Enveloped", 2, "AES256-CBC", <<l[1], l[2]>>, fresh) : l \in SortedLists}

(* Everything that can be wrong around the key.                            *)
Base == Envel("Enveloped", 0, "AES256-CBC", <<AKtri(cr, "ias", "PKCS1", 0, fresh)>>, fresh)
Ciphered(kind, cipher, k, k2) ==
  [Base EXCEPT !.kind = kind, !.cipher = cipher, !.ris[1].locked.cek = k,
               !.content.cipher = cipher, !.content.cek = k2]
Contents ==
  {Ciphered(kind, cipher, k, k2) : kind \in {"Enveloped", "AuthEnveloped"},
                                   cipher \in Ciphers, k, k2 \in {fresh, short}}
    \union UNION {{[e EXCEPT !.hkdf = TRUE, !.content.hkdf = TRUE], [e EXCEPT !.hkdf = TRUE],
                   [e EXCEPT !.paramsOk = FALSE], [e EXCEPT !.content.intact = FALSE],
                   [e EXCEPT !.content.cipher = "other"]} :
                    e \in {Ciphered("Enveloped", "AES256-CBC", fresh, fresh),
                           Ciphered("Enveloped", "AES128-CBC", short, short),
                           Ciphered("AuthEnveloped", "AES256-GCM", fresh, fresh),
                           Ciphered("AuthEnveloped", "AES256-CCM", fresh, fresh)}}
    \union {[Base EXCEPT !.ris[1].locked.cek = odd, !.content.cek = odd],
            [Base EXCEPT !.isData = FALSE], [Base EXCEPT !.content = None],
            [Base EXCEPT !.ris = <<>>]}
Headers ==
  {[Base EXCEPT !.version = version, !.originator = originator, !.unprotectedAttrs = attrs] :
     version \in {0, 2, 3, 4}, originator \in {"none", "plain", "v2attr", "other"},
     attrs \in BOOLEAN}

MCEnvelope == OneInfo \union TwoInfos \union Contents \union Headers

=============================================================================
