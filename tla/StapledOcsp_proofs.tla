-------------------------- MODULE StapledOcsp_proofs --------------------------
(***************************************************************************)
(* Theorems about StapledOcsp, for chains and staples of any length.       *)
(*                                                                         *)
(*   TypeCorrect       Spec => []TypeOK                                    *)
(*   StatusAuthentic   Spec => []StatusIsAuthentic                         *)
(*   OrderIrrelevant   Spec => []VerdictIgnoresOrder                       *)
(*                                                                         *)
(* The inductive invariant says what the two loops have established so     *)
(* far: which of the certificates already passed are revoked (ChainSoFar), *)
(* what the staples already read say of the current one (StaplesSoFar),    *)
(* and what is known of the leaf (LeafSoFar).  Both properties follow from *)
(* it when the search is done.                                             *)
(***************************************************************************)
EXTENDS StapledOcsp, TLAPS, WellFoundedInduction

-----------------------------------------------------------------------------
(* One staple.                                                             *)

LEMMA NatMinimum ==
  ASSUME NEW T, T \subseteq Nat, T # {}
  PROVE  \E x \in T : \A y \in T : x <= y
<1>. DEFINE R == {ss \in Nat \X Nat : ss[1] < ss[2]}
<1>1. IsWellFoundedOn(R, Nat)
  BY NatLessThanWellFounded DEF OpToRel
<1>2. \E x \in T : \A y \in T : <<y, x>> \notin R
  <2>. HIDE DEF R
  <2>. QED  BY <1>1, WFMin
<1>3. \A x, y \in Nat : <<y, x>> \notin R => x <= y
  OBVIOUS
<1>. QED  BY <1>2, <1>3

(* Whoever verify_ocsp_signature accepts as the signer of a response is    *)
(* the issuer or a responder it has authorized.                            *)
LEMMA SignerIsAuthorized ==
  ASSUME NEW staple \in Staple, NEW issuer \in Certificate, NEW t,
         SignerOf(staple, issuer, t) # None
  PROVE  \/ SignerOf(staple, issuer, t) = issuer /\ IssuerSigned(staple, issuer, t)
         \/ \E m \in DOMAIN staple.certs :
              /\ SignerOf(staple, issuer, t) = staple.certs[m]
              /\ ResponderSigned(staple, staple.certs[m], issuer, t)
<1>. DEFINE able == {k \in DOMAIN staple.certs :
                       ResponderSigned(staple, staple.certs[k], issuer, t)}
            first == CHOOSE k \in able : \A l \in able : k <= l
<1>1. CASE IssuerSigned(staple, issuer, t)
  BY <1>1 DEF SignerOf
<1>2. CASE ~IssuerSigned(staple, issuer, t)
  <2>1. able # {} /\ SignerOf(staple, issuer, t) = staple.certs[first]
    BY <1>2 DEF SignerOf
  <2>2. able \subseteq Nat
    BY DEF Staple
  <2>3. first \in able
    <3>. HIDE DEF able
    <3>. QED  BY <2>1, <2>2, NatMinimum
  <2>. QED  BY <2>1, <2>3
<1>. QED  BY <1>1, <1>2

(* A status comes from a single response about the leaf that is fresh and  *)
(* whose response an authorized signer signed.                             *)
LEMMA StapleStatusSource ==
  ASSUME NEW staple \in Staple, NEW leaf \in Certificate, NEW issuer \in Certificate, NEW t,
         StapleStatus(staple, leaf, issuer, t) # None
  PROVE  \E n \in DOMAIN staple.singles :
           /\ staple.singles[n].status = StapleStatus(staple, leaf, issuer, t)
           /\ CertIdMatches(staple.singles[n].certId, leaf, issuer)
           /\ SignerOf(staple, issuer, t) # None
           /\ Fresh(staple.singles[n], t, SignerOf(staple, issuer, t))
<1>. DEFINE found == FirstSingle(staple, leaf, issuer)
            n == CHOOSE k \in found : TRUE
<1>1. /\ found # {}
      /\ SignerOf(staple, issuer, t) # None
      /\ Fresh(staple.singles[n], t, SignerOf(staple, issuer, t))
      /\ StapleStatus(staple, leaf, issuer, t) = staple.singles[n].status
  BY DEF StapleStatus
<1>2. n \in found
  BY <1>1
<1>3. n \in DOMAIN staple.singles /\ CertIdMatches(staple.singles[n].certId, leaf, issuer)
  BY <1>2 DEF FirstSingle
<1>. QED  BY <1>1, <1>3

LEMMA StapleStatusType ==
  ASSUME NEW staple \in Staple, NEW leaf \in Certificate, NEW issuer \in Certificate, NEW t
  PROVE  StapleStatus(staple, leaf, issuer, t) \in Status \union {None}
<1>1. CASE StapleStatus(staple, leaf, issuer, t) # None
  <2>1. PICK n \in DOMAIN staple.singles :
          staple.singles[n].status = StapleStatus(staple, leaf, issuer, t)
    BY <1>1, StapleStatusSource
  <2>2. staple.singles[n] \in Single
    BY DEF Staple
  <2>3. staple.singles[n].status \in Status
    BY <2>2 DEF Single
  <2>. QED  BY <2>1, <2>3
<1>. QED  BY <1>1

-----------------------------------------------------------------------------
(* What staple n says of certificate k of the chain.                       *)

Say(n, k) == StapleStatus(staples[n], chain[k], chain[k + 1], now)

LEMMA SayFacts ==
  ASSUME input \in Inputs, NEW k \in 1 .. (Len(chain) - 1), NEW n \in DOMAIN staples
  PROVE  /\ Say(n, k) \in Status \union {None}
         /\ Say(n, k) # None => Asserts(staples[n], k, Say(n, k))
<1>1. /\ staples[n] \in Staple
      /\ chain[k] \in Certificate /\ chain[k + 1] \in Certificate
      /\ now \in Time
  BY DEF Inputs, chain, staples, now
<1>2. Say(n, k) \in Status \union {None}
  BY <1>1, StapleStatusType DEF Say
<1>3. ASSUME Say(n, k) # None
      PROVE  Asserts(staples[n], k, Say(n, k))
  <2>. DEFINE signer == SignerOf(staples[n], chain[k + 1], now)
  <2>1. PICK m \in DOMAIN staples[n].singles :
          /\ staples[n].singles[m].status = Say(n, k)
          /\ CertIdMatches(staples[n].singles[m].certId, chain[k], chain[k + 1])
          /\ signer # None
          /\ Fresh(staples[n].singles[m], now, signer)
    BY <1>1, <1>3, StapleStatusSource DEF Say
  <2>. DEFINE s == staples[n].singles[m]
  <2>2. s \in Single
    BY <1>1 DEF Staple
  <2>3. s.certId.serial = chain[k].serial /\ s.certId.issuerKey = chain[k + 1].key
    BY <2>1 DEF CertIdMatches
  <2>4. /\ s.thisUpdate \in Int /\ s.thisUpdate <= now
        /\ s.nextUpdate = Absent => now <= s.thisUpdate + MaxAge
        /\ s.nextUpdate # Absent => now <= s.nextUpdate
    BY <1>1, <2>1, <2>2, ConstantsAssumption DEF Fresh, Single
  <2>5. \/ staples[n].signedBy = chain[k + 1].key /\ ValidAt(chain[k + 1], now)
        \/ \E l \in DOMAIN staples[n].certs :
             /\ staples[n].signedBy = staples[n].certs[l].key
             /\ staples[n].certs[l].signedBy = chain[k + 1].key
             /\ staples[n].certs[l].ocspSigning
             /\ ValidAt(staples[n].certs[l], now)
    BY <1>1, <2>1, SignerIsAuthorized DEF IssuerSigned, ResponderSigned
  <2>6. now \in Int /\ MaxAge \in Int
    BY <1>1, ConstantsAssumption
  <2>7. s.nextUpdate = Absent => now - s.thisUpdate <= MaxAge
    BY <2>4, <2>6
  <2>. HIDE DEF s
  <2>8. s = staples[n].singles[m] /\ s.status = Say(n, k)
    BY <2>1 DEF s
  <2>. QED  BY <2>3, <2>4, <2>5, <2>7, <2>8 DEF Asserts
<1>. QED  BY <1>2, <1>3

-----------------------------------------------------------------------------
(* The inductive invariant.                                                *)

(* Of the certificates already passed exactly the revoked ones are         *)
(* reported; a certificate is passed at most once per chain position.      *)
ChainSoFar ==
  /\ i > 1 => i <= Len(chain)
  /\ pc = "done" => i >= Len(chain)
  /\ i >= Len(chain) => first_non_revoked = None
  /\ errors \subseteq 1 .. (i - 1)
  /\ \A k \in errors : \E n \in DOMAIN staples : Say(n, k) = "Revoked"
  /\ \A k \in 1 .. (i - 1) : \A n \in DOMAIN staples : Say(n, k) = "Revoked" => k \in errors

(* The staples already read do not revoke the current certificate, and the *)
(* status remembered is one of theirs, if they have one.                   *)
StaplesSoFar ==
  i < Len(chain) =>
    /\ \A n \in 1 .. (j - 1) : Say(n, i) # "Revoked"
    /\ first_non_revoked = None => \A n \in 1 .. (j - 1) : Say(n, i) = None
    /\ first_non_revoked # None => \E n \in 1 .. (j - 1) : Say(n, i) = first_non_revoked

(* The leaf's status is one of those the staples give it.                  *)
LeafSoFar ==
  /\ i = 1 => leaf_status = None
  /\ leaf_status = "Revoked" => 1 \in errors
  /\ i > 1 /\ leaf_status = None => \A n \in DOMAIN staples : Say(n, 1) = None
  /\ i > 1 /\ leaf_status # None => \E n \in DOMAIN staples : Say(n, 1) = leaf_status

SearchInv == TypeOK /\ ChainSoFar /\ StaplesSoFar /\ LeafSoFar

LEMMA InputFacts ==
  ASSUME input \in Inputs
  PROVE  /\ Len(chain) \in Nat /\ Len(staples) \in Nat
         /\ DOMAIN staples = 1 .. Len(staples)
BY DEF Inputs, chain, staples

LEMMA SearchInit ==
  Init => SearchInv
<1>. SUFFICES ASSUME Init PROVE SearchInv
  OBVIOUS
<1>1. input \in Inputs
  BY InputAssumption DEF Init
<1>2. TypeOK
  BY <1>1, InputFacts DEF Init, TypeOK
<1>3. ChainSoFar /\ StaplesSoFar /\ LeafSoFar
  BY <1>1, InputFacts, ConstantsAssumption DEF Init, ChainSoFar, StaplesSoFar, LeafSoFar, Status
<1>. QED  BY <1>2, <1>3 DEF SearchInv

(* Every step reads the same input.                                        *)
LEMMA SayUnchanged ==
  ASSUME input' = input
  PROVE  /\ chain' = chain /\ staples' = staples /\ now' = now
         /\ \A n, k : Say(n, k)' = Say(n, k)
BY DEF chain, staples, now, Say

(* The step to the next certificate, for a status that one of the staples  *)
(* gives the current one, or None if they give it none.                    *)
LEMMA NextCertificateKeeps ==
  ASSUME SearchInv, i < Len(chain), pc = "chain",
         NEW status \in Status \union {None},
         NextCertificate(status),
         errors' = IF status = "Revoked" THEN errors \union {i} ELSE errors,
         status = None => \A n \in DOMAIN staples : Say(n, i) = None,
         status # None => \E n \in DOMAIN staples : Say(n, i) = status,
         status # "Revoked" => \A n \in DOMAIN staples : Say(n, i) # "Revoked"
  PROVE  SearchInv'
<1>. USE ConstantsAssumption
<1>1. /\ input' = input /\ pc' = pc /\ i' = i + 1 /\ j' = 1 /\ first_non_revoked' = None
      /\ leaf_status' = IF i = 1 THEN status ELSE leaf_status
  BY DEF NextCertificate
<1>2. /\ input \in Inputs /\ i \in Nat \ {0} /\ leaf_status \in Status \union {None}
      /\ errors \subseteq 1 .. (Len(chain) - 1)
      /\ errors \subseteq 1 .. (i - 1)
  BY DEF SearchInv, TypeOK, ChainSoFar
<1>3. /\ Len(chain) \in Nat /\ Len(staples) \in Nat
      /\ DOMAIN staples = 1 .. Len(staples)
  BY <1>2, InputFacts
<1>4. /\ chain' = chain /\ staples' = staples
      /\ \A n, k : Say(n, k)' = Say(n, k)
  BY <1>1, SayUnchanged
<1>5. TypeOK'
  <2>1. i \in 1 .. (Len(chain) - 1)
    BY <1>2, <1>3
  <2>2. errors' \subseteq 1 .. (Len(chain) - 1)
    BY <1>2, <2>1
  <2>3. leaf_status' \in Status \union {None}
    BY <1>1, <1>2
  <2>. QED  BY <1>1, <1>2, <1>3, <1>4, <2>2, <2>3 DEF SearchInv, TypeOK
<1>6. ChainSoFar'
  <2>1. errors' \subseteq 1 .. (i' - 1)
    BY <1>1, <1>2
  <2>2. ASSUME NEW k \in errors'
        PROVE  \E n \in DOMAIN staples : Say(n, k) = "Revoked"
    <3>1. CASE k \in errors
      BY <3>1 DEF SearchInv, ChainSoFar
    <3>2. CASE k \notin errors
      <4>1. k = i /\ status = "Revoked"
        BY <2>2, <3>2
      <4>2. status # None
        BY <4>1 DEF Status
      <4>. QED  BY <4>1, <4>2
    <3>. QED  BY <3>1, <3>2
  <2>3. ASSUME NEW k \in 1 .. (i' - 1), NEW n \in DOMAIN staples, Say(n, k) = "Revoked"
        PROVE  k \in errors'
    <3>1. CASE k = i
      BY <2>3, <3>1 DEF Status
    <3>2. CASE k # i
      <4>1. k \in 1 .. (i - 1)
        BY <1>1, <1>2, <3>2
      <4>2. k \in errors
        BY <2>3, <4>1 DEF SearchInv, ChainSoFar
      <4>. QED  BY <4>2
    <3>. QED  BY <3>1, <3>2
  <2>. QED  BY <1>1, <1>2, <1>3, <1>4, <2>1, <2>2, <2>3 DEF ChainSoFar
<1>7. StaplesSoFar'
  BY <1>1, <1>4 DEF StaplesSoFar
<1>8. LeafSoFar'
  <2>1. CASE i = 1
    <3>1. leaf_status' = status /\ i' = 2
      BY <1>1, <2>1
    <3>. QED  BY <1>4, <2>1, <3>1 DEF LeafSoFar
  <2>2. CASE i # 1
    <3>1. leaf_status' = leaf_status /\ i > 1 /\ i' > 1
      BY <1>1, <1>2, <2>2
    <3>2. errors \subseteq errors'
      OBVIOUS
    <3>. QED  BY <1>1, <1>4, <2>2, <3>1, <3>2 DEF SearchInv, LeafSoFar
  <2>. QED  BY <2>1, <2>2
<1>. QED  BY <1>5, <1>6, <1>7, <1>8 DEF SearchInv

(* A staple that does not revoke the current certificate is passed.        *)
LEMMA NextStapleKeeps ==
  ASSUME SearchInv, AtStaple,
         j' = j + 1, UNCHANGED <<input, pc, i, leaf_status, errors>>,
         Say(j, i) # "Revoked",
         first_non_revoked' =
           IF first_non_revoked = None THEN Say(j, i) ELSE first_non_revoked
  PROVE  SearchInv'
<1>1. /\ input \in Inputs /\ i \in Nat \ {0} /\ i < Len(chain)
      /\ j \in 1 .. Len(staples)
      /\ first_non_revoked \in {"Good", "Unknown", None}
  BY InputFacts DEF SearchInv, TypeOK, AtStaple
<1>2. /\ Len(chain) \in Nat /\ Len(staples) \in Nat
      /\ DOMAIN staples = 1 .. Len(staples)
  BY <1>1, InputFacts
<1>3. /\ chain' = chain /\ staples' = staples
      /\ \A n, k : Say(n, k)' = Say(n, k)
  BY SayUnchanged
<1>4. Say(j, i) \in {"Good", "Unknown", None}
  BY <1>1, <1>2, SayFacts DEF Status
<1>5. TypeOK'
  BY <1>1, <1>2, <1>3, <1>4 DEF SearchInv, TypeOK
<1>6. ChainSoFar'
  BY <1>1, <1>2, <1>3 DEF SearchInv, ChainSoFar
<1>7. StaplesSoFar'
  <2>1. \A n \in 1 .. (j' - 1) : n \in 1 .. (j - 1) \/ n = j
    BY <1>1
  <2>2. 1 .. (j - 1) \subseteq 1 .. (j' - 1) /\ j \in 1 .. (j' - 1)
    BY <1>1
  <2>3. CASE first_non_revoked = None
    BY <1>1, <1>3, <2>1, <2>2, <2>3 DEF SearchInv, StaplesSoFar
  <2>4. CASE first_non_revoked # None
    BY <1>1, <1>3, <2>1, <2>2, <2>4 DEF SearchInv, StaplesSoFar
  <2>. QED  BY <2>3, <2>4
<1>8. LeafSoFar'
  BY <1>1, <1>2, <1>3 DEF SearchInv, LeafSoFar
<1>. QED  BY <1>5, <1>6, <1>7, <1>8 DEF SearchInv

LEMMA SearchNext ==
  SearchInv /\ [Next]_vars => SearchInv'
<1>. SUFFICES ASSUME SearchInv, [Next]_vars PROVE SearchInv'
  OBVIOUS
<1>1. Here = Say(j, i)
  BY DEF Here, Say
<1>2. CASE IgnoreStaple
  <2>1. Say(j, i) = None /\ AtStaple
    BY <1>1, <1>2 DEF IgnoreStaple
  <2>2. Say(j, i) # "Revoked"
    BY <2>1, ConstantsAssumption DEF Status
  <2>. QED  BY <1>2, <2>1, <2>2, NextStapleKeeps DEF IgnoreStaple
<1>3. CASE RememberStatus
  BY <1>1, <1>3, NextStapleKeeps DEF RememberStatus
<1>4. CASE FindRevoked
  <2>1. pc = "chain" /\ i < Len(chain) /\ j \in DOMAIN staples
    BY <1>4, InputFacts DEF FindRevoked, AtStaple, SearchInv, TypeOK
  <2>2. Say(j, i) = "Revoked" /\ NextCertificate("Revoked") /\ errors' = errors \union {i}
    BY <1>1, <1>4 DEF FindRevoked
  <2>3. "Revoked" \in Status /\ "Revoked" # None
    BY ConstantsAssumption DEF Status
  <2>. QED  BY <2>1, <2>2, <2>3, NextCertificateKeeps
<1>5. CASE EndOfStaples
  <2>1. /\ pc = "chain" /\ i < Len(chain) /\ j > Len(staples)
        /\ NextCertificate(first_non_revoked) /\ errors' = errors
    BY <1>5 DEF EndOfStaples
  <2>2. DOMAIN staples = 1 .. (j - 1)
    BY <2>1, InputFacts DEF SearchInv, TypeOK
  <2>3. first_non_revoked \in Status \union {None} /\ first_non_revoked # "Revoked"
    BY ConstantsAssumption DEF SearchInv, TypeOK, Status
  <2>4. /\ \A n \in DOMAIN staples : Say(n, i) # "Revoked"
        /\ first_non_revoked = None => \A n \in DOMAIN staples : Say(n, i) = None
        /\ first_non_revoked # None =>
             \E n \in DOMAIN staples : Say(n, i) = first_non_revoked
    BY <2>1, <2>2 DEF SearchInv, StaplesSoFar
  <2>. QED  BY <2>1, <2>3, <2>4, NextCertificateKeeps
<1>6. CASE EndOfChain
  <2>1. /\ i >= Len(chain) /\ pc' = "done"
        /\ UNCHANGED <<input, i, j, first_non_revoked, leaf_status, errors>>
    BY <1>6 DEF EndOfChain
  <2>2. chain' = chain /\ staples' = staples /\ \A n, k : Say(n, k)' = Say(n, k)
    BY <2>1, SayUnchanged
  <2>. QED  BY <2>1, <2>2 DEF SearchInv, TypeOK, ChainSoFar, StaplesSoFar, LeafSoFar
<1>7. CASE UNCHANGED vars
  <2>1. chain' = chain /\ staples' = staples /\ \A n, k : Say(n, k)' = Say(n, k)
    BY <1>7, SayUnchanged DEF vars
  <2>. QED  BY <1>7, <2>1 DEF vars, SearchInv, TypeOK, ChainSoFar, StaplesSoFar, LeafSoFar
<1>. QED  BY <1>2, <1>3, <1>4, <1>5, <1>6, <1>7 DEF Next

-----------------------------------------------------------------------------
(* The theorems.                                                           *)

LEMMA SearchInvariant == Spec => []SearchInv
  BY SearchInit, SearchNext, PTL DEF Spec

(* The type invariant of the search for stapled statuses                   *)
(* (apply_stapled_ocsp and stapled_status_for).                            *)
THEOREM TypeCorrect == Spec => []TypeOK
<1>1. SearchInv => TypeOK
  BY DEF SearchInv
<1>. QED  BY <1>1, SearchInvariant, PTL

(* Neither a revocation nor the status of the leaf that apply_stapled_ocsp *)
(* returns comes from a response that its signer was not entitled to give, *)
(* that is stale, or that is about another certificate.                    *)
THEOREM StatusAuthentic == Spec => []StatusIsAuthentic
<1>1. SearchInv => StatusIsAuthentic
  <2>. SUFFICES ASSUME SearchInv, pc = "done" PROVE StatusIsAuthentic
    BY DEF StatusIsAuthentic
  <2>1. /\ input \in Inputs /\ errors \subseteq 1 .. (Len(chain) - 1)
        /\ Len(chain) \in Nat /\ i \in Nat \ {0}
    BY InputFacts DEF SearchInv, TypeOK
  <2>2. "Revoked" # None /\ "Good" # None /\ "Unknown" # None
    BY ConstantsAssumption DEF Status
  <2>3. ASSUME NEW k \in errors
        PROVE  \E n \in DOMAIN staples : Asserts(staples[n], k, "Revoked")
    <3>1. PICK n \in DOMAIN staples : Say(n, k) = "Revoked"
      BY DEF SearchInv, ChainSoFar
    <3>. QED  BY <2>1, <2>2, <2>3, <3>1, SayFacts
  <2>4. ASSUME ChainStatus \in {"Good", "Unknown"}
        PROVE  \E n \in DOMAIN staples : Asserts(staples[n], 1, ChainStatus)
    <3>1. ChainStatus = leaf_status /\ leaf_status # None
      BY <2>2, <2>4 DEF ChainStatus
    <3>2. i > 1
      BY <2>1, <3>1 DEF SearchInv, LeafSoFar
    <3>3. 1 \in 1 .. (Len(chain) - 1)
      BY <2>1, <3>2 DEF SearchInv, ChainSoFar
    <3>4. PICK n \in DOMAIN staples : Say(n, 1) = leaf_status
      BY <3>1, <3>2 DEF SearchInv, LeafSoFar
    <3>. QED  BY <2>1, <3>1, <3>3, <3>4, SayFacts
  <2>. QED  BY <2>3, <2>4 DEF StatusIsAuthentic
<1>. QED  BY <1>1, SearchInvariant, PTL

(* The staples reach apply_stapled_ocsp in the order of an ASN.1 SET: the  *)
(* certificates reported as revoked, and the status of a chain that is     *)
(* not, are the same for every order, up to a choice between Good and      *)
(* Unknown where the staples disagree.                                     *)
THEOREM OrderIrrelevant == Spec => []VerdictIgnoresOrder
<1>1. SearchInv => VerdictIgnoresOrder
  <2>. SUFFICES ASSUME SearchInv, pc = "done" PROVE VerdictIgnoresOrder
    BY DEF VerdictIgnoresOrder
  <2>1. /\ errors \subseteq 1 .. (Len(chain) - 1)
        /\ Len(chain) \in Nat /\ i \in Nat \ {0} /\ i >= Len(chain)
    BY InputFacts DEF SearchInv, TypeOK, ChainSoFar
  <2>2. \A k, s : s \in Said(k) <=> \E n \in DOMAIN staples : Say(n, k) = s
    BY DEF Said, Say
  <2>3. errors = {k \in 1 .. (Len(chain) - 1) : "Revoked" \in Said(k)}
    <3>1. \A k \in 1 .. (Len(chain) - 1) : k \in 1 .. (i - 1)
      BY <2>1
    <3>. QED  BY <2>1, <2>2, <3>1 DEF SearchInv, ChainSoFar
  <2>4. "Revoked" # None
    BY ConstantsAssumption DEF Status
  <2>5. ChainStatus = "Revoked" <=> errors # {}
    BY <2>4 DEF ChainStatus, SearchInv, LeafSoFar
  <2>6. ASSUME Len(chain) <= 1
        PROVE  ChainStatus = None
    <3>1. errors = {}
      BY <2>1, <2>6
    <3>2. i = 1
      BY <2>1, <2>6 DEF SearchInv, ChainSoFar
    <3>. QED  BY <3>1, <3>2 DEF ChainStatus, SearchInv, LeafSoFar
  <2>7. ASSUME Len(chain) > 1, errors = {}
        PROVE  /\ ChainStatus = None <=> Said(1) \subseteq {None}
               /\ ChainStatus # None => ChainStatus \in Said(1)
    <3>1. i > 1 /\ ChainStatus = leaf_status
      BY <2>1, <2>7 DEF ChainStatus
    <3>. QED  BY <2>2, <3>1 DEF SearchInv, LeafSoFar
  <2>. QED  BY <2>3, <2>5, <2>6, <2>7 DEF VerdictIgnoresOrder
<1>. QED  BY <1>1, SearchInvariant, PTL

===============================================================================
