----------------------------- MODULE StapledOcsp -----------------------------
(***************************************************************************)
(* Stapled OCSP responses (src/ocsp.rs, and apply_stapled_ocsp in          *)
(* src/lib.rs): the revocation status that the responses stapled to a      *)
(* SignedData give a verified certificate chain.  Every certificate of the *)
(* chain but the trust anchor is looked up in every staple, in order; the  *)
(* first Revoked ends the search, the first other status is remembered.    *)
(*                                                                         *)
(* Malformed and unsuccessful responses are dropped by                     *)
(* extract_stapled_ocsp and are not among the staples.                     *)
(***************************************************************************)
EXTENDS OcspResponse

CONSTANT Input      \* [chain, staples, now]

Inputs == [chain : Seq(Certificate), staples : Seq(Staple), now : Time]

ASSUME InputAssumption == Input \subseteq Inputs

VARIABLES
  input,
  pc,                 \* "chain" | "done"
  i,                  \* position in the chain, the leaf is 1
  j,                  \* position in the staples
  first_non_revoked,  \* of stapled_status_for
  leaf_status,
  errors              \* positions reported as revoked; any_revoked is errors # {}

vars == <<input, pc, i, j, first_non_revoked, leaf_status, errors>>

-----------------------------------------------------------------------------
(* The search.                                                             *)

chain == input.chain
staples == input.staples
now == input.now

Init ==
  /\ input \in Input
  /\ pc = "chain" /\ i = 1 /\ j = 1
  /\ first_non_revoked = None /\ leaf_status = None /\ errors = {}

Here == StapleStatus(staples[j], chain[i], chain[i + 1], now)

AtStaple == pc = "chain" /\ i < Len(chain) /\ j <= Len(staples)

IgnoreStaple ==
  /\ AtStaple /\ Here = None
  /\ j' = j + 1
  /\ UNCHANGED <<input, pc, i, first_non_revoked, leaf_status, errors>>

(* Mutant: the first status ends the search.                               *)
RememberFirst ==
  /\ AtStaple /\ Here \in {"Good", "Unknown"}
  /\ first_non_revoked' = Here
  /\ j' = Len(staples) + 1
  /\ UNCHANGED <<input, pc, i, leaf_status, errors>>

(* Mutant: Revoked is remembered like any other status.                    *)
RememberAny ==
  /\ AtStaple /\ Here # None
  /\ first_non_revoked' = IF first_non_revoked = None THEN Here ELSE first_non_revoked
  /\ j' = j + 1
  /\ UNCHANGED <<input, pc, i, leaf_status, errors>>

RememberStatus ==
  /\ AtStaple /\ Here \in {"Good", "Unknown"}
  /\ first_non_revoked' = IF first_non_revoked = None THEN Here ELSE first_non_revoked
  /\ j' = j + 1
  /\ UNCHANGED <<input, pc, i, leaf_status, errors>>

(* Mutant: the search starts again for the same certificate.               *)
SameCertificate(status) ==
  /\ leaf_status' = IF i = 1 THEN status ELSE leaf_status
  /\ j' = 1
  /\ first_non_revoked' = None
  /\ UNCHANGED <<input, pc, i>>

(* apply_stapled_ocsp goes on with the next certificate of the chain.      *)
NextCertificate(status) ==
  /\ leaf_status' = IF i = 1 THEN status ELSE leaf_status
  /\ i' = i + 1 /\ j' = 1
  /\ first_non_revoked' = None
  /\ UNCHANGED <<input, pc>>

FindRevoked ==
  /\ AtStaple /\ Here = "Revoked"
  /\ errors' = errors \union {i}
  /\ NextCertificate("Revoked")

EndOfStaples ==
  /\ pc = "chain" /\ i < Len(chain) /\ j > Len(staples)
  /\ NextCertificate(first_non_revoked)
  /\ UNCHANGED errors

EndOfChain ==
  /\ pc = "chain" /\ i >= Len(chain)
  /\ pc' = "done"
  /\ UNCHANGED <<input, i, j, first_non_revoked, leaf_status, errors>>

Next == IgnoreStaple \/ RememberStatus \/ FindRevoked \/ EndOfStaples \/ EndOfChain

Spec == Init /\ [][Next]_vars /\ WF_vars(Next)

(* The revocation_status of the signer.                                    *)
ChainStatus == IF errors # {} THEN "Revoked" ELSE leaf_status

-----------------------------------------------------------------------------
(* Properties                                                              *)

TypeOK ==
  /\ input \in Inputs
  /\ pc \in {"chain", "done"}
  /\ i \in Nat \ {0} /\ j \in 1 .. Len(staples) + 1
  /\ first_non_revoked \in {"Good", "Unknown", None}
  /\ leaf_status \in Status \union {None}
  /\ errors \subseteq 1 .. (Len(chain) - 1)

(* A staple in which someone who may speak for the issuer asserts a status *)
(* of certificate k that is still current: whose key signed it, when, and  *)
(* about which certificate.                                                *)
Asserts(staple, k, status) ==
  \E n \in DOMAIN staple.singles :
    LET s == staple.singles[n] IN
    /\ s.status = status
    /\ s.certId.serial = chain[k].serial /\ s.certId.issuerKey = chain[k + 1].key
    /\ s.thisUpdate <= now
    /\ s.nextUpdate = Absent => now - s.thisUpdate <= MaxAge
    /\ s.nextUpdate # Absent => now <= s.nextUpdate
    /\ \/ staple.signedBy = chain[k + 1].key /\ ValidAt(chain[k + 1], now)
       \/ \E m \in DOMAIN staple.certs :
            /\ staple.signedBy = staple.certs[m].key
            /\ staple.certs[m].signedBy = chain[k + 1].key
            /\ staple.certs[m].ocspSigning
            /\ ValidAt(staple.certs[m], now)

(* No status is taken from a response that nobody entitled to it has       *)
(* signed, that is stale, or that is about another certificate: neither a  *)
(* Good nor a Revoked can be forged, moved to another chain or replayed.   *)
StatusIsAuthentic ==
  pc = "done" =>
    /\ \A k \in errors : \E n \in DOMAIN staples : Asserts(staples[n], k, "Revoked")
    /\ ChainStatus \in {"Good", "Unknown"} =>
         \E n \in DOMAIN staples : Asserts(staples[n], 1, ChainStatus)

(* What the staples say of certificate k, one status for each of them.     *)
Said(k) == {StapleStatus(staples[n], chain[k], chain[k + 1], now) : n \in DOMAIN staples}

(* The order of the staples does not matter for the verdict: a certificate *)
(* is reported as revoked exactly if one of them says so, wherever it is   *)
(* in the chain, and that outweighs every other status; without one the    *)
(* status is the leaf's own, and is given if any staple gives it one.      *)
VerdictIgnoresOrder ==
  pc = "done" =>
    /\ errors = {k \in 1 .. (Len(chain) - 1) : "Revoked" \in Said(k)}
    /\ ChainStatus = "Revoked" <=> errors # {}
    /\ Len(chain) <= 1 => ChainStatus = None
    /\ Len(chain) > 1 /\ errors = {} =>
         /\ ChainStatus = None <=> Said(1) \subseteq {None}
         /\ ChainStatus # None => ChainStatus \in Said(1)

(* The search ends.                                                        *)
Termination == (pc # "done") ~> (pc = "done")

-----------------------------------------------------------------------------
(* What a comment in the code says of the search, and it does not do.      *)

(* Comment in stapled_status_for: "A valid revocation proof always wins,   *)
(* never shadowed by a coexisting fresh Good/Unknown."                     *)
RevocationProof(k) ==
  \E n \in DOMAIN staples :
    LET signer == SignerOf(staples[n], chain[k + 1], now) IN
    /\ signer # None
    /\ \E s \in DOMAIN staples[n].singles :
         /\ CertIdMatches(staples[n].singles[s].certId, chain[k], chain[k + 1])
         /\ Fresh(staples[n].singles[s], now, signer)
         /\ staples[n].singles[s].status = "Revoked"

RevocationAlwaysWins ==
  pc = "done" /\ (\E k \in 1 .. (Len(chain) - 1) : RevocationProof(k))
    => ChainStatus = "Revoked"

=============================================================================
