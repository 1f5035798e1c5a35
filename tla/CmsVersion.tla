----------------------------- MODULE CmsVersion -----------------------------
(***************************************************************************)
(* The version RFC 5652, 5.1 prescribes for a SignedData, as the verifier  *)
(* computes it (src/lib.rs).  What writes messages and what reads them are *)
(* held to this one definition.                                            *)
(***************************************************************************)

(* validate_signed_data_version.  `features` names the unusual kinds of    *)
(* certificates, of revocation information and of content the message has; *)
(* keyIdentified says whether a signer is named by its key identifier.     *)
SignedDataVersion(features, keyIdentified) ==
  IF features \intersect {"OtherCertificate", "OtherCrl"} # {} THEN 5
  ELSE IF "V2AttrCert" \in features THEN 4
  ELSE IF features \intersect {"V1AttrCert", "OtherContent"} # {} \/ keyIdentified THEN 3
  ELSE 1

=============================================================================
