---------------------------- MODULE SenderDisplay ----------------------------
(***************************************************************************)
(* What the verifier promises about the sender it shows (lib.rs, the       *)
(* comment on SenderResolver): the header From of the message is shown     *)
(* until a valid signer vouches for the From inside the signed content.    *)
(* From then on the inner address is shown, and the inner display name     *)
(* only if one certificate vouches for address and name together.          *)
(*                                                                         *)
(* The promise is a function of WHICH certificates vouched.  It does not   *)
(* mention the order in which the signers were processed, so a machine     *)
(* that implements this module is independent of that order.               *)
(***************************************************************************)
CONSTANTS
  None,       \* an absent header value
  Cert        \* the certificates a SignedData may carry

VARIABLES
  header,     \* [addr, name, date] of the message's own header, as displayed
  claimed,    \* [addr, name, date] found inside the signed content
  addrCerts,  \* certificates carrying the claimed address
  nameCerts,  \* certificates carrying the claimed display name
  endorsers,  \* certificates of the valid signers so far
  shown       \* [addr, name, date] the user sees

vars == <<header, claimed, addrCerts, nameCerts, endorsers, shown>>
inputs == <<header, claimed, addrCerts, nameCerts>>

Nothing == [addr |-> None, name |-> None, date |-> None]

(* The identity a set of endorsing certificates justifies. *)
Justified(E) ==
  IF E \intersect addrCerts \intersect nameCerts # {} THEN claimed
  ELSE IF E \intersect addrCerts # {} THEN [claimed EXCEPT !.name = None]
  ELSE header

Init ==
  /\ addrCerts \subseteq Cert
  /\ nameCerts \subseteq Cert
  /\ endorsers = {}
  /\ shown = Nothing

ReadHeader ==
  /\ endorsers = {}
  /\ shown' = header
  /\ UNCHANGED <<inputs, endorsers>>

Endorse(c) ==
  /\ endorsers' = endorsers \union {c}
  /\ shown' = Justified(endorsers')
  /\ UNCHANGED inputs

Next == ReadHeader \/ \E c \in Cert : Endorse(c)

Spec == Init /\ [][Next]_vars

=============================================================================
