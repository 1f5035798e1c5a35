----------------------------- MODULE BerEncodings -----------------------------
(***************************************************************************)
(* What BerToDer is for: somebody writes a value in BER, with a form of    *)
(* length for each element, its sets in any order and its strings in any   *)
(* segments; the message is converted; and the converted message is        *)
(* converted again, as happens to the output of modify-cms ber-to-der.     *)
(*                                                                         *)
(* A value as it is written is a tree of nodes.  DerOf is the one encoding *)
(* X.690 gives it in DER, defined on trees and without recourse to the     *)
(* code.                                                                   *)
(***************************************************************************)
EXTENDS BerToDer

CONSTANTS
  Tree,      \* what is written
  Broken     \* octet strings that encode nothing

(* kind: what the element is by its type, whatever its tag: a primitive,   *)
(* whose parts are octets, a "seq" or "set" of nodes, or a "string" in     *)
(* segments.  form: how its length is written.                             *)
Forms == {"short", "long", "indefinite"}
IsNode(t) ==
  /\ DOMAIN t = {"tag", "kind", "form", "parts"}
  /\ t.kind \in {"prim", "seq", "set", "string"} /\ t.form \in Forms
  /\ t.tag # <<>> /\ (IsConstructed(t.tag[1]) <=> t.kind # "prim")
  /\ t.form = "indefinite" => t.kind # "prim"

ASSUME TreeAssumption == \A t \in Tree : IsNode(t)

VARIABLES
  tree,    \* what was written, None for something broken
  round    \* how many conversions were asked for

allVars == <<vars, tree, round>>

-----------------------------------------------------------------------------
(* Encodings.                                                              *)

(* What `enc` makes of each node, in a row or end to end.                  *)
Each(enc(_), nodes) == FoldLeft(LAMBDA acc, t : Append(acc, enc(t)), <<>>, nodes)
Joined(enc(_), nodes) == FoldLeft(LAMBDA acc, t : acc \o enc(t), <<>>, nodes)

RECURSIVE BerOf(_)
BerOf(t) ==
  LET content == IF t.kind = "prim" THEN t.parts ELSE Joined(BerOf, t.parts)
      n == Len(content)
  IN t.tag \o
     CASE t.form = "short"      -> DerLength(n) \o content
       [] t.form = "long"       -> <<131, 0, n \div 256, n % 256>> \o content
       [] t.form = "indefinite" -> <<128>> \o content \o <<0, 0>>

(* The sequence with the elements of s in ascending order.                 *)
Ascending(s) ==
  LET Orders == {p \in [DOMAIN s -> DOMAIN s] : \A i, j \in DOMAIN s : i # j => p[i] # p[j]}
      order == CHOOSE p \in Orders :
                 \A i \in 1 .. Len(s) - 1 : ~OctetsBefore(s[p[i + 1]], s[p[i]])
  IN [i \in DOMAIN s |-> s[order[i]]]

(* The octets a string stands for; for a bit string the unused bits first. *)
RECURSIVE StringValue(_)
StringValue(t) ==
  IF t.kind = "prim" THEN t.parts
  ELSE IF t.tag # <<32 + BitString>> THEN Joined(StringValue, t.parts)
  ELSE IF t.parts = <<>> THEN <<0>>
  ELSE <<StringValue(Last(t.parts))[1]>> \o Joined(LAMBDA p : Tail(StringValue(p)), t.parts)

RECURSIVE DerOf(_)
DerOf(t) ==
  LET content ==
        CASE t.kind = "prim"   -> t.parts
          [] t.kind = "string" -> StringValue(t)
          [] t.kind = "seq"    -> Joined(DerOf, t.parts)
          [] t.kind = "set"    -> FlattenSeq(Ascending(Each(DerOf, t.parts)))
  IN Der(IF t.kind = "string" THEN [t.tag EXCEPT ![1] = @ - 32] ELSE t.tag, content)

(* How many elements there are around the innermost one.                   *)
RECURSIVE Nesting(_)
Nesting(t) ==
  IF t.kind = "prim" \/ t.parts = <<>> THEN 0
  ELSE 1 + Max({Nesting(t.parts[i]) : i \in DOMAIN t.parts})

-----------------------------------------------------------------------------
(* The machine.                                                            *)

EncodingsInit == Init /\ tree = None /\ round = 0

Write ==
  /\ pc = "idle"
  /\ \E t \in Tree : tree' = t /\ Convert(BerOf(t))
  /\ round' = 1

Spoil ==
  /\ pc = "idle"
  /\ \E octets \in Broken : Convert(octets)
  /\ round' = 1
  /\ UNCHANGED tree

ConvertOn == Step /\ UNCHANGED <<tree, round>>

ConvertAgain ==
  /\ pc = "done" /\ round = 1
  /\ Convert(out)
  /\ round' = 2
  /\ UNCHANGED tree

(* The command is over; a parse that had no next step would be a deadlock. *)
Over ==
  /\ pc = "error" \/ (pc = "done" /\ round = 2)
  /\ UNCHANGED allVars

EncodingsNext == Write \/ Spoil \/ ConvertOn \/ ConvertAgain \/ Over

EncodingsSpec == EncodingsInit /\ [][EncodingsNext]_allVars

-----------------------------------------------------------------------------
(* Properties                                                              *)

(* However a message was written, what comes out is the DER of its value:  *)
(* two writings of one value end as the same octets, which is what makes a *)
(* signature over signedAttrs verify, and nothing of the value is lost.    *)
OutputIsTheDerOfTheValue == pc = "done" /\ tree # None => out = DerOf(tree)

(* The tests of modify-cms, "output should already be DER (idempotent)":   *)
(* converting what was converted is possible and changes nothing.          *)
ConversionIsIdempotent ==
  round = 2 => pc # "error" /\ (pc = "done" => out = input)

(* What comes out is the one DER encoding of the value, and recognised as  *)
(* such.                                                                   *)
OutputIsCanonical == OutputIsTheDerOfTheValue /\ ConversionIsIdempotent

(* A message is refused if and only if it is not the encoding of anything  *)
(* or nested deeper than MAX_BER_DEPTH: every truncation, superfluous      *)
(* octet, length beyond the end or beyond usize, and every segment of a    *)
(* string that does not belong there is noticed.                           *)
RefusedForAReason ==
  /\ pc = "done" => tree # None /\ Nesting(tree) <= MaxBerDepth
  /\ pc = "error" => tree = None \/ Nesting(tree) > MaxBerDepth

=============================================================================
