------------------------------- MODULE BerToDer -------------------------------
(***************************************************************************)
(* ber_to_der_cms (src/utils.rs), the first step of every reading of a     *)
(* CMS message: BER octets are rewritten as DER.  The recursive descent of *)
(* ber_tlv_to_der is a machine with the stack of its calls; one step reads *)
(* a header, with the content of a primitive, or returns from a call.  The *)
(* pass over the implicitly tagged sets of a SignedData is one step, as    *)
(* nothing in it can fail half way.                                        *)
(*                                                                         *)
(* Octets are octets, since the lengths are what the code is about; an     *)
(* object identifier is an octet string.  Which of its errors the code     *)
(* ends with is not distinguished.                                         *)
(***************************************************************************)
EXTENDS Integers, SequencesExt

CONSTANTS
  None,
  SignedDataOid,   \* ID_SIGNED_DATA
  MaxBerDepth,     \* MAX_BER_DEPTH
  MaxUsize         \* usize::MAX

ASSUME BerAssumption == MaxBerDepth \in Nat /\ MaxUsize \in Nat

Octet == 0 .. 255

VARIABLES
  input,   \* what is to be converted
  pos,     \* how many octets have been read
  stack,   \* the calls that have not returned, outermost first
  out,     \* the element read, once that is complete
  pc       \* "idle" | "parse" | "done" | "error"

vars == <<input, pos, stack, out, pc>>

(* A call that waits for its children: `limit` is where the input it was   *)
(* given ends, that is its own end or that of the innermost element of     *)
(* definite length around it.                                              *)
Frame == [tag : Seq(Octet), indefinite : BOOLEAN, limit : Nat, children : Seq(Seq(Octet))]

-----------------------------------------------------------------------------
(* Tags and lengths.                                                       *)

IsConstructed(tag) == (tag \div 32) % 2 = 1
BitString == 3
OctetString == 4
Oid == 6
Sequence == 48
SetOf == 49
Implicit == {160, 161}   \* [0] and [1], constructed

(* Mutant: lengths wrap around.                                            *)
WrappingLength(d, p, n) ==
  FoldLeft(LAMBDA acc, o : (acc * 256 + o) % (MaxUsize + 1), 0, SubSeq(d, p + 1, p + n))

(* The n octets behind p, MaxUsize + 1 for any number that is too large.   *)
LongLength(d, p, n) ==
  LET Checked(acc, o) == IF acc * 256 + o > MaxUsize THEN MaxUsize + 1 ELSE acc * 256 + o
  IN FoldLeft(Checked, 0, SubSeq(d, p + 1, p + n))

(* Where the tag behind p ends, `limit` if it does not end before.         *)
TagEnd(d, p, limit) ==
  IF d[p + 1] % 32 # 31 THEN p + 1
  ELSE Min({limit} \union {i \in p + 2 .. limit : d[i] < 128})

(* Mutant: the end is not compared with that of the input.                 *)
DefiniteBeyond(tag, body, len, limit) ==
  [tag |-> tag, indefinite |-> FALSE, body |-> body, end |-> body + len]

Definite(tag, body, len, limit) ==
  IF len \notin 0 .. MaxUsize \/ body + len > limit THEN None
  ELSE [tag |-> tag, indefinite |-> FALSE, body |-> body, end |-> body + len]

Indefinite(tag, body, limit) ==
  IF ~IsConstructed(tag[1]) THEN None
  ELSE [tag |-> tag, indefinite |-> TRUE, body |-> body, end |-> limit]

(* A header with this tag, and `first` as the first octet of its length,   *)
(* which ends at p.                                                        *)
LengthAt(d, tag, first, p, limit) ==
  IF first < 128 THEN Definite(tag, p, first, limit)
  ELSE IF first = 128 THEN Indefinite(tag, p, limit)
  ELSE IF p + first - 128 > limit THEN None
  ELSE Definite(tag, p + first - 128, LongLength(d, p, first - 128), limit)

AfterTag(d, p, tagEnd, limit) ==
  IF tagEnd >= limit THEN None
  ELSE LengthAt(d, SubSeq(d, p + 1, tagEnd), d[tagEnd + 1], tagEnd + 1, limit)

(* The header behind p in d, whose input ends at `limit`; None if that is  *)
(* cut off, wrong, or announces more than there is.                        *)
HeaderAt(d, p, limit) ==
  IF p >= limit THEN None ELSE AfterTag(d, p, TagEnd(d, p, limit), limit)

DerLength(n) ==
  IF n < 128 THEN <<n>>
  ELSE LET needed == CHOOSE k \in 1 .. 8 : 256 ^ (k - 1) <= n /\ n < 256 ^ k
       IN <<128 + needed>> \o [i \in 1 .. needed |-> (n \div 256 ^ (needed - i)) % 256]

Der(tag, content) == tag \o DerLength(Len(content)) \o content

-----------------------------------------------------------------------------
(* Rewriting one constructed element.                                      *)

OctetsBefore(a, b) ==
  LET differ == {i \in DOMAIN a \intersect DOMAIN b : a[i] # b[i]} IN
  IF differ = {} THEN Len(a) < Len(b) ELSE a[Min(differ)] < b[Min(differ)]

SortOctets(blobs) == SortSeq(blobs, OctetsBefore)

DerContent(tlv) == SubSeq(tlv, HeaderAt(tlv, 0, Len(tlv)).body + 1, Len(tlv))

NeedsFlatten(tag) == tag[1] \in {32 + BitString, 32 + OctetString}

(* X.690 8.6.2.2 and 8.6.4: only the last segment of a bit string may have *)
(* unused bits, at most 7, and none without data.                          *)
SegmentsOk(segments) ==
  \A i \in DOMAIN segments :
    LET unused == segments[i][1] IN
    /\ segments[i] # <<>>
    /\ unused <= 7
    /\ unused # 0 => Len(segments[i]) > 1 /\ i = Len(segments)

(* Mutant: the unused bits are those of the first segment.                 *)
FlattenedByFirst(tag, blobs) ==
  LET segments == [i \in DOMAIN blobs |-> DerContent(blobs[i])]
      bits == [i \in DOMAIN blobs |-> Tail(segments[i])]
  IN IF \E i \in DOMAIN blobs : blobs[i][1] # tag - 32 THEN None
     ELSE IF tag - 32 # BitString THEN Der(<<tag - 32>>, FlattenSeq(segments))
     ELSE IF ~SegmentsOk(segments) THEN None
     ELSE Der(<<BitString>>, <<IF blobs = <<>> THEN 0 ELSE Head(segments)[1]>> \o FlattenSeq(bits))

(* flatten_constructed_string; None for an error.                          *)
Flattened(tag, blobs) ==
  LET segments == [i \in DOMAIN blobs |-> DerContent(blobs[i])]
      bits == [i \in DOMAIN blobs |-> Tail(segments[i])]
  IN IF \E i \in DOMAIN blobs : blobs[i][1] # tag - 32 THEN None
     ELSE IF tag - 32 # BitString THEN Der(<<tag - 32>>, FlattenSeq(segments))
     ELSE IF ~SegmentsOk(segments) THEN None
     ELSE Der(<<BitString>>, <<IF blobs = <<>> THEN 0 ELSE Last(segments)[1]>> \o FlattenSeq(bits))

(* The DER of a constructed element whose children are all converted.      *)
Assembled(frame) ==
  IF NeedsFlatten(frame.tag) THEN Flattened(frame.tag[1], frame.children)
  ELSE Der(frame.tag, FlattenSeq(IF frame.tag = <<SetOf>> THEN SortOctets(frame.children)
                                 ELSE frame.children))

-----------------------------------------------------------------------------
(* sort_cms_implicit_sets, on the DER that came out.  An element is its    *)
(* header and where that starts.                                           *)

ElementAt(d, p) == HeaderAt(d, p, Len(d))

Then(e, p, Rest) == <<[start |-> p, tag |-> e.tag[1], body |-> e.body, end |-> e.end]>> \o Rest[e.end]

(* The elements that fill d from `from` to `to`.                           *)
Elements(d, from, to) ==
  LET E[p \in from .. to] == IF p = to THEN <<>> ELSE Then(ElementAt(d, p), p, E)
  IN E[from]

Slices(d, elements) ==
  [i \in DOMAIN elements |-> SubSeq(d, elements[i].start + 1, elements[i].end)]

SortChildren(d, e) ==
  SubSeq(d, 1, e.body)
    \o FlattenSeq(SortOctets(Slices(d, Elements(d, e.body, e.end))))
    \o SubSeq(d, e.end + 1, Len(d))

SortImplicit(d, e) == IF e.tag \in Implicit THEN SortChildren(d, e) ELSE d

SortSignerInfo(d, e) ==
  IF e.tag = Sequence THEN FoldLeft(SortImplicit, d, Elements(d, e.body, e.end)) ELSE d

SortSignerInfos(d, e) == FoldLeft(SortSignerInfo, d, Elements(d, e.body, e.end))

(* Mutant: the signerInfos stay as they were sorted before their attributes were. *)
SortFieldOnce(d, e) ==
  IF e.tag = SetOf THEN SortSignerInfos(d, e) ELSE SortImplicit(d, e)

(* Of a set, the elements are sorted once more behind the attributes of a  *)
(* SignerInfo, which come first in its encoding.                           *)
SortField(d, e) ==
  IF e.tag = SetOf THEN SortChildren(SortSignerInfos(d, e), e) ELSE SortImplicit(d, e)

(* Down to the SignedData; None for an error.                              *)
SortFields(d, sd) ==
  IF sd = None THEN None
  ELSE IF sd.tag # <<Sequence>> THEN None
  ELSE FoldLeft(SortField, d, Elements(d, sd.body, sd.end))

SortContent(d, explicit0) ==
  IF explicit0 = None THEN None
  ELSE IF explicit0.tag # <<160>> THEN None
  ELSE SortFields(d, ElementAt(d, explicit0.body))

SortByType(d, oid) ==
  IF oid = None THEN None
  ELSE IF oid.tag # <<Oid>> \/ SubSeq(d, oid.body + 1, oid.end) # SignedDataOid THEN d
  ELSE SortContent(d, ElementAt(d, oid.end))

SortContentInfo(d, ci) ==
  IF ci.tag # <<Sequence>> THEN None ELSE SortByType(d, ElementAt(d, ci.body))

SortCmsImplicitSets(d) == SortContentInfo(d, ElementAt(d, 0))

-----------------------------------------------------------------------------
(* The descent.                                                            *)

Init ==
  /\ pc = "idle"
  /\ input = <<>> /\ pos = 0 /\ stack = <<>> /\ out = None

(* A call of ber_to_der_cms.                                               *)
Convert(octets) ==
  /\ input' = octets /\ pos' = 0 /\ stack' = <<>> /\ out' = None
  /\ pc' = "parse"

top == stack[Len(stack)]
limit == IF stack = <<>> THEN Len(input) ELSE top.limit
header == HeaderAt(input, pos, limit)

Parsing == pc = "parse" /\ out = None
AtEndOfContents ==
  top.indefinite /\ pos + 2 <= limit /\ input[pos + 1] = 0 /\ input[pos + 2] = 0
AtReturn == stack # <<>> /\ IF top.indefinite THEN AtEndOfContents ELSE pos = limit

(* Mutant: the depth is bounded one level too high.                        *)
DepthLeftForMore == Len(stack) <= MaxBerDepth + 1

DepthLeft == Len(stack) <= MaxBerDepth
AtElement == Parsing /\ ~AtReturn /\ DepthLeft /\ header # None

(* The call that is open, or the caller of all, gets the DER of a child.   *)
Deliver(der, calls) ==
  IF calls = <<>> THEN stack' = <<>> /\ out' = der
  ELSE /\ stack' = [calls EXCEPT ![Len(calls)].children = Append(@, der)]
       /\ out' = None

(* Mutant: the loop over the children starts over with the same octets.    *)
ReadPrimitiveAgain ==
  /\ AtElement /\ ~IsConstructed(header.tag[1])
  /\ Deliver(Der(header.tag, SubSeq(input, header.body + 1, header.end)), stack)
  /\ UNCHANGED <<input, pos, pc>>

ReadPrimitive ==
  /\ AtElement /\ ~IsConstructed(header.tag[1])
  /\ Deliver(Der(header.tag, SubSeq(input, header.body + 1, header.end)), stack)
  /\ pos' = header.end
  /\ UNCHANGED <<input, pc>>

EnterConstructed ==
  /\ AtElement /\ IsConstructed(header.tag[1])
  /\ stack' = Append(stack, [tag |-> header.tag, indefinite |-> header.indefinite,
                             limit |-> header.end, children |-> <<>>])
  /\ pos' = header.body
  /\ UNCHANGED <<input, out, pc>>

(* Mutant: a string that cannot be flattened is delivered nevertheless.    *)
ReturnRegardless ==
  /\ Parsing /\ AtReturn
  /\ Deliver(Assembled(top), Front(stack))
  /\ pos' = IF top.indefinite THEN pos + 2 ELSE pos
  /\ UNCHANGED <<input, pc>>

Return ==
  /\ Parsing /\ AtReturn /\ Assembled(top) # None
  /\ Deliver(Assembled(top), Front(stack))
  /\ pos' = IF top.indefinite THEN pos + 2 ELSE pos
  /\ UNCHANGED <<input, pc>>

Finish ==
  /\ pc = "parse" /\ out # None /\ pos = Len(input)
  /\ SortCmsImplicitSets(out) # None
  /\ out' = SortCmsImplicitSets(out) /\ pc' = "done"
  /\ UNCHANGED <<input, pos, stack>>

Reject ==
  /\ \/ Parsing /\ AtReturn /\ Assembled(top) = None
     \/ Parsing /\ ~AtReturn /\ (~DepthLeft \/ header = None)
     \/ pc = "parse" /\ out # None /\ (pos < Len(input) \/ SortCmsImplicitSets(out) = None)
  /\ pc' = "error"
  /\ UNCHANGED <<input, pos, stack, out>>

Step == ReadPrimitive \/ EnterConstructed \/ Return \/ Finish \/ Reject

(* Anything may be converted, as often as one likes.                       *)
Next ==
  \/ /\ pc \in {"idle", "done", "error"}
     /\ \E octets \in Seq(Octet) : Convert(octets)
  \/ Step

Spec == Init /\ [][Next]_vars

-----------------------------------------------------------------------------
(* Properties                                                              *)

(* The types of the variables.                                             *)
TypeOK ==
  /\ pc \in {"idle", "parse", "done", "error"}
  /\ input \in Seq(Octet) /\ pos \in Nat
  /\ stack \in Seq(Frame)
  /\ out \in Seq(Octet) \union {None}

(* No octet is read outside of the elements it is in: the ends of the      *)
(* elements that are open are nested, and the position is before the       *)
(* innermost one.  The slices of the code are within their bounds.         *)
LimitsNested ==
  /\ pos <= limit
  /\ \A i \in DOMAIN stack : stack[i].limit <= IF i = 1 THEN Len(input) ELSE stack[i - 1].limit

(* The recursion of ber_tlv_to_der is never deeper than MAX_BER_DEPTH      *)
(* calls below the first one, whatever the input.                          *)
DepthBounded == Len(stack) <= MaxBerDepth + 1

(* Whatever lengths a message announces and however deep it is nested, the *)
(* descent stays within the input and within its stack.                    *)
DescentStaysInBounds == LimitsNested /\ DepthBounded

(* What is left to do: octets to read, calls to return from, the result.   *)
Remaining ==
  2 * (Len(input) - pos) + Len(stack) + (IF out = None THEN 2 ELSE 1)

(* No input keeps the conversion busy for ever: every step that does not   *)
(* end it reads octets or returns from a call.  Neither loop of            *)
(* ber_tlv_to_der can go round without its `rest` having become shorter.   *)
EveryStepAdvances ==
  [][pc = "parse" /\ pc' = "parse" => Remaining' < Remaining /\ Remaining' >= 0]_vars

=============================================================================
