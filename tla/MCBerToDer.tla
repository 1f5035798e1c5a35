------------------------------ MODULE MCBerToDer ------------------------------
(***************************************************************************)
(* BerEncodings for TLC: sets, strings and tags in an otherwise plain      *)
(* message; a SignedData with its sets in every order; nestings around     *)
(* MAX_BER_DEPTH; contents around 128 octets; and what is no encoding.     *)
(***************************************************************************)
EXTENDS BerEncodings

MCSignedDataOid == <<7>>
OtherOid == <<8>>

Prim(tag, octets) == [tag |-> <<tag>>, kind |-> "prim", form |-> "short", parts |-> octets]
Node(tag, kind, form, parts) == [tag |-> <<tag>>, kind |-> kind, form |-> form, parts |-> parts]
SeqNode(form, parts) == Node(Sequence, "seq", form, parts)
ContentInfo(oid, form, t) ==
  SeqNode(form, <<Prim(Oid, oid), Node(160, "seq", form, <<t>>)>>)
UpTo(S, n) == UNION {[1 .. k -> S] : k \in 0 .. n}

-----------------------------------------------------------------------------
(* Elements of a message that is no SignedData.                            *)

Int1 == Prim(2, <<1>>)
Int256 == Prim(2, <<1, 0>>)
Long1 == [Int1 EXCEPT !.form = "long"]
MultiTag == [Prim(31, <<5>>) EXCEPT !.tag = <<31, 129, 31>>]
MultiTagSeq == [SeqNode("indefinite", <<Int1>>) EXCEPT !.tag = <<63, 129, 0>>]

Sets == {Node(SetOf, "set", form, parts) : form \in Forms, parts \in UpTo({Int1, Long1, Int256, Prim(4, <<0>>)}, 3)}
NestedSets ==
  {Node(SetOf, "set", form, <<Node(SetOf, "set", "indefinite", <<Int256, Int1>>),
                              Node(SetOf, "set", "short", parts)>>) :
     form \in Forms, parts \in {<<>>, <<MultiTag, Int1>>, <<MultiTagSeq, Int256, MultiTag>>}}

OctetStrings == {Prim(4, o) : o \in {<<>>, <<0, 0>>, <<7>>}}
SegmentedOctets == {Node(36, "string", form, parts) : form \in Forms, parts \in UpTo(OctetStrings, 2)}
FullBits == {Prim(3, <<0>>), Prim(3, <<0, 240>>)}
LastBits == FullBits \union {Prim(3, <<3, 8>>), Prim(3, <<7, 128>>)}
SegmentedBits ==
  {Node(35, "string", form, Append(parts, last)) :
     form \in Forms, parts \in UpTo(FullBits, 1), last \in LastBits}
  \union {Node(35, "string", "indefinite", <<>>)}
NestedStrings ==
  {Node(36, "string", "indefinite", <<Prim(4, <<9>>), s>>) : s \in SegmentedOctets}
  \union {Node(35, "string", "short", <<Prim(3, <<0, 255>>), s>>) : s \in SegmentedBits}
  \union {Node(SetOf, "set", "short", <<Node(36, "string", "indefinite", <<Prim(4, <<2>>)>>), Prim(4, <<1>>)>>)}

Long(n) == Prim(4, [i \in 1 .. n |-> 5])
LongStrings == {Node(36, "string", form, <<Long(60), Long(n)>>) : form \in Forms, n \in {67, 68, 200}}

Plain ==
  {ContentInfo(OtherOid, form, t) :
     form \in {"short", "indefinite"},
     t \in Sets \union NestedSets \union SegmentedOctets \union SegmentedBits
             \union NestedStrings \union LongStrings}

-----------------------------------------------------------------------------
(* A SignedData: version, digestAlgorithms, content, certificates, crls,   *)
(* signerInfos.                                                            *)

Bothways(a, b) == {<<a, b>>, <<b, a>>}
Attr(n) == SeqNode("short", <<Prim(Oid, <<n>>), Node(SetOf, "set", "short", <<Int1>>)>>)
SignerInfo(form, attrs, sig) ==
  SeqNode(form, <<Int1, SeqNode("short", <<>>), Node(160, "set", form, attrs), Prim(4, <<sig>>),
                Node(161, "set", form, <<Attr(4), Attr(3)>>)>>)
Attrs == Bothways(Attr(1), Attr(2)) \union {<<Attr(2), Attr(9)>>, <<Attr(9), Attr(1)>>}
Signers(form) ==
  {<<SignerInfo(form, a, 1), SignerInfo(form, b, 2)>> : a, b \in Attrs} \union {<<>>}

SignedData(form, digests, certs, crls, signers) ==
  ContentInfo(MCSignedDataOid, form,
    SeqNode(form, <<Int1, Node(SetOf, "set", form, digests), SeqNode(form, <<Prim(Oid, OtherOid)>>),
                  Node(160, "set", form, certs), Node(161, "set", form, crls),
                  Node(SetOf, "set", form, signers)>>))
SignedDatas ==
  UNION {{SignedData(form, d, <<SeqNode("short", <<Int1>>)>>, <<>>, s) :
            d \in Bothways(SeqNode("short", <<Int1>>), SeqNode("indefinite", <<>>)), s \in Signers(form)} :
         form \in {"short", "indefinite"}}
  \union {SignedData(form, <<Int1>>, c, r, <<SignerInfo(form, <<Attr(2), Attr(1)>>, 1)>>) :
            form \in Forms, c \in Bothways(SeqNode("long", <<Int256>>), SeqNode("indefinite", <<Int1>>)),
            r \in Bothways(SeqNode("short", <<Int256>>), Node(161, "seq", "short", <<Int256, Int1>>))}

-----------------------------------------------------------------------------
(* Nesting: the chain starts two levels below the top.                     *)

RECURSIVE Chain(_, _, _)
Chain(form, n, t) == IF n = 0 THEN t ELSE SeqNode(form, <<Chain(form, n - 1, t)>>)
Chains ==
  {ContentInfo(OtherOid, form, Chain(form, n, t)) :
     form \in {"short", "indefinite"}, n \in (MaxBerDepth - 3) .. MaxBerDepth,
     t \in {Int1, SeqNode("short", <<>>), Node(36, "string", "indefinite", <<Prim(4, <<1>>)>>)}}

MCTree == Plain \union SignedDatas \union Chains

-----------------------------------------------------------------------------
(* What encodes nothing.                                                   *)

Samples ==
  {BerOf(ContentInfo(OtherOid, form, Node(SetOf, "set", form, <<MultiTag, Long1, Node(36, "string", form, <<Prim(4, <<1>>)>>)>>))) :
     form \in Forms}
Truncated == UNION {{SubSeq(o, 1, n) : n \in 0 .. Len(o) - 1} : o \in Samples}
Extended == {o \o e : o \in Samples, e \in {<<0>>, <<0, 0>>, <<2, 1, 1>>}}

WrongSegments ==
  {BerOf(ContentInfo(OtherOid, "short", Node(tag, "string", form, parts))) :
     tag \in {35, 36}, form \in {"short", "indefinite"},
     parts \in {<<Prim(3, <<3, 8>>), Prim(4, <<1>>)>>, <<Prim(3, <<3, 8>>), Prim(3, <<0, 1>>)>>,
                <<Prim(3, <<>>)>>, <<Prim(3, <<8, 1>>)>>, <<Prim(3, <<1>>)>>, <<Int1>>,
                <<Node(37, "string", "short", <<>>)>>}}

(* One element of a tag and these length octets, with two octets of content. *)
WrongLengths ==
  {<<Sequence, 3 + Len(len) + Len(rest), tag>> \o len \o <<1, 1>> \o rest :
     tag \in {4, Sequence}, len \in {<<131, 1, 0, 2>>, <<131, 1, 0, 3>>, <<130, 0, 4>>, <<255>>, <<4>>},
     rest \in {<<>>, <<9>>}}
  \union {<<Sequence, 128, 4, 128, 1, 0, 0, 0, 0>>}

NotCms ==
  {BerOf(t) : t \in {Int1, Node(SetOf, "set", "short", <<Prim(Oid, OtherOid)>>), SeqNode("short", <<>>),
                     SeqNode("indefinite", <<Prim(Oid, MCSignedDataOid)>>),
                     SeqNode("short", <<Prim(Oid, MCSignedDataOid), Int1>>),
                     ContentInfo(MCSignedDataOid, "short", Int1),
                     SeqNode("short", <<Prim(Oid, MCSignedDataOid), Node(160, "seq", "short", <<>>)>>)}}

MCBroken == Truncated \union Extended \union WrongSegments \union WrongLengths \union NotCms

-----------------------------------------------------------------------------
=============================================================================
