----------------------------- MODULE Tools_proofs -----------------------------
(***************************************************************************)
(* Proofs about the tools, for every session: all calls, all contents of   *)
(* the files, and servers that send anything.  The type invariant; that    *)
(* extractions from PKCS#12 files are right; that every command comes to   *)
(* an end; that what modify writes is complete, conformant and verifies;   *)
(* that ber-to-der changes encodings only; that exit code 0 of smime       *)
(* vouches for what it gives out, and the others have a reason; and that   *)
(* who has the keys reads the mail.                                        *)
(***************************************************************************)
EXTENDS Tools, Pkcs12_proofs, FiniteSetTheorems

-----------------------------------------------------------------------------
(* Order by counting.                                                      *)

Below(S, R, x) == {y \in S : <<y, x>> \in R}
Ordering(S, R) ==
  /\ \A x \in S : <<x, x>> \notin R
  /\ \A x, y, z \in S : <<x, y>> \in R /\ <<y, z>> \in R => <<x, z>> \in R
  /\ \A x, y \in S : x = y \/ <<x, y>> \in R \/ <<y, x>> \in R

(* The number of elements before x tells x from the others.                *)
LEMMA Ranked ==
  ASSUME NEW S, IsFiniteSet(S), NEW R, Ordering(S, R)
  PROVE  /\ \A x \in S : Cardinality(Below(S, R, x)) \in 0 .. Cardinality(S) - 1
         /\ \A x, y \in S : <<x, y>> \in R => Cardinality(Below(S, R, x)) < Cardinality(Below(S, R, y))
         /\ \A n \in 0 .. Cardinality(S) - 1 : \E x \in S : Cardinality(Below(S, R, x)) = n
<1>. DEFINE rank(x) == Cardinality(Below(S, R, x))
<1>0. /\ Cardinality(S) \in Nat
      /\ \A T \in SUBSET S : IsFiniteSet(T) /\ Cardinality(T) <= Cardinality(S) /\ Cardinality(T) \in Nat
  BY FS_Subset, FS_CardinalityType
<1>1. \A x \in S : rank(x) \in 0 .. Cardinality(S) - 1
  <2>. SUFFICES ASSUME NEW x \in S PROVE rank(x) \in 0 .. Cardinality(S) - 1
    OBVIOUS
  <2>1. Below(S, R, x) \in SUBSET S /\ x \notin Below(S, R, x)
    BY DEF Below, Ordering
  <2>2. Cardinality(S) # Cardinality(Below(S, R, x))
    BY <2>1, FS_Subset
  <2>. QED  BY <1>0, <2>1, <2>2
<1>2. ASSUME NEW x \in S, NEW y \in S, <<x, y>> \in R
      PROVE  rank(x) < rank(y)
  <2>1. Below(S, R, x) \in SUBSET Below(S, R, y) /\ x \in Below(S, R, y) /\ x \notin Below(S, R, x)
    BY <1>2 DEF Below, Ordering
  <2>2. Below(S, R, y) \in SUBSET S /\ Below(S, R, x) \in SUBSET S
    BY DEF Below
  <2>3. IsFiniteSet(Below(S, R, y))
    BY <1>0, <2>2
  <2>4. rank(x) <= rank(y) /\ rank(x) # rank(y)
    BY <2>1, <2>3, FS_Subset
  <2>. QED  BY <1>0, <2>2, <2>4
<1>3. \A n \in 0 .. Cardinality(S) - 1 : \E x \in S : rank(x) = n
  <2>. DEFINE f == [x \in S |-> rank(x)]
  <2>. DEFINE T == 0 .. Cardinality(S) - 1
  <2>1. f \in [S -> T]
    BY <1>1
  <2>2. \A x, y \in S : f[x] = f[y] => x = y
    <3>. SUFFICES ASSUME NEW x \in S, NEW y \in S, x # y PROVE rank(x) # rank(y)
      OBVIOUS
    <3>1. <<x, y>> \in R \/ <<y, x>> \in R
      BY DEF Ordering
    <3>2. rank(x) \in Nat /\ rank(y) \in Nat
      BY <1>0, <1>1
    <3>. HIDE DEF rank
    <3>. QED  BY <1>2, <3>1, <3>2
  <2>3. f \in Injection(S, T)
    BY <2>1, <2>2 DEF Injection, IsInjective
  <2>4. IsFiniteSet(T) /\ Cardinality(T) = Cardinality(S)
    <3>1. 0 \in Int /\ Cardinality(S) - 1 \in Int
      BY <1>0
    <3>2. IsFiniteSet(T) /\ Cardinality(T) = IF 0 > Cardinality(S) - 1 THEN 0 ELSE Cardinality(S) - 1 - 0 + 1
      BY <3>1, FS_Interval
    <3>. QED  BY <1>0, <3>2
  <2>. HIDE DEF T, f
  <2>5. f \in Surjection(S, T)
    BY <2>3, <2>4, FS_Injection
  <2>6. \A n \in T : \E x \in S : f[x] = n
    BY <2>5 DEF Surjection
  <2>. QED  BY <2>6 DEF f, T
<1>. QED  BY <1>1, <1>2, <1>3

(* Picked by that number, the elements come in order, none is left out.    *)
LEMMA InOrderIs ==
  ASSUME NEW S, IsFiniteSet(S), NEW R, Ordering(S, R),
         NEW order, \A n \in 1 .. Cardinality(S) : order[n] \in S /\ Cardinality(Below(S, R, order[n])) = n - 1
  PROVE  /\ \A m, n \in 1 .. Cardinality(S) : m < n <=> <<order[m], order[n]>> \in R
         /\ \A x \in S : \E n \in 1 .. Cardinality(S) : order[n] = x
<1>. DEFINE N == 1 .. Cardinality(S)
<1>. DEFINE rank == [x \in S |-> Cardinality(Below(S, R, x))]
<1>0. Cardinality(S) \in Nat
  BY FS_CardinalityType
<1>1. \A n \in N : order[n] \in S /\ rank[order[n]] = n - 1
  OBVIOUS
<1>2. \A x, y \in S : <<x, y>> \in R => rank[x] < rank[y]
  BY Ranked
<1>3. \A x \in S : rank[x] \in 0 .. Cardinality(S) - 1 /\ rank[x] \in Int
  BY <1>0, Ranked
<1>4. \A x, y \in S : x = y \/ <<x, y>> \in R \/ <<y, x>> \in R
  BY DEF Ordering
<1>. HIDE DEF rank
<1>5. ASSUME NEW x \in S, NEW y \in S
      PROVE  /\ rank[x] < rank[y] <=> <<x, y>> \in R
             /\ rank[x] = rank[y] => x = y
  <2>1. rank[x] \in Int /\ rank[y] \in Int
    BY <1>3
  <2>2. /\ <<x, y>> \in R => rank[x] < rank[y]
        /\ <<y, x>> \in R => rank[y] < rank[x]
    BY <1>2
  <2>3. x = y \/ <<x, y>> \in R \/ <<y, x>> \in R
    BY <1>4
  <2>4. x = y => <<x, y>> \notin R
    BY DEF Ordering
  <2>. HIDE DEF rank
  <2>. QED  BY <2>1, <2>2, <2>3, <2>4
<1>8. \A m, n \in N : m < n <=> <<order[m], order[n]>> \in R
  <2>. SUFFICES ASSUME NEW m \in N, NEW n \in N PROVE m < n <=> <<order[m], order[n]>> \in R
    OBVIOUS
  <2>1. order[m] \in S /\ rank[order[m]] = m - 1 /\ order[n] \in S /\ rank[order[n]] = n - 1
    BY <1>1
  <2>2. rank[order[m]] < rank[order[n]] <=> <<order[m], order[n]>> \in R
    BY <1>5, <2>1
  <2>. QED  BY <2>1, <2>2
<1>9. \A x \in S : \E n \in N : order[n] = x
  <2>. SUFFICES ASSUME NEW x \in S PROVE \E n \in N : order[n] = x
    OBVIOUS
  <2>1. rank[x] + 1 \in N
    BY <1>0, <1>3
  <2>2. order[rank[x] + 1] \in S /\ rank[order[rank[x] + 1]] = rank[x]
    BY <1>0, <1>1, <1>3, <2>1
  <2>. QED  BY <1>5, <2>1, <2>2
<1>. QED  BY <1>8, <1>9

(* Sorting permutes.                                                       *)
LEMMA InDerSorts ==
  ASSUME NEW certs \in Seq(Choice)
  PROVE  InDer(certs) \in Seq(Choice) /\ ToSet(InDer(certs)) = ToSet(certs)
<1>. DEFINE D == DOMAIN certs
<1>. DEFINE Before(i, j) == certs[i].rank < certs[j].rank \/ (certs[i].rank = certs[j].rank /\ i < j)
<1>. DEFINE R == {p \in D \X D : Before(p[1], p[2])}
<1>. DEFINE order == InOrder(D, Before)
<1>1. /\ Len(certs) \in Nat /\ D = 1 .. Len(certs) /\ D \subseteq Int
      /\ \A i \in D : certs[i] \in Choice /\ certs[i].rank \in Int
  <2>1. Len(certs) \in Nat /\ D = 1 .. Len(certs) /\ \A i \in D : certs[i] \in Choice
    OBVIOUS
  <2>2. \A c \in Choice : c.rank \in Int
    BY DEF Choice
  <2>3. D \subseteq Int
    BY <2>1
  <2>. HIDE DEF D
  <2>4. \A i \in D : certs[i] \in Choice /\ certs[i].rank \in Int
    BY <2>1, <2>2
  <2>. QED  BY <2>1, <2>3, <2>4
<1>2. IsFiniteSet(D) /\ Cardinality(D) = Len(certs)
  <2>1. ASSUME NEW len \in Nat PROVE IsFiniteSet(1 .. len) /\ Cardinality(1 .. len) = len
    BY FS_Interval
  <2>. QED  BY <1>1, <2>1
<1>3. \A i, j \in D : Before(i, j) <=> <<i, j>> \in R
  OBVIOUS
<1>4. Ordering(D, R)
  <2>1. \A i \in D : ~Before(i, i)
    BY <1>1
  <2>2. \A i, j, k \in D : Before(i, j) /\ Before(j, k) => Before(i, k)
    <3>. SUFFICES ASSUME NEW i \in D, NEW j \in D, NEW k \in D, Before(i, j), Before(j, k) PROVE Before(i, k)
      OBVIOUS
    <3>1. certs[i].rank \in Int /\ certs[j].rank \in Int /\ certs[k].rank \in Int /\ i \in Int /\ j \in Int /\ k \in Int
      BY <1>1
    <3>. HIDE DEF D
    <3>. QED  BY <3>1
  <2>3. \A i, j \in D : i = j \/ Before(i, j) \/ Before(j, i)
    <3>. SUFFICES ASSUME NEW i \in D, NEW j \in D PROVE i = j \/ Before(i, j) \/ Before(j, i)
      OBVIOUS
    <3>1. certs[i].rank \in Int /\ certs[j].rank \in Int /\ i \in Int /\ j \in Int
      BY <1>1
    <3>. HIDE DEF D
    <3>. QED  BY <3>1
  <2>. HIDE DEF D, R, Before
  <2>. QED  BY <1>3, <2>1, <2>2, <2>3 DEF Ordering
<1>5. \A i \in D : {j \in D : Before(j, i)} = Below(D, R, i)
  <2>. HIDE DEF D, R, Before
  <2>. QED  BY <1>3 DEF Below
<1>6. \A n \in 1 .. Cardinality(D) : order[n] \in D /\ Cardinality(Below(D, R, order[n])) = n - 1
  <2>. SUFFICES ASSUME NEW n \in 1 .. Cardinality(D)
                PROVE  order[n] \in D /\ Cardinality(Below(D, R, order[n])) = n - 1
    OBVIOUS
  <2>1. n - 1 \in 0 .. Cardinality(D) - 1
    BY <1>1, <1>2
  <2>2. \E i \in D : Cardinality(Below(D, R, i)) = n - 1
    <3>. HIDE DEF D, R
    <3>. QED  BY <1>2, <1>4, <2>1, Ranked
  <2>3. \E i \in D : Cardinality({j \in D : Before(j, i)}) = n - 1
    <3>. HIDE DEF D, R, Before
    <3>. QED  BY <1>5, <2>2
  <2>4. order[n] = CHOOSE i \in D : Cardinality({j \in D : Before(j, i)}) = n - 1
    BY DEF InOrder
  <2>. HIDE DEF D, R, Before, order
  <2>. QED  BY <1>5, <2>3, <2>4
<1>8. \A i \in D : \E n \in 1 .. Cardinality(D) : order[n] = i
  <2>. HIDE DEF D, R, order
  <2>. QED  BY <1>2, <1>4, <1>6, InOrderIs
<1>9. InDer(certs) = [n \in D |-> certs[order[n]]]
  BY DEF InDer
<1>. HIDE DEF order
<1>10. \A n \in D : order[n] \in D
  BY <1>1, <1>2, <1>6
<1>11. InDer(certs) \in [1 .. Len(certs) -> Choice]
  <2>. HIDE DEF D
  <2>. QED  BY <1>1, <1>9, <1>10
<1>12. InDer(certs) \in Seq(Choice)
  BY <1>1, <1>11
<1>13. ToSet(InDer(certs)) = ToSet(certs)
  <2>1. DOMAIN InDer(certs) = D /\ \A n \in D : InDer(certs)[n] = certs[order[n]]
    BY <1>9
  <2>3. D = DOMAIN certs
    OBVIOUS
  <2>. HIDE DEF D
  <2>2. \A i \in D : \E n \in D : order[n] = i
    BY <1>1, <1>2, <1>8
  <2>4. \A x : x \in ToSet(certs) <=> \E i \in D : x = certs[i]
    BY <2>3 DEF ToSet
  <2>. HIDE DEF order
  <2>5. \A x : x \in ToSet(InDer(certs)) <=> \E n \in D : x = certs[order[n]]
    BY <2>1 DEF ToSet
  <2>6. ToSet(certs) = {certs[i] : i \in D} /\ ToSet(InDer(certs)) = {certs[order[n]] : n \in D}
    BY <2>4, <2>5
  <2>7. \A i \in D : \E n \in D : certs[i] = certs[order[n]]
    BY <2>2
  <2>. QED  BY <1>10, <2>6, <2>7
<1>. QED  BY <1>12, <1>13

(* The members of a set of numbers, in order.                              *)
LEMMA NatsInOrder ==
  ASSUME NEW S, IsFiniteSet(S), S \subseteq Nat
  PROVE  LET order == InOrder(S, LAMBDA i, j : i < j) IN
         /\ DOMAIN order = 1 .. Cardinality(S)
         /\ \A n \in 1 .. Cardinality(S) : order[n] \in S
         /\ \A m, n \in 1 .. Cardinality(S) : m < n <=> order[m] < order[n]
         /\ \A i \in S : \E n \in 1 .. Cardinality(S) : order[n] = i
<1>. DEFINE R == {p \in S \X S : p[1] < p[2]}
<1>. DEFINE order == InOrder(S, LAMBDA i, j : i < j)
<1>0. \A i, j \in S : i < j <=> <<i, j>> \in R
  OBVIOUS
<1>1. Cardinality(S) \in Nat
  BY FS_CardinalityType
<1>2. Ordering(S, R)
  <2>1. \A i, j, k \in S : i \in Int /\ (i < j /\ j < k => i < k)
    OBVIOUS
  <2>2. \A i, j \in S : i = j \/ i < j \/ j < i
    OBVIOUS
  <2>3. \A i \in S : ~(i < i)
    OBVIOUS
  <2>. HIDE DEF R
  <2>. QED  BY <1>0, <2>1, <2>2, <2>3 DEF Ordering
<1>3. \A i \in S : {j \in S : j < i} = Below(S, R, i)
  <2>. HIDE DEF R
  <2>. QED  BY <1>0 DEF Below
<1>4. \A n \in 1 .. Cardinality(S) : order[n] \in S /\ Cardinality(Below(S, R, order[n])) = n - 1
  <2>. SUFFICES ASSUME NEW n \in 1 .. Cardinality(S)
                PROVE  order[n] \in S /\ Cardinality(Below(S, R, order[n])) = n - 1
    OBVIOUS
  <2>1. n - 1 \in 0 .. Cardinality(S) - 1
    BY <1>1
  <2>2. \E i \in S : Cardinality(Below(S, R, i)) = n - 1
    <3>. HIDE DEF R
    <3>. QED  BY <1>2, <2>1, Ranked
  <2>3. \E i \in S : Cardinality({j \in S : j < i}) = n - 1
    <3>. HIDE DEF R
    <3>. QED  BY <1>3, <2>2
  <2>4. order[n] = CHOOSE i \in S : Cardinality({j \in S : j < i}) = n - 1
    BY DEF InOrder
  <2>. HIDE DEF R, order
  <2>. QED  BY <1>3, <2>3, <2>4
<1>5. DOMAIN order = 1 .. Cardinality(S)
  BY DEF InOrder
<1>. HIDE DEF order, R
<1>6. /\ \A m, n \in 1 .. Cardinality(S) : m < n <=> <<order[m], order[n]>> \in R
      /\ \A i \in S : \E n \in 1 .. Cardinality(S) : order[n] = i
  BY <1>2, <1>4, InOrderIs
<1>7. \A m, n \in 1 .. Cardinality(S) : m < n <=> order[m] < order[n]
  BY <1>0, <1>4, <1>6
<1>. QED  BY <1>4, <1>5, <1>6, <1>7 DEF order

-----------------------------------------------------------------------------
(* Mail.                                                                   *)

(* Mail, and what ber-to-der makes of it on the way.                       *)
Tokens(m) == m \in Seq(Token) /\ m # <<>> /\ m[1].at = 0

(* A mail is tokens from its first header on.                              *)
LEMMA MailTokens == \A m \in Mail : Tokens(m)
BY DEF Mail, Tokens

(* Heads are positions of headers, the first one among them.               *)
LEMMA HeadsOf ==
  ASSUME NEW m, Tokens(m)
  PROVE  /\ Len(m) \in Nat /\ DOMAIN m = 1 .. Len(m)
         /\ 1 \in Heads(m) /\ Heads(m) \subseteq 1 .. Len(m) /\ Heads(m) \subseteq Nat /\ IsFiniteSet(Heads(m))
         /\ \A i \in Heads(m) : m[i].of \in MailHeader /\ m[i].at = 0 /\ m[i] = [of |-> m[i].of, at |-> 0]
         /\ \A i \in DOMAIN m \ Heads(m) : m[i].of \in MailBody /\ m[i].at \in 1 .. 3 /\ m[i].at # 0
<1>1. Len(m) \in Nat /\ DOMAIN m = 1 .. Len(m) /\ 1 \in DOMAIN m /\ \A i \in DOMAIN m : m[i] \in Token
  BY DEF Tokens
<1>2. Heads(m) \subseteq 1 .. Len(m) /\ 1 \in Heads(m)
  BY <1>1 DEF Heads, Tokens
<1>3. IsFiniteSet(Heads(m)) /\ Heads(m) \subseteq Nat
  <2>1. IsFiniteSet(1 .. Len(m))
    BY <1>1, FS_Interval
  <2>. QED  BY <1>1, <1>2, <2>1, FS_Subset
<1>4. \A t \in Token : \/ t.at = 0 /\ t.of \in MailHeader /\ t = [of |-> t.of, at |-> 0]
                       \/ t.at # 0 /\ t.at \in 1 .. 3 /\ t.of \in MailBody
  BY DEF Token
<1>5. \A i \in DOMAIN m : i \in Heads(m) <=> m[i].at = 0
  BY DEF Heads
<1>. QED  BY <1>1, <1>2, <1>3, <1>4, <1>5

(* A part reaches to the next header or to the end.                        *)
LEMMA PartIs ==
  ASSUME NEW m, Tokens(m), NEW i \in Heads(m)
  PROVE  LET part == PartAt(m, i) IN
         /\ part.header = m[i].of /\ part.header \in MailHeader
         /\ part.offset_body = i /\ part.offset_end \in i .. Len(m)
         /\ \A j \in Heads(m) : j > i => j > part.offset_end
         /\ part.offset_end = Len(m) \/ part.offset_end + 1 \in Heads(m)
<1>. DEFINE T == {j \in Heads(m) : j > i} \union {Len(m) + 1}
<1>1. /\ Len(m) \in Nat /\ Heads(m) \subseteq 1 .. Len(m) /\ i \in 1 .. Len(m)
      /\ m[i].of \in MailHeader
  BY HeadsOf
<1>2. T \subseteq Nat /\ T # {}
  BY <1>1
<1>3. Min(T) \in T /\ \A y \in T : Min(T) <= y
  BY <1>2, LeastExists
<1>4. PartAt(m, i) = [header |-> m[i].of, offset_body |-> i, offset_end |-> Min(T) - 1]
  BY DEF PartAt
<1>. HIDE DEF T
<1>5. /\ \A j \in T : (j \in Heads(m) /\ j > i) \/ j = Len(m) + 1
      /\ Len(m) + 1 \in T
      /\ \A j \in Heads(m) : j > i => j \in T
  BY DEF T
<1>. DEFINE least == Min(T)
<1>6. least \in Nat /\ i < least /\ least <= Len(m) + 1
  <2>1. least \in T
    BY <1>3
  <2>2. least \in Nat /\ ((least \in Heads(m) /\ least > i) \/ least = Len(m) + 1)
    BY <1>2, <1>5, <2>1
  <2>. HIDE DEF least
  <2>. QED  BY <1>1, <2>2
<1>7. \A j \in Heads(m) : j > i => least <= j
  BY <1>3, <1>5
<1>8. least \in Heads(m) \/ least = Len(m) + 1
  BY <1>3, <1>5
<1>9. PartAt(m, i) = [header |-> m[i].of, offset_body |-> i, offset_end |-> least - 1]
  BY <1>4
<1>. HIDE DEF least
<1>10. i \in Nat /\ least - 1 \in i .. Len(m) /\ (least - 1 = Len(m) \/ least - 1 + 1 \in Heads(m))
  BY <1>1, <1>6, <1>8
<1>11. \A j \in Heads(m) : j > i => j > least - 1
  BY <1>1, <1>6, <1>7
<1>. QED  BY <1>1, <1>9, <1>10, <1>11

(* What is read as the content of a part are all tokens of its body.       *)
LEMMA ContentsAre ==
  ASSUME NEW m, Tokens(m), NEW i \in Heads(m)
  PROVE  LET part == PartAt(m, i)
             content == Contents(m, part)
         IN /\ content \in Content
            /\ content = Junk \/ SubSeq(m, i + 1, part.offset_end) = Rendered(Body(part.header.encoding, content))
<1>. DEFINE part == PartAt(m, i)
<1>. DEFINE body == SubSeq(m, i + 1, part.offset_end)
<1>1. /\ part.offset_body = i /\ i \in Nat /\ Len(m) \in Nat /\ part.offset_end \in i .. Len(m)
      /\ m \in Seq(Token) /\ \A j \in DOMAIN m \ Heads(m) : m[j].of \in MailBody
      /\ \A j \in Heads(m) : m[j].at = 0
  BY PartIs, HeadsOf DEF Tokens
<1>2. Contents(m, part) = IF body # <<>> /\ body = Rendered(body[1].of) /\ body[1].of.text = part.header.encoding
                          THEN body[1].of.content ELSE Junk
  BY <1>1 DEF Contents
<1>. HIDE DEF part
<1>3. CASE body # <<>> /\ body = Rendered(body[1].of) /\ body[1].of.text = part.header.encoding
  <2>1. body[1] = m[i + 1] /\ i + 1 \in 1 .. Len(m)
    BY <1>1, <1>3
  <2>2. Rendered(body[1].of)[1] = [of |-> body[1].of, at |-> 1]
    <3>1. 1 \in 1 .. Size(body[1].of)
      BY DEF Size
    <3>. QED  BY <3>1 DEF Rendered
  <2>3. body[1].at # 0
    <3>. DEFINE b == body[1].of
    <3>1. body = Rendered(b) /\ Rendered(b)[1] = [of |-> b, at |-> 1]
      BY <1>3, <2>2
    <3>. HIDE DEF b, body
    <3>. QED  BY <3>1
  <2>4. body[1].of \in MailBody
    <3>1. DOMAIN m = 1 .. Len(m)
      BY <1>1
    <3>. HIDE DEF body
    <3>. QED  BY <1>1, <2>1, <2>3, <3>1
  <2>5. body[1].of.content \in Content /\ body[1].of = Body(body[1].of.text, body[1].of.content)
    BY <2>4 DEF MailBody, Body
  <2>. HIDE DEF body
  <2>. QED  BY <1>2, <1>3, <2>5 DEF body, part
<1>4. CASE ~(body # <<>> /\ body = Rendered(body[1].of) /\ body[1].of.text = part.header.encoding)
  BY <1>2, <1>4 DEF Content, part
<1>. QED  BY <1>3, <1>4

(* The first part for S/MIME is at the first head that is one.             *)
LEMMA FirstMime ==
  ASSUME NEW m, Tokens(m), FirstPart(m, IsPkcs7Mime) # None
  PROVE  \E i \in Heads(m) :
           /\ FirstPart(m, IsPkcs7Mime) = PartAt(m, i) /\ m[i].of.kind = "pkcs7-mime"
           /\ \A j \in Heads(m) : m[j].of.kind = "pkcs7-mime" => i <= j
<1>. DEFINE T == {i \in Heads(m) : IsPkcs7Mime(m[i].of)}
<1>1. T # {} /\ T \subseteq Nat
  BY HeadsOf DEF FirstPart
<1>2. Min(T) \in T /\ \A y \in T : Min(T) <= y
  BY <1>1, LeastExists
<1>3. FirstPart(m, IsPkcs7Mime) = PartAt(m, Min(T))
  BY <1>1 DEF FirstPart
<1>4. \A i \in T : i \in Heads(m) /\ m[i].of.kind = "pkcs7-mime"
  BY DEF IsPkcs7Mime
<1>5. \A j \in Heads(m) : m[j].of.kind = "pkcs7-mime" => j \in T
  BY DEF IsPkcs7Mime
<1>. HIDE DEF T
<1>. QED  BY <1>2, <1>3, <1>4, <1>5

(* The types of the fields that sequences are in.                          *)
LEMMA SignedDataFields ==
  ASSUME NEW cms \in SignedData
  PROVE  /\ cms.type = "signed" /\ cms.form \in Form /\ cms.version \in Nat /\ cms.certs \in Seq(Choice)
         /\ cms.crls \in Seq(RevocationInfo) /\ cms.signingTime \in Date \union {None} /\ cms.payload \in Payload
         /\ cms.features \subseteq {"OtherContent"} /\ cms.keyIdentified \in BOOLEAN
BY DEF SignedData

(* Conversion to DER changes the form and the order of certificates only.  *)
LEMMA DerOfSigned ==
  ASSUME NEW cms \in SignedData
  PROVE  /\ DerOfCms(cms) = [cms EXCEPT !.form = "DER", !.certs = InDer(@)]
         /\ DerOfCms(cms) \in SignedData /\ DerOfCms(cms).form = "DER"
         /\ ToSet(DerOfCms(cms).certs) = ToSet(cms.certs)
<1>1. cms.certs \in Seq(Choice) /\ cms.crls \in Seq(RevocationInfo) /\ cms.version \in Nat
  BY SignedDataFields
<1>2. InDer(cms.certs) \in Seq(Choice) /\ ToSet(InDer(cms.certs)) = ToSet(cms.certs)
  BY <1>1, InDerSorts
<1>3. DerOfCms(cms) = [cms EXCEPT !.form = "DER", !.certs = InDer(@)]
  BY DEF DerOfCms
<1>. DEFINE sorted == InDer(cms.certs)
<1>. DEFINE with1 == [cms EXCEPT !.form = "DER"]
<1>. DEFINE with2 == [with1 EXCEPT !.certs = sorted]
<1>4. DerOfCms(cms) = with2
  BY <1>3 DEF SignedData
<1>5. DerOfCms(cms) \in SignedData
  <2>1. with1 \in SignedData
    BY DEF SignedData, Form
  <2>2. sorted \in Seq(Choice)
    BY <1>2
  <2>. HIDE DEF with1, sorted
  <2>3. with2 \in SignedData
    BY <2>1, <2>2 DEF SignedData
  <2>. QED  BY <1>4, <2>3
<1>6. DerOfCms(cms).form = "DER" /\ DerOfCms(cms).certs = InDer(cms.certs)
  BY <1>3 DEF SignedData
<1>. QED  BY <1>2, <1>3, <1>5, <1>6

(* Whatever is converted becomes a CMS object, or is none.                 *)
LEMMA DerOfContent ==
  ASSUME NEW content \in Content, DerOfCms(content) # None
  PROVE  /\ DerOfCms(content) \in SignedData \union EnvelopedData /\ DerOfCms(content).form = "DER"
         /\ DerOfCms(content).type = "signed" => content \in SignedData /\ DerOfCms(content) \in SignedData
         /\ content \in SignedData \union EnvelopedData
<1>1. CASE content \in SignedData
  BY <1>1, DerOfSigned
<1>2. CASE content \notin SignedData
  <2>1. content \in EnvelopedData /\ DerOfCms(content) = [content EXCEPT !.form = "DER"]
    BY <1>2 DEF DerOfCms
  <2>2. DerOfCms(content) \in EnvelopedData /\ DerOfCms(content).form = "DER" /\ DerOfCms(content).type = "enveloped"
    BY <2>1 DEF EnvelopedData, Form
  <2>. QED  BY <2>1, <2>2
<1>. QED  BY <1>1, <1>2

-----------------------------------------------------------------------------
(* Types of modify-cms.                                                    *)

(* A file may be anything.                                                 *)
Disk == DOMAIN disk = Path

(* A command that fails leaves everything but its stage.                   *)
LEMMA FailKeepsTypes == ModifyTypeOK /\ stage # "idle" /\ Fail => ModifyTypeOK'
BY DEF ModifyTypeOK, Fail, Stages, Parts, PartsWith, InOrder, Heads, PartAt

(* The types, step by step.                                                *)
LEMMA ParseSignedTypes == ModifyTypeOK /\ ParseSigned => ModifyTypeOK'
<1>. SUFFICES ASSUME ModifyTypeOK, ParseSigned PROVE ModifyTypeOK'
  OBVIOUS
<1>. DEFINE part == FirstPart(mail, IsPkcs7Mime)
<1>. DEFINE cms == DerOfCms(Contents(mail, part))
<1>1. stage = "parse" /\ job.tool = "modify" /\ mail \in Mail /\ job \in ModifyCall
  BY DEF ParseSigned, ModifyTypeOK
<1>2. CASE Fail
  BY <1>1, <1>2, FailKeepsTypes
<1>3. CASE /\ part # None /\ cms # None /\ cms.type = "signed"
           /\ work' = cms /\ head' = FilteredHeader(part.header, cms) /\ stage' = "certs"
           /\ UNCHANGED <<job, mail, servers, subject, todo, fetched, disk>>
  <2>1. Tokens(mail)
    BY <1>1, MailTokens
  <2>2. PICK i \in Heads(mail) : part = PartAt(mail, i)
    BY <1>3, <2>1, FirstMime
  <2>3. part.header \in MailHeader /\ Contents(mail, part) \in Content
    BY <2>1, <2>2, PartIs, ContentsAre
  <2>4. cms \in SignedData
    BY <1>3, <2>3, DerOfContent
  <2>5. cms.signingTime \in Date \union {None}
    BY <2>4, SignedDataFields
  <2>. HIDE DEF part, cms
  <2>6. FilteredHeader(part.header, cms) \in MailHeader
    <3>. DEFINE h == part.header
    <3>. DEFINE with1 == [h EXCEPT !.extra = FALSE]
    <3>. DEFINE with2 == [with1 EXCEPT !.date = IF @ = None THEN cms.signingTime ELSE @]
    <3>1. FilteredHeader(part.header, cms) = with2
      BY DEF FilteredHeader
    <3>2. h \in MailHeader
      BY <2>3
    <3>. HIDE DEF h
    <3>3. with1 \in MailHeader
      BY <3>2 DEF MailHeader
    <3>. HIDE DEF with1
    <3>4. with2 \in MailHeader
      BY <2>5, <3>3 DEF MailHeader
    <3>. QED  BY <3>1, <3>4
  <2>. QED  BY <1>1, <1>3, <2>4, <2>6 DEF ModifyTypeOK, Stages
<1>. QED  BY <1>2, <1>3 DEF ParseSigned

(* What is added are certificates, unless a file could not be read.        *)
LEMMA AddedTypes ==
  ASSUME Junk \notin ToSet(AddedCertificates)
  PROVE  /\ AddedCertificates \in Seq(Choice) /\ AddedCertificates # <<>>
         /\ AddedCertificates[1] \in Choice
<1>. DEFINE first == CertificateIn(job.cert)
<1>. DEFINE second == CertificateIn(job.certPath)
<1>1. first \in Choice \union {Junk} /\ second \in Choice \union {Junk}
  BY DEF CertificateIn
<1>2. AddedCertificates = IF job.certPath = None THEN <<first>> ELSE <<first, second>>
  BY DEF AddedCertificates
<1>. HIDE DEF first, second
<1>3. first \in ToSet(AddedCertificates)
  <2>1. 1 \in DOMAIN AddedCertificates /\ AddedCertificates[1] = first
    BY <1>2
  <2>. QED  BY <2>1 DEF ToSet
<1>4. job.certPath # None => second \in ToSet(AddedCertificates)
  <2>1. job.certPath # None => 2 \in DOMAIN AddedCertificates /\ AddedCertificates[2] = second
    BY <1>2
  <2>. QED  BY <2>1 DEF ToSet
<1>. QED  BY <1>1, <1>2, <1>3, <1>4

(* The URLs in a certificate are a sequence.                               *)
LEMMA UrlsType ==
  ASSUME NEW kind \in {"crl", "ocsp"}, NEW from \in Choice
  PROVE  UrlsOf(kind, from) \in Seq(Url)
<1>1. from.subject \in Name
  BY DEF Choice
<1>2. <<kind, from.subject>> \in {"crl", "ocsp"} \X Name
  BY <1>1
<1>. QED  BY <1>2, UrlsAssumption DEF UrlsOf

(* Before the first URL is asked.                                          *)
LEMMA BeginFetchTypes ==
  ASSUME NEW kind \in {"crl", "ocsp"}, NEW from \in Choice, NEW path, BeginFetch(kind, path, from)
  PROVE  todo' \in Seq(Url) /\ (fetched' # None => todo' = <<>>) /\ fetched' \in Sent \union {None}
<1>1. DerIn(path) \in Sent
  BY DEF DerIn, Sent
<1>2. UrlsOf(kind, from) \in Seq(Url) /\ <<>> \in Seq(Url)
  BY UrlsType
<1>. QED  BY <1>1, <1>2 DEF BeginFetch

(* So do the other steps of modify.                                        *)
LEMMA AddCertificatesTypes == ModifyTypeOK /\ AddCertificates => ModifyTypeOK'
<1>. SUFFICES ASSUME ModifyTypeOK, AddCertificates PROVE ModifyTypeOK'
  OBVIOUS
<1>. DEFINE certs == work.certs \o AddedCertificates
<1>1. /\ stage = "certs" /\ job.tool = "modify" /\ mail \in Mail /\ job \in ModifyCall
      /\ work \in SignedData /\ head \in MailHeader /\ servers \in [Url -> {"error"} \union Sent]
  BY DEF AddCertificates, ModifyTypeOK
<1>2. CASE Fail
  BY <1>1, <1>2, FailKeepsTypes
<1>3. CASE /\ Junk \notin ToSet(AddedCertificates)
           /\ work' = [work EXCEPT !.certs = certs] /\ subject' = certs[1]
           /\ BeginFetch("crl", job.crlPath, certs[1]) /\ stage' = "crl"
           /\ UNCHANGED <<job, mail, servers, head, disk>>
  <2>1. certs \in Seq(Choice) /\ certs[1] \in Choice
    <3>1. work.certs \in Seq(Choice)
      BY <1>1, SignedDataFields
    <3>. QED  BY <1>3, <3>1, AddedTypes
  <2>. HIDE DEF certs
  <2>2. todo' \in Seq(Url) /\ (fetched' # None => todo' = <<>>) /\ fetched' \in Sent \union {None}
    BY <1>3, <2>1, BeginFetchTypes
  <2>3. work' \in SignedData
    BY <1>1, <1>3, <2>1 DEF SignedData
  <2>. QED  BY <1>1, <1>3, <2>1, <2>2, <2>3 DEF ModifyTypeOK, Stages
<1>. QED  BY <1>2, <1>3 DEF AddCertificates

LEMMA AskNextUrlTypes == ModifyTypeOK /\ AskNextUrl => ModifyTypeOK'
<1>. SUFFICES ASSUME ModifyTypeOK, AskNextUrl PROVE ModifyTypeOK'
  OBVIOUS
<1>1. /\ stage \in {"crl", "ocsp"} /\ todo \in Seq(Url) /\ todo # <<>> /\ fetched = None
      /\ servers \in [Url -> {"error"} \union Sent]
      /\ UNCHANGED <<job, mail, servers, work, head, subject, stage, disk>>
  BY DEF ModifyTypeOK, AskNextUrl
<1>2. todo[1] \in Url /\ Tail(todo) \in Seq(Url) /\ <<>> \in Seq(Url)
  BY <1>1
<1>3. todo' \in Seq(Url) /\ (fetched' # None => todo' = <<>>) /\ fetched' \in Sent \union {None}
  <2>1. CASE todo' = Tail(todo) /\ UNCHANGED fetched
    BY <1>1, <1>2, <2>1
  <2>2. CASE servers[todo[1]] # "error" /\ todo' = <<>> /\ fetched' = servers[todo[1]]
    BY <1>1, <1>2, <2>2
  <2>. QED  BY <2>1, <2>2 DEF AskNextUrl
<1>. QED  BY <1>1, <1>3 DEF ModifyTypeOK

(* A SignedData with one more revocation information is one.               *)
LEMMA AddedType ==
  ASSUME NEW cms \in SignedData, NEW choice \in RevocationInfo
  PROVE  Added(cms, choice) \in SignedData
<1>1. cms.crls \in Seq(RevocationInfo)
  BY SignedDataFields
<1>2. cms.crls \o <<choice>> \in Seq(RevocationInfo)
  BY <1>1
<1>. DEFINE crls == cms.crls \o <<choice>>
<1>. HIDE DEF crls
<1>3. [cms EXCEPT !.crls = crls] \in SignedData
  <2>1. crls \in Seq(RevocationInfo)
    BY <1>2 DEF crls
  <2>. QED  BY <2>1 DEF SignedData
<1>4. Added(cms, choice) = [cms EXCEPT !.crls = crls]
  BY DEF Added, SignedData, crls
<1>. QED  BY <1>3, <1>4

LEMMA AddCrlTypes == ModifyTypeOK /\ AddCrl => ModifyTypeOK'
<1>. SUFFICES ASSUME ModifyTypeOK, AddCrl PROVE ModifyTypeOK'
  OBVIOUS
<1>1. /\ stage = "crl" /\ job.tool = "modify" /\ mail \in Mail /\ job \in ModifyCall /\ subject \in Choice
      /\ work \in SignedData /\ head \in MailHeader /\ servers \in [Url -> {"error"} \union Sent]
  BY DEF AddCrl, ModifyTypeOK
<1>2. CASE Fail
  BY <1>1, <1>2, FailKeepsTypes
<1>3. CASE /\ work' = IF AddsNothing(fetched) THEN work ELSE Added(work, "Crl")
           /\ IF job.ocsp THEN stage' = "ocsp" /\ BeginFetch("ocsp", job.ocspPath, subject)
                          ELSE stage' = "write" /\ UNCHANGED <<todo, fetched>>
           /\ UNCHANGED <<job, mail, servers, head, subject, disk>>
  <2>1. work' \in SignedData
    BY <1>1, <1>3, AddedType DEF RevocationInfo
  <2>2. CASE job.ocsp
    <3>1. todo' \in Seq(Url) /\ (fetched' # None => todo' = <<>>) /\ fetched' \in Sent \union {None}
      BY <1>1, <1>3, <2>2, BeginFetchTypes
    <3>. QED  BY <1>1, <1>3, <2>1, <2>2, <3>1 DEF ModifyTypeOK, Stages
  <2>3. CASE ~job.ocsp
    BY <1>1, <1>3, <2>1, <2>3 DEF ModifyTypeOK, Stages
  <2>. QED  BY <2>2, <2>3
<1>. QED  BY <1>2, <1>3 DEF AddCrl

LEMMA AddOcspResponseTypes == ModifyTypeOK /\ AddOcspResponse => ModifyTypeOK'
<1>. SUFFICES ASSUME ModifyTypeOK, AddOcspResponse PROVE ModifyTypeOK'
  OBVIOUS
<1>1. /\ stage = "ocsp" /\ job.tool = "modify" /\ mail \in Mail /\ job \in ModifyCall
      /\ work \in SignedData /\ head \in MailHeader /\ servers \in [Url -> {"error"} \union Sent]
      /\ fetched \in Sent \union {None}
  BY DEF AddOcspResponse, ModifyTypeOK
<1>2. CASE Fail
  BY <1>1, <1>2, FailKeepsTypes
<1>3. CASE /\ fetched # Junk
           /\ work' = IF AddsNothing(fetched) THEN work ELSE Added(work, OcspInfo(fetched))
           /\ stage' = "write"
           /\ UNCHANGED <<job, mail, servers, head, subject, todo, fetched, disk>>
  <2>1. ~AddsNothing(fetched) => OcspInfo(fetched) \in RevocationInfo
    BY <1>1, <1>3 DEF AddsNothing, OcspInfo, Sent, RevocationInfo, OtherRevocationInfo
  <2>2. work' \in SignedData
    BY <1>1, <1>3, <2>1, AddedType
  <2>. QED  BY <1>1, <1>3, <2>2 DEF ModifyTypeOK, Stages
<1>. QED  BY <1>2, <1>3 DEF AddOcspResponse

(* The end of a command keeps the types.                                   *)
LEMMA FinishTypes ==
  ASSUME ModifyTypeOK, stage \in {"write", "rewrite"}, NEW content, Finish(content)
  PROVE  ModifyTypeOK' /\ (Disk => Disk')
<1>1. CASE Fail
  BY <1>1, FailKeepsTypes DEF Fail, Disk
<1>2. CASE /\ Written(job.output, content) /\ stage' = "ok"
           /\ UNCHANGED <<job, mail, servers, work, head, subject, todo, fetched>>
  BY <1>2 DEF ModifyTypeOK, Stages, Disk, Written
<1>. QED  BY <1>1, <1>2 DEF Finish

(* The parts that begin at the heads H, in order.                          *)
PartsFrom(parts, m, H) ==
  /\ parts \in Seq({PartAt(m, i) : i \in H}) /\ Len(parts) = Cardinality(H)
  /\ ToSet(parts) = {PartAt(m, i) : i \in H}
  /\ \A n \in DOMAIN parts : parts[n].offset_body \in H /\ parts[n] = PartAt(m, parts[n].offset_body)
  /\ \A k, n \in DOMAIN parts : k < n <=> parts[k].offset_body < parts[n].offset_body
  /\ \A i \in H : \E n \in DOMAIN parts : parts[n].offset_body = i

(* Parts in the order of their heads.                                      *)
LEMMA PartsAt ==
  ASSUME NEW m, NEW H, H \subseteq Nat, NEW heads, Cardinality(H) \in Nat,
         \A n \in 1 .. Cardinality(H) : heads[n] \in H,
         \A k, n \in 1 .. Cardinality(H) : k < n <=> heads[k] < heads[n],
         \A i \in H : \E n \in 1 .. Cardinality(H) : heads[n] = i,
         NEW parts, parts = [n \in 1 .. Cardinality(H) |-> PartAt(m, heads[n])]
  PROVE  PartsFrom(parts, m, H)
<1>. DEFINE S == {PartAt(m, i) : i \in H}
<1>1. \A n \in 1 .. Cardinality(H) : PartAt(m, heads[n]) \in S
  OBVIOUS
<1>2. \A i \in H : PartAt(m, i).offset_body = i
  BY DEF PartAt
<1>3. DOMAIN parts = 1 .. Cardinality(H)
  OBVIOUS
<1>4. \A n \in 1 .. Cardinality(H) : parts[n] = PartAt(m, heads[n]) /\ parts[n].offset_body = heads[n]
  BY <1>2
<1>5. ToSet(parts) = S
  <2>1. \A p : p \in ToSet(parts) <=> \E n \in 1 .. Cardinality(H) : p = PartAt(m, heads[n])
    BY DEF ToSet
  <2>. QED  BY <2>1
<1>6. parts \in Seq(S) /\ Len(parts) = Cardinality(H)
  <2>. HIDE DEF S
  <2>1. parts \in [1 .. Cardinality(H) -> S]
    BY <1>1
  <2>. QED  BY <2>1
<1>7. \A n \in DOMAIN parts : parts[n].offset_body \in H /\ parts[n] = PartAt(m, parts[n].offset_body)
  BY <1>3, <1>4
<1>8. \A k, n \in DOMAIN parts : k < n <=> parts[k].offset_body < parts[n].offset_body
  <2>. SUFFICES ASSUME NEW k \in 1 .. Cardinality(H), NEW n \in 1 .. Cardinality(H)
                PROVE  k < n <=> parts[k].offset_body < parts[n].offset_body
    BY <1>3
  <2>1. parts[k].offset_body = heads[k] /\ parts[n].offset_body = heads[n]
    BY <1>4
  <2>. QED  BY <2>1
<1>9. \A i \in H : \E n \in DOMAIN parts : parts[n].offset_body = i
  <2>. SUFFICES ASSUME NEW i \in H PROVE \E n \in 1 .. Cardinality(H) : parts[n].offset_body = i
    BY <1>3
  <2>1. PICK n \in 1 .. Cardinality(H) : heads[n] = i
    OBVIOUS
  <2>2. parts[n].offset_body = i
    BY <1>4, <2>1
  <2>. QED  BY <2>2
<1>. QED  BY <1>5, <1>6, <1>7, <1>8, <1>9 DEF PartsFrom

(* The parts with some header are those at the heads that have it.         *)
LEMMA PartsWithAre ==
  ASSUME NEW m, Tokens(m)
  PROVE  /\ PartsFrom(PartsWith(m, IsPkcs7), m, {i \in Heads(m) : IsPkcs7(m[i].of)})
         /\ PartsFrom(Parts(m), m, Heads(m))
<1>1. ASSUME NEW H, H \subseteq Heads(m), NEW heads, heads = InOrder(H, LAMBDA i, j : i < j),
             NEW parts, parts = [n \in DOMAIN heads |-> PartAt(m, heads[n])]
      PROVE  PartsFrom(parts, m, H)
  <2>1. IsFiniteSet(H) /\ H \subseteq Nat
    BY <1>1, HeadsOf, FS_Subset
  <2>2. Cardinality(H) \in Nat
    BY <2>1, FS_CardinalityType
  <2>3. /\ DOMAIN heads = 1 .. Cardinality(H)
        /\ \A n \in 1 .. Cardinality(H) : heads[n] \in H
        /\ \A k, n \in 1 .. Cardinality(H) : k < n <=> heads[k] < heads[n]
        /\ \A i \in H : \E n \in 1 .. Cardinality(H) : heads[n] = i
    BY <1>1, <2>1, NatsInOrder
  <2>4. parts = [n \in 1 .. Cardinality(H) |-> PartAt(m, heads[n])]
    BY <1>1, <2>3
  <2>. QED  BY <2>1, <2>2, <2>3, <2>4, PartsAt
<1>2. PartsFrom(PartsWith(m, IsPkcs7), m, {i \in Heads(m) : IsPkcs7(m[i].of)})
  BY <1>1 DEF PartsWith
<1>3. Heads(m) = {i \in Heads(m) : TRUE}
  OBVIOUS
<1>4. PartsFrom(Parts(m), m, {i \in Heads(m) : TRUE})
  BY <1>1 DEF PartsWith, Parts
<1>. QED  BY <1>2, <1>3, <1>4

(* The parts that begin at the heads H, the last one first.                *)
PartsBack(parts, m, H) ==
  /\ parts \in Seq({PartAt(m, i) : i \in H})
  /\ \A n \in DOMAIN parts : parts[n].offset_body \in H /\ parts[n] = PartAt(m, parts[n].offset_body)
  /\ \A k, n \in DOMAIN parts : k < n <=> parts[k].offset_body > parts[n].offset_body
  /\ \A i \in H : \E n \in DOMAIN parts : parts[n].offset_body = i

(* Sorted by descending offset, the last part comes first.                 *)
LEMMA FromTheBackIs ==
  ASSUME NEW m, NEW H, H \subseteq Nat, IsFiniteSet(H), NEW parts, PartsFrom(parts, m, H)
  PROVE  PartsBack(FromTheBack(parts), m, H)
<1>. DEFINE S == ToSet(parts)
<1>. DEFINE Before(a, b) == b.offset_body < a.offset_body
<1>. DEFINE R == {p \in S \X S : Before(p[1], p[2])}
<1>. DEFINE order == InOrder(S, Before)
<1>1. S = {PartAt(m, i) : i \in H} /\ \A i \in H : PartAt(m, i).offset_body = i
  BY DEF PartsFrom, PartAt
<1>2. \A p \in S : p.offset_body \in H /\ p.offset_body \in Int /\ p = PartAt(m, p.offset_body)
  <2>. HIDE DEF S
  <2>. QED  BY <1>1
<1>3. IsFiniteSet(S)
  <2>. DEFINE f == [i \in H |-> PartAt(m, i)]
  <2>1. f \in Surjection(H, S)
    <3>1. f \in [H -> S] /\ \A p \in S : \E i \in H : f[i] = p
      <4>. HIDE DEF S
      <4>. QED  BY <1>1
    <3>. QED  BY <3>1 DEF Surjection
  <2>. HIDE DEF f, S
  <2>. QED  BY <2>1, FS_Surjection
<1>4. Cardinality(S) \in Nat
  <2>. HIDE DEF S
  <2>. QED  BY <1>3, FS_CardinalityType
<1>5. \A a, b \in S : Before(a, b) <=> <<a, b>> \in R
  <2>. HIDE DEF S
  <2>. QED  OBVIOUS
<1>6. Ordering(S, R)
  <2>. HIDE DEF S
  <2>1. \A a \in S : ~Before(a, a)
    BY <1>2
  <2>2. \A a, b, c \in S : Before(a, b) /\ Before(b, c) => Before(a, c)
    <3>. SUFFICES ASSUME NEW a \in S, NEW b \in S, NEW c \in S, Before(a, b), Before(b, c) PROVE Before(a, c)
      OBVIOUS
    <3>1. a.offset_body \in Int /\ b.offset_body \in Int /\ c.offset_body \in Int
      BY <1>2
    <3>. QED  BY <3>1
  <2>3. \A a, b \in S : a = b \/ Before(a, b) \/ Before(b, a)
    <3>. SUFFICES ASSUME NEW a \in S, NEW b \in S PROVE a = b \/ Before(a, b) \/ Before(b, a)
      OBVIOUS
    <3>1. a.offset_body \in Int /\ b.offset_body \in Int /\ (a.offset_body = b.offset_body => a = b)
      BY <1>2
    <3>. QED  BY <3>1
  <2>. HIDE DEF R, Before
  <2>. QED  BY <1>5, <2>1, <2>2, <2>3 DEF Ordering
<1>7. \A a \in S : {b \in S : Before(b, a)} = Below(S, R, a)
  <2>. HIDE DEF S, R, Before
  <2>. QED  BY <1>5 DEF Below
<1>8. \A n \in 1 .. Cardinality(S) : order[n] \in S /\ Cardinality(Below(S, R, order[n])) = n - 1
  <2>. SUFFICES ASSUME NEW n \in 1 .. Cardinality(S)
                PROVE  order[n] \in S /\ Cardinality(Below(S, R, order[n])) = n - 1
    OBVIOUS
  <2>1. n - 1 \in 0 .. Cardinality(S) - 1
    BY <1>4
  <2>2. \E a \in S : Cardinality(Below(S, R, a)) = n - 1
    <3>. HIDE DEF S, R
    <3>. QED  BY <1>3, <1>6, <2>1, Ranked
  <2>3. \E a \in S : Cardinality({b \in S : Before(b, a)}) = n - 1
    <3>. HIDE DEF S, R, Before
    <3>. QED  BY <1>7, <2>2
  <2>4. order[n] = CHOOSE a \in S : Cardinality({b \in S : Before(b, a)}) = n - 1
    BY DEF InOrder
  <2>. HIDE DEF S, R, Before, order
  <2>. QED  BY <1>7, <2>3, <2>4
<1>9. DOMAIN order = 1 .. Cardinality(S) /\ order = FromTheBack(parts)
  BY DEF InOrder, FromTheBack
<1>10. order \in Seq(S)
  <2>1. order = [n \in 1 .. Cardinality(S) |-> CHOOSE a \in S : Cardinality({b \in S : Before(b, a)}) = n - 1]
    BY DEF InOrder
  <2>2. \A n \in 1 .. Cardinality(S) : (CHOOSE a \in S : Cardinality({b \in S : Before(b, a)}) = n - 1) \in S
    BY <1>8, <2>1
  <2>. HIDE DEF S, order, Before
  <2>3. order \in [1 .. Cardinality(S) -> S]
    BY <2>1, <2>2
  <2>. QED  BY <1>4, <2>3
<1>. HIDE DEF S, R, order
<1>11. /\ \A k, n \in 1 .. Cardinality(S) : k < n <=> <<order[k], order[n]>> \in R
       /\ \A a \in S : \E n \in 1 .. Cardinality(S) : order[n] = a
  BY <1>3, <1>6, <1>8, InOrderIs
<1>12. \A k, n \in DOMAIN order : k < n <=> order[k].offset_body > order[n].offset_body
  <2>. SUFFICES ASSUME NEW k \in 1 .. Cardinality(S), NEW n \in 1 .. Cardinality(S)
                PROVE  k < n <=> order[k].offset_body > order[n].offset_body
    BY <1>9
  <2>1. order[k] \in S /\ order[n] \in S /\ (k < n <=> <<order[k], order[n]>> \in R)
    BY <1>8, <1>11
  <2>2. Before(order[k], order[n]) <=> <<order[k], order[n]>> \in R
    <3>. HIDE DEF Before
    <3>. QED  BY <1>5, <2>1
  <2>. QED  BY <1>2, <2>1, <2>2
<1>13. \A i \in H : \E n \in DOMAIN order : order[n].offset_body = i
  <2>. SUFFICES ASSUME NEW i \in H PROVE \E n \in 1 .. Cardinality(S) : order[n].offset_body = i
    BY <1>9
  <2>1. PartAt(m, i) \in S
    BY <1>1
  <2>2. PICK n \in 1 .. Cardinality(S) : order[n] = PartAt(m, i)
    BY <1>11, <2>1
  <2>. QED  BY <1>1, <2>2
<1>14. \A n \in DOMAIN order : order[n].offset_body \in H /\ order[n] = PartAt(m, order[n].offset_body)
  BY <1>2, <1>8, <1>9
<1>15. order \in Seq({PartAt(m, i) : i \in H})
  BY <1>1, <1>10
<1>. QED  BY <1>9, <1>12, <1>13, <1>14, <1>15 DEF PartsBack

(* What ber-to-der begins with: all PKCS#7 parts, from the back.           *)
LEMMA BeginRewriteIs ==
  ASSUME ModifyTypeOK, BeginRewrite, ~Fail
  PROVE  /\ stage = "parse" /\ stage' = "rewrite" /\ work' = mail /\ mail \in Mail /\ Tokens(mail)
         /\ PartsBack(todo', mail, {i \in Heads(mail) : IsPkcs7(mail[i].of)})
         /\ UNCHANGED <<job, mail, servers, head, subject, fetched, disk>>
<1>. DEFINE H == {i \in Heads(mail) : IsPkcs7(mail[i].of)}
<1>1. /\ stage = "parse" /\ stage' = "rewrite" /\ work' = mail /\ todo' = FromTheBack(PartsWith(mail, IsPkcs7))
      /\ UNCHANGED <<job, mail, servers, head, subject, fetched, disk>>
  BY DEF BeginRewrite
<1>2. mail \in Mail /\ Tokens(mail)
  BY <1>1, MailTokens DEF ModifyTypeOK
<1>3. H \subseteq Nat /\ IsFiniteSet(H)
  BY <1>2, HeadsOf, FS_Subset
<1>4. PartsFrom(PartsWith(mail, IsPkcs7), mail, H)
  BY <1>2, PartsWithAre
<1>5. PartsBack(FromTheBack(PartsWith(mail, IsPkcs7)), mail, H)
  <2>. HIDE DEF H
  <2>. QED  BY <1>3, <1>4, FromTheBackIs
<1>. QED  BY <1>1, <1>2, <1>5

LEMMA BeginRewriteTypes == ModifyTypeOK /\ BeginRewrite => ModifyTypeOK'
<1>. SUFFICES ASSUME ModifyTypeOK, BeginRewrite PROVE ModifyTypeOK'
  OBVIOUS
<1>1. CASE Fail
  BY <1>1, FailKeepsTypes DEF BeginRewrite
<1>2. CASE ~Fail
  <2>. DEFINE H == {i \in Heads(mail) : IsPkcs7(mail[i].of)}
  <2>1. /\ stage = "parse" /\ stage' = "rewrite" /\ Tokens(mail) /\ PartsBack(todo', mail, H)
        /\ UNCHANGED <<job, mail, servers, head, subject, fetched, disk>>
    BY <1>2, BeginRewriteIs
  <2>2. ToSet(Parts(mail)) = {PartAt(mail, i) : i \in Heads(mail)}
    BY <2>1, PartsWithAre DEF PartsFrom
  <2>3. todo' \in Seq(ToSet(Parts(mail)))
    <3>1. todo' \in Seq({PartAt(mail, i) : i \in H})
      BY <2>1 DEF PartsBack
    <3>2. {PartAt(mail, i) : i \in H} \subseteq ToSet(Parts(mail))
      BY <2>2
    <3>. HIDE DEF H
    <3>. QED  BY <3>1, <3>2
  <2>4. Parts(mail)' = Parts(mail)
    BY <2>1 DEF Parts, PartsWith, PartAt, Heads, InOrder
  <2>5. ToSet(Parts(mail))' = ToSet(Parts(mail))
    BY <2>4 DEF ToSet
  <2>6. job.tool = "ber-to-der"
    BY <1>2 DEF BeginRewrite
  <2>. QED  BY <2>1, <2>3, <2>5, <2>6 DEF ModifyTypeOK, Stages
<1>. QED  BY <1>1, <1>2

LEMMA RewritePartTypes == ModifyTypeOK /\ RewritePart => ModifyTypeOK'
<1>. SUFFICES ASSUME ModifyTypeOK, RewritePart PROVE ModifyTypeOK'
  OBVIOUS
<1>1. CASE Fail
  BY <1>1, FailKeepsTypes DEF RewritePart
<1>2. CASE /\ stage = "rewrite" /\ todo # <<>> /\ todo' = Tail(todo)
           /\ UNCHANGED <<job, mail, servers, head, subject, fetched, stage, disk>>
  <2>1. todo \in Seq(ToSet(Parts(mail)))
    BY <1>2 DEF ModifyTypeOK
  <2>. DEFINE parts == ToSet(Parts(mail))
  <2>2. parts' = parts
    <3>1. Parts(mail)' = Parts(mail)
      BY <1>2 DEF Parts, PartsWith, PartAt, Heads, InOrder
    <3>. QED  BY <3>1 DEF ToSet
  <2>. HIDE DEF parts
  <2>3. todo' \in Seq(parts)
    BY <1>2, <2>1 DEF parts
  <2>. QED  BY <1>2, <2>2, <2>3 DEF ModifyTypeOK, Stages, parts
<1>. QED  BY <1>1, <1>2 DEF RewritePart

(* Every step of modify-cms keeps the types.                               *)
LEMMA ModifyTypes ==
  ASSUME ModifyTypeOK, Disk, ModifyStep
  PROVE  ModifyTypeOK' /\ Disk'
<1>1. ASSUME Fail PROVE Disk'
  BY <1>1 DEF Fail, Disk
<1>2. CASE ParseSigned
  BY <1>1, <1>2, ParseSignedTypes DEF ParseSigned, Disk
<1>3. CASE AddCertificates
  BY <1>1, <1>3, AddCertificatesTypes DEF AddCertificates, Disk
<1>4. CASE AskNextUrl
  BY <1>4, AskNextUrlTypes DEF AskNextUrl, Disk
<1>5. CASE AddCrl
  BY <1>1, <1>5, AddCrlTypes DEF AddCrl, Disk
<1>6. CASE AddOcspResponse
  BY <1>1, <1>6, AddOcspResponseTypes DEF AddOcspResponse, Disk
<1>7. CASE WriteModified
  BY <1>7, FinishTypes DEF WriteModified
<1>8. CASE BeginRewrite
  BY <1>1, <1>8, BeginRewriteTypes DEF BeginRewrite, Disk
<1>9. CASE RewritePart
  BY <1>1, <1>9, RewritePartTypes DEF RewritePart, Disk
<1>10. CASE WriteRewritten
  BY <1>10, FinishTypes DEF WriteRewritten
<1>. QED
  BY <1>2, <1>3, <1>4, <1>5, <1>6, <1>7, <1>8, <1>9, <1>10 DEF ModifyStep

(* The steps of others keep them as well.                                  *)
LEMMA ModifyStutters == ModifyTypeOK /\ UNCHANGED modifyVars => ModifyTypeOK'
<1>. SUFFICES ASSUME ModifyTypeOK, UNCHANGED modifyVars PROVE ModifyTypeOK'
  OBVIOUS
<1>1. Parts(mail)' = Parts(mail)
  BY DEF Parts, PartsWith, PartAt, Heads, InOrder, modifyVars
<1>. DEFINE parts == ToSet(Parts(mail))
<1>2. parts' = parts
  BY <1>1 DEF ToSet
<1>. HIDE DEF parts
<1>. QED  BY <1>2 DEF ModifyTypeOK, modifyVars, parts

-----------------------------------------------------------------------------
(* Types of smime, and of all.                                             *)

(* The programs do not run side by side, and the web page asks when smime  *)
(* does not.                                                               *)
OneAtATime ==
  /\ stage = "idle" \/ phase = "idle"
  /\ phase \notin {"idle", "p12", "exited"} => step \in {"idle", "done"}
  /\ asked # None => phase \in {"idle", "exited"}

(* The web page's call is the one the extraction is at.                    *)
AskedFor ==
  asked # None => asked \in WebCall /\ password = IF asked.password = None THEN Empty ELSE asked.password

(* The session, and the files all of which are there.                      *)
Counted ==
  /\ session \in DOMAIN Sessions /\ Disk
  /\ commands \in 0 .. Sessions[session].length

(* The types, strengthened: what a PKCS#12 answer says, and who is at      *)
(* work.                                                                   *)
ToolsInv ==
  /\ ModifyTypeOK /\ CommandTypeOK /\ Pkcs12Inv
  /\ Counted /\ OneAtATime /\ AskedFor

(* The loop of decrypt, turn by turn.                                      *)
LEMMA Unrolled ==
  ASSUME NEW m, NEW k, NEW t, NEW from, from = RootOf(m).from,
         NEW first, first = DecryptLayer(m, None, k, t), NEW second, second = Inward(first, from, k, t),
         NEW third, third = Inward(second, from, k, t), NEW fourth, fourth = Inward(third, from, k, t)
  PROVE  Decrypt(m, k, t) = IF IsSmime(fourth.signed_content) THEN NothingVerified ELSE fourth
<1>. DEFINE ended == IF IsSmime(fourth.signed_content) THEN NothingVerified ELSE fourth
<1>1. ASSUME NEW r PROVE Turn({r}, from, k, t) = {Inward(r, from, k, t)}
  BY DEF Turn
<1>2. Turn(Turn(Turn({first}, from, k, t), from, k, t), from, k, t) = {fourth}
  BY <1>1
<1>3. Ended({fourth}) = {ended}
  BY DEF Ended
<1>4. Decrypt(m, k, t) = CHOOSE r \in {ended} : TRUE
  BY <1>2, <1>3 DEF Decrypt
<1>5. \A e : (CHOOSE r \in {e} : TRUE) = e
  OBVIOUS
<1>. HIDE DEF ended
<1>6. Decrypt(m, k, t) = ended
  BY <1>4, <1>5
<1>. QED  BY <1>6 DEF ended

(* A verdict is true or false.                                             *)
LEMMA Judged ==
  ASSUME NEW m, NEW t, NEW k, NEW from
  PROVE  /\ Verify(m, t).failures \in BOOLEAN /\ DecryptLayer(m, from, k, t).failures \in BOOLEAN
         /\ Decrypt(m, k, t).failures \in BOOLEAN
<1>1. NothingVerified.failures \in BOOLEAN
  BY DEF NothingVerified
<1>2. \A cms, sender, content : VerifySignedData(cms, sender, content, t).failures \in BOOLEAN
  BY DEF VerifySignedData
<1>3. ASSUME NEW n PROVE Verify(n, t).failures \in BOOLEAN
  <2>1. ASSUME NEW sender PROVE VerifyClearSigned(n, sender, t).failures \in BOOLEAN
    BY <1>1, <1>2 DEF VerifyClearSigned
  <2>. QED  BY <1>1, <1>2, <2>1 DEF Verify
<1>4. ASSUME NEW n, NEW sender PROVE DecryptLayer(n, sender, k, t).failures \in BOOLEAN
  BY <1>1, <1>2, <1>3 DEF DecryptLayer
<1>5. ASSUME NEW r, NEW sender, r.failures \in BOOLEAN PROVE Inward(r, sender, k, t).failures \in BOOLEAN
  BY <1>4, <1>5 DEF Inward
<1>6. Decrypt(m, k, t).failures \in BOOLEAN
  <2>. DEFINE first == DecryptLayer(m, None, k, t)
  <2>. DEFINE second == Inward(first, RootOf(m).from, k, t)
  <2>. DEFINE third == Inward(second, RootOf(m).from, k, t)
  <2>. DEFINE fourth == Inward(third, RootOf(m).from, k, t)
  <2>1. first.failures \in BOOLEAN
    BY <1>4
  <2>2. second.failures \in BOOLEAN
    <3>. HIDE DEF first
    <3>. QED  BY <1>5, <2>1
  <2>3. third.failures \in BOOLEAN
    <3>. HIDE DEF second
    <3>. QED  BY <1>5, <2>2
  <2>4. fourth.failures \in BOOLEAN
    <3>. HIDE DEF third
    <3>. QED  BY <1>5, <2>3
  <2>5. Decrypt(m, k, t) = IF IsSmime(fourth.signed_content) THEN NothingVerified ELSE fourth
    <3>. HIDE DEF first, second, third, fourth
    <3>. QED  BY Unrolled DEF first, second, third, fourth
  <2>. HIDE DEF fourth
  <2>. QED  BY <1>1, <2>4, <2>5
<1>. QED  BY <1>3, <1>4, <1>6

(* Exit code 2, wherever it comes from.                                    *)
LEMMA StopKeepsTypes ==
  ASSUME CommandTypeOK, phase # "idle", Stop
  PROVE  CommandTypeOK' /\ phase' = "exited" /\ UNCHANGED disk
BY DEF CommandTypeOK, Stop, Exit, ExitError, ExitSuccess, ExitFailure

(* Every step of smime keeps the types.                                    *)
LEMMA CommandTypes ==
  ASSUME CommandTypeOK, Pkcs12Inv, Disk, OneAtATime, CommandStep, UNCHANGED <<stage, asked>>
  PROVE  CommandTypeOK' /\ Pkcs12Inv' /\ Disk' /\ OneAtATime'
<1>. USE DEF Disk
<1>1. CASE ResolveTrust
  <2>1. Pkcs12Inv'
    BY <1>1, Pkcs12Stutters DEF ResolveTrust
  <2>2. CASE Stop
    BY <1>1, <2>1, <2>2, StopKeepsTypes DEF ResolveTrust, OneAtATime
  <2>3. CASE ~Stop
    <3>1. /\ phase = "trust" /\ phase' = "eml" /\ UNCHANGED <<call, exit, disk, p12Vars>>
          /\ trust' = [stores |-> (IF call.caFile = None THEN {"Builtin"} ELSE {})
                                     \union (IF call.debug THEN {"Debug"} ELSE {}),
                       ca_file_pem |-> IF call.caFile = None THEN None ELSE disk[call.caFile]]
      BY <1>1, <2>3 DEF ResolveTrust
    <3>2. trust'.stores \subseteq DOMAIN Anchors
      BY <3>1, CommandAssumption
    <3>. QED  BY <2>1, <3>1, <3>2 DEF CommandTypeOK, OneAtATime, p12Vars
  <2>. QED  BY <2>2, <2>3
<1>2. CASE ReadEml
  <2>1. Pkcs12Inv'
    BY <1>2, Pkcs12Stutters DEF ReadEml
  <2>2. CASE Stop
    BY <1>2, <2>1, <2>2, StopKeepsTypes DEF ReadEml, OneAtATime
  <2>3. CASE ~Stop
    <3>1. /\ phase = "eml" /\ phase' = IF call.command = "verify" THEN "run" ELSE "key"
          /\ UNCHANGED <<call, trust, keys, result, exit, disk, p12Vars>>
      BY <1>2, <2>3 DEF ReadEml
    <3>2. call.command \in {"verify", "decrypt"}
      BY <3>1 DEF CommandTypeOK, SmimeCall
    <3>. QED  BY <2>1, <3>1, <3>2 DEF CommandTypeOK, OneAtATime, p12Vars
  <2>. QED  BY <2>2, <2>3
<1>3. CASE ReadKey
  <2>1. CASE Stop /\ UNCHANGED p12Vars
    BY <1>3, <2>1, StopKeepsTypes, Pkcs12Stutters DEF ReadKey, OneAtATime
  <2>2. CASE /\ phase = "key" /\ Extract(disk[call.inkey], call.passin, "key") /\ phase' = "p12"
             /\ UNCHANGED <<call, trust, eml, keys, result, exit, disk>>
    <3>1. call.passin \in Password
      BY <2>2 DEF CommandTypeOK, SmimeCall
    <3>2. Pkcs12Inv'
      BY <2>2, <3>1, ExtractionBegins
    <3>. QED  BY <2>2, <3>2 DEF CommandTypeOK, OneAtATime, Extract
  <2>3. CASE /\ phase = "key" /\ phase' = "cert"
             /\ UNCHANGED <<call, trust, eml, result, exit, disk, p12Vars>>
    BY <2>3, Pkcs12Stutters DEF CommandTypeOK, OneAtATime, p12Vars
  <2>. QED  BY <1>3, <2>1, <2>2, <2>3 DEF ReadKey
<1>4. CASE ExtractKey
  <2>1. phase = "p12" /\ Pkcs12Step /\ UNCHANGED <<callVars, disk>>
    BY <1>4 DEF ExtractKey
  <2>2. Pkcs12Inv' /\ step' # "idle"
    BY <2>1, Pkcs12Steps DEF Pkcs12Step, Open, OpenEntry, Opened, Search, GiveUp, Return
  <2>. QED  BY <2>1, <2>2 DEF CommandTypeOK, OneAtATime, callVars
<1>5. CASE TakeKey
  <2>1. Pkcs12Inv' /\ UNCHANGED p12Vars /\ phase = "p12" /\ step = "done"
    BY <1>5, Pkcs12Stutters DEF TakeKey
  <2>2. CASE Stop
    BY <1>5, <2>1, <2>2, StopKeepsTypes DEF OneAtATime
  <2>3. CASE /\ phase' = "cert" /\ UNCHANGED <<call, trust, eml, result, exit, disk>>
    BY <2>1, <2>3 DEF CommandTypeOK, OneAtATime, p12Vars
  <2>. QED  BY <1>5, <2>2, <2>3 DEF TakeKey
<1>6. CASE GatherKeys
  <2>1. Pkcs12Inv' /\ UNCHANGED p12Vars /\ phase = "cert"
    BY <1>6, Pkcs12Stutters DEF GatherKeys
  <2>2. CASE Stop
    BY <1>6, <2>1, <2>2, StopKeepsTypes DEF OneAtATime
  <2>3. CASE phase' = "run" /\ UNCHANGED <<call, trust, eml, result, exit, disk>>
    BY <2>1, <2>3 DEF CommandTypeOK, OneAtATime, p12Vars
  <2>. QED  BY <1>6, <2>2, <2>3 DEF GatherKeys
<1>7. CASE Run
  <2>1. Pkcs12Inv' /\ phase = "run" /\ phase' = "output" /\ UNCHANGED <<call, trust, exit, disk, p12Vars>>
    BY <1>7, Pkcs12Stutters DEF Run
  <2>2. result'.failures \in BOOLEAN
    BY <1>7, Judged DEF Run
  <2>. QED  BY <2>1, <2>2 DEF CommandTypeOK, OneAtATime, p12Vars
<1>8. CASE WriteOutput
  <2>1. Pkcs12Inv' /\ phase = "output" /\ UNCHANGED p12Vars
    BY <1>8, Pkcs12Stutters DEF WriteOutput
  <2>2. CASE Stop
    BY <2>1, <2>2, StopKeepsTypes DEF OneAtATime
  <2>3. CASE /\ Exit(ExitOf) /\ UNCHANGED <<call, trust, eml, keys, result>>
             /\ UNCHANGED disk \/ Written(call.out, result.signed_content)
    <3>1. ExitOf \in {ExitSuccess, ExitFailure}
      BY DEF ExitOf
    <3>. QED  BY <2>1, <2>3, <3>1 DEF CommandTypeOK, OneAtATime, Exit, Written, p12Vars
  <2>. QED  BY <1>8, <2>2, <2>3 DEF WriteOutput
<1>. QED
  BY <1>1, <1>2, <1>3, <1>4, <1>5, <1>6, <1>7, <1>8 DEF CommandStep

(* The steps of others keep them.                                          *)
LEMMA CommandStutters == CommandTypeOK /\ UNCHANGED <<callVars, step>> => CommandTypeOK'
BY DEF CommandTypeOK, callVars

(* The invariant of all programs holds when the first session begins.      *)
LEMMA Starts == Init => ToolsInv
<1>. SUFFICES ASSUME Init PROVE ToolsInv
  OBVIOUS
<1>1. ModifyTypeOK
  BY DEF Init, ModifyInit, ModifyTypeOK, Stages
<1>2. CommandTypeOK
  BY DEF Init, CommandInit, CommandTypeOK, ExitSuccess, ExitFailure, ExitError
<1>3. Pkcs12Inv
  BY Pkcs12Starts DEF Init
<1>4. Counted
  <2>1. session \in DOMAIN Sessions /\ disk \in Sessions[session].files /\ commands = 0
    BY DEF Init
  <2>2. Sessions[session].length \in Nat /\ DOMAIN disk = Path
    BY <2>1, SessionsAssumption
  <2>. QED  BY <2>1, <2>2 DEF Counted, Disk
<1>5. OneAtATime /\ AskedFor
  BY DEF Init, ModifyInit, CommandInit, OneAtATime, AskedFor
<1>. QED  BY <1>1, <1>2, <1>3, <1>4, <1>5 DEF ToolsInv

(* Whichever program is at work keeps the invariant.                       *)
LEMMA Steps == ToolsInv /\ [Next]_vars => ToolsInv'
<1>. SUFFICES ASSUME ToolsInv, [Next]_vars PROVE ToolsInv'
  OBVIOUS
<1>0. /\ ModifyTypeOK /\ CommandTypeOK /\ Pkcs12Inv /\ Counted /\ OneAtATime /\ AskedFor /\ Disk
      /\ Sessions[session].length \in Nat
  BY SessionsAssumption DEF ToolsInv, Counted
<1>1. ASSUME Begin, UNCHANGED disk PROVE Counted'
  BY <1>0, <1>1 DEF Begin, Counted, Disk
<1>2. ASSUME UNCHANGED <<commands, session>>, Disk' PROVE Counted'
  BY <1>0, <1>2 DEF Counted
<1>3. CASE BeginModifyCms
  <2>1. PICK j \in Sessions[session].modify, answers \in Sessions[session].servers : StartModifyCms(j, answers)
    BY <1>3 DEF BeginModifyCms
  <2>2. j \in ModifyCall /\ answers \in [Url -> {"error"} \union Sent]
    BY <1>0, SessionsAssumption DEF Counted
  <2>3. stage' \in {"parse", "failed"} /\ (stage' = "parse" => mail' \in Mail)
    <3>1. MailIn(disk[j.eml]) \in Mail \union {Junk}
      BY DEF MailIn
    <3>. QED  BY <2>1, <3>1 DEF StartModifyCms
  <2>4. ModifyTypeOK'
    BY <2>1, <2>2, <2>3 DEF StartModifyCms, ModifyTypeOK, Stages
  <2>5. UNCHANGED <<disk, call, trust, eml, keys, result, exit, p12Vars, asked>> /\ phase' = "idle" /\ Begin
    BY <1>3 DEF BeginModifyCms
  <2>6. CommandTypeOK'
    BY <1>0, <2>5 DEF CommandTypeOK
  <2>7. Pkcs12Inv'
    BY <1>0, <2>5, Pkcs12Stutters
  <2>8. OneAtATime' /\ AskedFor'
    BY <1>0, <2>5 DEF OneAtATime, AskedFor, Begin, Quiet, p12Vars
  <2>. QED  BY <1>1, <2>4, <2>5, <2>6, <2>7, <2>8 DEF ToolsInv
<1>4. CASE BeginSmime
  <2>1. PICK c \in Sessions[session].smime : StartSmime(c)
    BY <1>4 DEF BeginSmime
  <2>2. c \in SmimeCall
    BY <1>0, SessionsAssumption DEF Counted
  <2>3. /\ Begin /\ asked' = None /\ stage' = "idle"
        /\ UNCHANGED <<disk, job, mail, servers, work, head, subject, todo, fetched, p12Vars>>
    BY <1>4 DEF BeginSmime
  <2>4. ModifyTypeOK'
    BY <2>3 DEF ModifyTypeOK, Stages
  <2>5. CommandTypeOK'
    BY <2>1, <2>2 DEF CommandTypeOK, StartSmime, ExitSuccess, ExitFailure, ExitError
  <2>6. Pkcs12Inv'
    BY <1>0, <2>3, Pkcs12Stutters
  <2>7. OneAtATime' /\ AskedFor'
    BY <2>1, <2>3 DEF OneAtATime, AskedFor, Begin, Quiet, p12Vars, StartSmime
  <2>. QED  BY <1>1, <2>3, <2>4, <2>5, <2>6, <2>7 DEF ToolsInv
<1>5. CASE BeginWeb
  <2>1. PICK w \in Sessions[session].web :
          asked' = w /\ Extract(disk[w.p12], IF w.password = None THEN Empty ELSE w.password, w.what)
    BY <1>5 DEF BeginWeb
  <2>2. w \in WebCall
    BY <1>0, SessionsAssumption DEF Counted
  <2>3. Begin /\ UNCHANGED <<disk, modifyVars, callVars>>
    BY <1>5 DEF BeginWeb
  <2>4. (IF w.password = None THEN Empty ELSE w.password) \in Password /\ w.what \in {"key", "certificate"}
    BY <2>2, Pkcs12Assumption DEF WebCall
  <2>5. Pkcs12Inv'
    BY <2>1, <2>4, ExtractionBegins
  <2>6. ModifyTypeOK'
    BY <1>0, <2>3, ModifyStutters
  <2>7. CommandTypeOK'
    BY <1>0, <2>1, <2>3 DEF CommandTypeOK, callVars, Begin, Quiet, Extract
  <2>8. OneAtATime' /\ AskedFor'
    BY <1>0, <2>1, <2>2, <2>3 DEF OneAtATime, AskedFor, Begin, Quiet, callVars, modifyVars, Extract
  <2>. QED  BY <1>1, <2>3, <2>5, <2>6, <2>7, <2>8 DEF ToolsInv
<1>6. CASE Modifying
  <2>1. ModifyStep /\ UNCHANGED <<callVars, p12Vars, asked, commands, session>>
    BY <1>6 DEF Modifying
  <2>2. ModifyTypeOK' /\ Disk'
    BY <1>0, <2>1, ModifyTypes
  <2>3. CommandTypeOK' /\ Pkcs12Inv'
    BY <1>0, <2>1, CommandStutters, Pkcs12Stutters DEF p12Vars
  <2>4. stage # "idle"
    BY <2>1 DEF ModifyStep, ParseSigned, AddCertificates, AskNextUrl, AddCrl, AddOcspResponse, WriteModified,
                BeginRewrite, RewritePart, WriteRewritten
  <2>5. OneAtATime' /\ AskedFor'
    BY <1>0, <2>1, <2>4 DEF OneAtATime, AskedFor, callVars, p12Vars
  <2>. QED  BY <1>2, <2>1, <2>2, <2>3, <2>5 DEF ToolsInv
<1>7. CASE Running
  <2>1. CommandStep /\ UNCHANGED <<modifyVars, asked, commands, session>>
    BY <1>7 DEF Running
  <2>2. CommandTypeOK' /\ Pkcs12Inv' /\ Disk' /\ OneAtATime'
    BY <1>0, <2>1, CommandTypes DEF modifyVars
  <2>3. ModifyTypeOK'
    BY <1>0, <2>1, ModifyStutters
  <2>4. AskedFor'
    <3>1. phase \notin {"idle", "exited"}
      BY <2>1 DEF CommandStep, ResolveTrust, ReadEml, ReadKey, ExtractKey, TakeKey, GatherKeys, Run, WriteOutput
    <3>. QED  BY <1>0, <2>1, <3>1 DEF OneAtATime, AskedFor
  <2>. QED  BY <1>2, <2>1, <2>2, <2>3, <2>4 DEF ToolsInv
<1>8. CASE Extracting
  <2>1. Pkcs12Step /\ phase # "p12" /\ UNCHANGED <<disk, modifyVars, callVars, asked, commands, session>>
    BY <1>8 DEF Extracting
  <2>2. Pkcs12Inv' /\ step \in {"open", "decrypt", "search"} /\ UNCHANGED password
    BY <1>0, <2>1, Pkcs12Steps DEF Pkcs12Step, Open, OpenEntry, Opened, Search, GiveUp
  <2>3. ModifyTypeOK'
    BY <1>0, <2>1, ModifyStutters
  <2>4. CommandTypeOK'
    BY <1>0, <2>1 DEF CommandTypeOK, callVars
  <2>5. OneAtATime' /\ AskedFor' /\ Disk'
    BY <1>0, <2>1, <2>2 DEF OneAtATime, AskedFor, Disk, callVars, modifyVars
  <2>. QED  BY <1>2, <2>1, <2>2, <2>3, <2>4, <2>5 DEF ToolsInv
<1>9. CASE UNCHANGED vars
  <2>1. UNCHANGED <<session, disk, modifyVars, callVars, p12Vars, asked, commands>>
    BY <1>9 DEF vars
  <2>2. ModifyTypeOK' /\ CommandTypeOK' /\ Pkcs12Inv'
    BY <1>0, <2>1, ModifyStutters, CommandStutters, Pkcs12Stutters DEF p12Vars
  <2>. QED  BY <1>0, <2>1, <2>2 DEF ToolsInv, Counted, Disk, OneAtATime, AskedFor, modifyVars, callVars, p12Vars
<1>. QED
  BY <1>3, <1>4, <1>5, <1>6, <1>7, <1>8, <1>9 DEF Next, Work, Over

(* The invariant holds throughout.                                         *)
LEMMA Always == Spec => []ToolsInv
BY Starts, Steps, PTL DEF Spec

(* The state of the three programs and of the files they share stays what  *)
(* it is declared to be.                                                   *)
THEOREM TypeCorrect == Spec => []TypeOK
<1>1. ToolsInv => TypeOK
  BY DEF ToolsInv, TypeOK, Counted, Disk, Pkcs12Inv
<1>. QED  BY <1>1, Always, PTL

(* What the page says of passwords.                                        *)
LEMMA WebAnswers == Pkcs12Inv /\ AskedFor => WebPagesAskForPasswords
<1>. SUFFICES ASSUME Pkcs12Inv, AskedFor, asked # None, step = "done"
              PROVE  LET told == WebAnswer(answer.kind, asked.password) IN
                     /\ told = "Pkcs12PasswordRequired" => asked.password = None /\ ~Sound(file, Empty)
                     /\ told = "Pkcs12WrongPassword" => asked.password # None /\ ~Sound(file, asked.password)
                     /\ \A pw \in Password :
                          Sound(file, pw) /\ file.mac # Absent => MacVerifies(file.mac, password) \/
                            told = IF asked.password = None THEN "Pkcs12PasswordRequired" ELSE "Pkcs12WrongPassword"
  BY DEF WebPagesAskForPasswords
<1>1. password = IF asked.password = None THEN Empty ELSE asked.password
  BY DEF AskedFor
<1>2. answer.kind \in AnswerKinds
  BY DEF Pkcs12Inv, Pkcs12TypeOK, Answer
<1>3. Sound(file, password) => answer.kind # "WrongPassword"
  <2>1. Sound(file, password) => answer = NothingFound(want) \/ \E value : answer = [kind |-> "Ok", value |-> value]
    BY DEF Pkcs12Inv, SoundFilesAreRead, Done
  <2>2. NothingFound(want).kind # "WrongPassword"
    BY DEF NothingFound
  <2>. QED  BY <2>1, <2>2
<1>4. \A pw \in Password :
        Sound(file, pw) /\ file.mac # Absent => MacVerifies(file.mac, password) \/ answer.kind = "WrongPassword"
  BY WrongPasswordTold DEF WrongPasswordIsTold, Done
<1>. QED  BY <1>1, <1>2, <1>3, <1>4 DEF WebAnswer, AnswerKinds

(* With its password a PKCS#12 file gives the first key or certificate in  *)
(* it, whatever entries it has; another password is reported as wrong, or  *)
(* as missing if none was given, and never yields a key unless the file is *)
(* without a MAC.                                                          *)
THEOREM ExtractionRight == Spec => []ExtractionIsRight
<1>1. ToolsInv => ExtractionIsRight
  BY WebAnswers, WrongPasswordTold, GarbageExplained DEF ToolsInv, ExtractionIsRight, Pkcs12Inv
<1>. QED  BY <1>1, Always, PTL

-----------------------------------------------------------------------------
(* Every step of a command leads on.                                       *)

(* The ranks, one by one.                                                  *)
LEMMA Ranks ==
  \A s : /\ Rank(PhaseRank, s) = IF s = "output" THEN 1 ELSE IF s = "run" THEN 2 ELSE IF s = "cert" THEN 3
                                 ELSE IF s = "p12" THEN 4 ELSE IF s = "key" THEN 5 ELSE IF s = "eml" THEN 6
                                 ELSE IF s = "trust" THEN 7 ELSE 0
         /\ Rank(StepRank, s) = IF s = "search" THEN 1 ELSE IF s = "decrypt" THEN 2 ELSE IF s = "open" THEN 3 ELSE 0
         /\ Rank(StageRank, s) = IF s \in {"write", "rewrite"} THEN 1 ELSE IF s = "ocsp" THEN 2
                                 ELSE IF s = "crl" THEN 3 ELSE IF s = "certs" THEN 4 ELSE IF s = "parse" THEN 5 ELSE 0
BY DEF Rank, PhaseRank, StepRank, StageRank

(* What is to be done is a list.                                           *)
Queued == Len(todo) \in Nat

(* What is to be done is always a finite list.                             *)
LEMMA QueuedStays ==
  ASSUME Queued, ModifyTypeOK', [Next]_vars
  PROVE  Queued'
<1>1. CASE UNCHANGED todo
  BY <1>1 DEF Queued
<1>2. CASE todo' = <<>>
  BY <1>2 DEF Queued
<1>3. CASE stage' \in {"crl", "ocsp", "rewrite"}
  <2>1. todo' \in Seq(Url) \/ todo' \in Seq(ToSet(Parts(mail)))'
    BY <1>3 DEF ModifyTypeOK
  <2>. QED  BY <2>1 DEF Queued
<1>4. CASE BeginModifyCms
  BY <1>2, <1>4 DEF BeginModifyCms, StartModifyCms
<1>5. CASE BeginSmime \/ BeginWeb \/ Running \/ Extracting \/ UNCHANGED vars
  BY <1>1, <1>5 DEF BeginSmime, BeginWeb, Running, Extracting, modifyVars, vars
<1>6. CASE Modifying
  <2>1. CASE Fail
    BY <1>1, <2>1 DEF Fail
  <2>2. CASE ParseSigned
    BY <1>1, <2>1, <2>2 DEF ParseSigned
  <2>3. CASE AddCertificates
    BY <1>3, <2>1, <2>3 DEF AddCertificates
  <2>4. CASE AskNextUrl
    BY <1>3, <2>4 DEF AskNextUrl
  <2>5. CASE AddCrl
    BY <1>1, <1>3, <2>1, <2>5 DEF AddCrl
  <2>6. CASE AddOcspResponse
    BY <1>1, <2>1, <2>6 DEF AddOcspResponse
  <2>7. CASE WriteModified \/ WriteRewritten
    BY <1>1, <2>1, <2>7 DEF WriteModified, WriteRewritten, Finish
  <2>8. CASE BeginRewrite
    BY <1>3, <2>1, <2>8 DEF BeginRewrite
  <2>9. CASE RewritePart
    BY <1>3, <2>1, <2>9 DEF RewritePart
  <2>. QED  BY <1>6, <2>2, <2>3, <2>4, <2>5, <2>6, <2>7, <2>8, <2>9 DEF Modifying, ModifyStep
<1>. QED  BY <1>4, <1>5, <1>6 DEF Next, Work, Over

(* The entries not yet opened, or not yet searched.                        *)
EntriesLeft ==
  IF step = "decrypt" THEN Len(file.entries) + 1 - entry
  ELSE IF step = "search" THEN Len(opened) + 1 - entry ELSE 0

(* The second component of the variant is a number of entries and URLs.    *)
LEMMA EntriesLeftIs ==
  ASSUME Pkcs12TypeOK
  PROVE  EntriesLeft \in Nat /\ Left = Len(todo) + EntriesLeft
<1>1. step = "decrypt" => Len(file.entries) \in Nat /\ entry \in 1 .. Len(file.entries) + 1
  BY DEF Pkcs12TypeOK, Pfx
<1>2. step = "search" => Len(opened) \in Nat /\ entry \in 1 .. Len(opened) + 1
  BY DEF Pkcs12TypeOK
<1>. QED  BY <1>1, <1>2 DEF EntriesLeft, Left

(* It stays a natural number.                                              *)
LEMMA EntriesLeftNext == Pkcs12TypeOK' => EntriesLeft' \in Nat
<1>. SUFFICES ASSUME Pkcs12TypeOK' PROVE EntriesLeft' \in Nat
  OBVIOUS
<1>1. step' = "decrypt" => Len(file'.entries) \in Nat /\ entry' \in 1 .. Len(file'.entries) + 1
  BY DEF Pkcs12TypeOK, Pfx
<1>2. step' = "search" => Len(opened') \in Nat /\ entry' \in 1 .. Len(opened') + 1
  BY DEF Pkcs12TypeOK
<1>. QED  BY <1>1, <1>2 DEF EntriesLeft

(* Each step of a PKCS#12 extraction lowers the pair.                      *)
LEMMA ExtractionAdvances ==
  ASSUME Pkcs12TypeOK, Pkcs12Step
  PROVE  \/ Rank(StepRank, step') < Rank(StepRank, step)
         \/ step' = step /\ EntriesLeft' < EntriesLeft
<1>1. CASE Open
  BY <1>1, Ranks DEF Open, Return
<1>2. CASE OpenEntry
  <2>1. step = "decrypt" /\ UNCHANGED file /\ entry \in Int /\ Len(file.entries) \in Int
    BY <1>2 DEF OpenEntry, Pkcs12TypeOK, Pfx
  <2>2. \/ step' = "done"
        \/ step' = "decrypt" /\ entry' = entry + 1
    BY <1>2, <2>1 DEF OpenEntry, Return
  <2>. QED  BY <2>1, <2>2, Ranks DEF EntriesLeft
<1>3. CASE Opened
  BY <1>3, Ranks DEF Opened
<1>4. CASE Search
  <2>1. step = "search" /\ UNCHANGED opened /\ entry \in Int /\ Len(opened) \in Int
    BY <1>4 DEF Search, Pkcs12TypeOK, Return
  <2>2. \/ step' = "done"
        \/ step' = "search" /\ entry' = entry + 1
    BY <1>4, <2>1 DEF Search, Return
  <2>. QED  BY <2>1, <2>2, Ranks DEF EntriesLeft
<1>5. CASE GiveUp
  BY <1>5, Ranks DEF GiveUp, Return
<1>. QED  BY <1>1, <1>2, <1>3, <1>4, <1>5 DEF Pkcs12Step

(* Each step of a command does.                                            *)
LEMMA Advances ==
  ASSUME ToolsInv, Queued, Next, commands' = commands, vars' # vars
  PROVE  Ahead' < Ahead \/ (Ahead' = Ahead /\ Left' < Left)
<1>. DEFINE A(ph, st, sg) == 4 * Rank(PhaseRank, ph) + Rank(StepRank, st) + Rank(StageRank, sg)
<1>0. ModifyTypeOK /\ Pkcs12Inv /\ Pkcs12TypeOK /\ Counted /\ Queued
  BY DEF ToolsInv, Pkcs12Inv
<1>1. Ahead = A(phase, step, stage) /\ Ahead' = A(phase', step', stage')
  BY DEF Ahead
<1>2. \A s : Rank(PhaseRank, s) \in Nat /\ Rank(StepRank, s) \in Nat /\ Rank(StageRank, s) \in Nat
  BY Ranks
<1>3. CASE Modifying
  <2>1. ModifyStep /\ UNCHANGED <<callVars, p12Vars>>
    BY <1>3 DEF Modifying
  <2>2. UNCHANGED <<phase, step, file, entry, opened>>
    BY <2>1 DEF callVars, p12Vars
  <2>3. Rank(StageRank, stage') < Rank(StageRank, stage) => Ahead' < Ahead
    BY <1>1, <1>2, <2>2
  <2>4. CASE stage' # stage
    <3>1. \/ stage = "parse" /\ stage' \in {"certs", "failed", "rewrite"}
          \/ stage = "certs" /\ stage' \in {"crl", "failed"}
          \/ stage = "crl" /\ stage' \in {"ocsp", "write", "failed"}
          \/ stage = "ocsp" /\ stage' \in {"write", "failed"}
          \/ stage \in {"write", "rewrite"} /\ stage' \in {"ok", "failed"}
      BY <2>1, <2>4 DEF ModifyStep, ParseSigned, AddCertificates, AskNextUrl, AddCrl, AddOcspResponse, WriteModified,
           BeginRewrite, RewritePart, WriteRewritten, Finish, Fail
    <3>2. Rank(StageRank, stage') < Rank(StageRank, stage)
      BY <3>1, Ranks
    <3>. QED  BY <2>3, <3>2
  <2>5. CASE stage' = stage
    <3>1. todo # <<>> /\ (todo' = Tail(todo) \/ todo' = <<>>)
      <4>1. CASE RewritePart
        BY <2>5, <4>1 DEF RewritePart, Fail
      <4>2. CASE AskNextUrl
        BY <4>2 DEF AskNextUrl
      <4>. QED
        BY <2>1, <2>5, <4>1, <4>2 DEF ModifyStep, ParseSigned, AddCertificates, AddCrl, AddOcspResponse, WriteModified,
             BeginRewrite, WriteRewritten, Finish, Fail
    <3>2. todo \in Seq(Url) \/ todo \in Seq(ToSet(Parts(mail)))
      <4>1. stage \in {"crl", "ocsp", "rewrite"}
        BY <2>1, <2>5 DEF ModifyStep, ParseSigned, AddCertificates, AskNextUrl, AddCrl, AddOcspResponse, WriteModified,
             BeginRewrite, RewritePart, WriteRewritten, Finish, Fail
      <4>. QED  BY <4>1 DEF ToolsInv, ModifyTypeOK
    <3>3. Len(todo') < Len(todo) /\ Len(todo') \in Nat /\ Len(todo) \in Nat
      BY <3>1, <3>2
    <3>4. Left = Len(todo) + EntriesLeft /\ Left' = Len(todo') + EntriesLeft' /\ EntriesLeft' = EntriesLeft /\ EntriesLeft \in Nat
      <4>1. EntriesLeft' = EntriesLeft
        BY <2>2 DEF EntriesLeft
      <4>2. Left' = Len(todo') + EntriesLeft'
        BY DEF Left, EntriesLeft
      <4>. QED  BY <1>0, <4>1, <4>2, EntriesLeftIs
    <3>5. Ahead' = Ahead
      BY <1>1, <2>2, <2>5
    <3>. QED  BY <3>3, <3>4, <3>5
  <2>. QED  BY <2>4, <2>5
<1>4. ASSUME Pkcs12Step, UNCHANGED <<todo, phase, stage>>
      PROVE  Ahead' < Ahead \/ (Ahead' = Ahead /\ Left' < Left)
  <2>1. \/ Rank(StepRank, step') < Rank(StepRank, step)
        \/ step' = step /\ EntriesLeft' < EntriesLeft
    BY <1>0, <1>4, ExtractionAdvances
  <2>2. Rank(StepRank, step') < Rank(StepRank, step) => Ahead' < Ahead
    BY <1>1, <1>2, <1>4
  <2>3. step' = step => Ahead' = Ahead
    BY <1>1, <1>4
  <2>4. Left = Len(todo) + EntriesLeft /\ EntriesLeft \in Nat /\ Len(todo) \in Nat
    BY <1>0, EntriesLeftIs DEF Queued
  <2>5. Left' = Len(todo) + EntriesLeft' /\ EntriesLeft' \in Nat
    <3>1. Left' = Len(todo') + EntriesLeft'
      BY DEF Left, EntriesLeft
    <3>2. EntriesLeft' \in Nat
      BY <1>0, <1>4, Pkcs12Steps, EntriesLeftNext DEF Pkcs12Inv
    <3>. QED  BY <1>4, <3>1, <3>2
  <2>. QED  BY <2>1, <2>2, <2>3, <2>4, <2>5
<1>5. CASE Running
  <2>1. CommandStep /\ UNCHANGED modifyVars
    BY <1>5 DEF Running
  <2>2. UNCHANGED <<todo, stage>>
    BY <2>1 DEF modifyVars
  <2>3. CASE ExtractKey
    BY <1>4, <2>2, <2>3 DEF ExtractKey, callVars
  <2>4. CASE ~ExtractKey
    <3>1. \/ phase = "trust" /\ phase' \in {"eml", "exited"} /\ step' = step
          \/ phase = "eml" /\ phase' \in {"key", "run", "exited"} /\ step' = step
          \/ phase = "key" /\ phase' = "p12" /\ step' = "open"
          \/ phase = "key" /\ phase' \in {"cert", "exited"} /\ step' = step
          \/ phase = "p12" /\ phase' \in {"cert", "exited"} /\ step' = step
          \/ phase = "cert" /\ phase' \in {"run", "exited"} /\ step' = step
          \/ phase = "run" /\ phase' = "output" /\ step' = step
          \/ phase = "output" /\ phase' = "exited" /\ step' = step
      BY <2>1, <2>4 DEF CommandStep, ResolveTrust, ReadEml, ReadKey, TakeKey, GatherKeys, Run, WriteOutput,
           Stop, Exit, Extract, p12Vars
    <3>2. /\ Rank(PhaseRank, phase') < Rank(PhaseRank, phase)
          /\ Rank(StepRank, step') <= Rank(StepRank, step) + 3
      BY <3>1, Ranks
    <3>. QED  BY <1>1, <1>2, <2>2, <3>2
  <2>. QED  BY <2>3, <2>4
<1>6. CASE Extracting
  BY <1>4, <1>6 DEF Extracting, modifyVars, callVars
<1>7. ~(BeginModifyCms \/ BeginSmime \/ BeginWeb)
  <2>1. commands \in Nat
    BY <1>0, SessionsAssumption DEF Counted
  <2>. QED  BY <2>1 DEF BeginModifyCms, BeginSmime, BeginWeb, Begin
<1>. QED  BY <1>3, <1>5, <1>6, <1>7 DEF Next, Work, Over

(* No command goes on for ever or in circles: each of its steps brings its *)
(* end nearer.                                                             *)
THEOREM CommandsEnd == Spec => CommandsAdvance
<1>1. Init => Queued
  BY DEF Init, ModifyInit, Queued
<1>2. Queued /\ ToolsInv' /\ [Next]_vars => Queued'
  BY QueuedStays DEF ToolsInv
<1>3. ToolsInv /\ Queued /\ [Next]_vars => [commands' = commands => Ahead' < Ahead \/ (Ahead' = Ahead /\ Left' < Left)]_vars
  <2>. SUFFICES ASSUME ToolsInv, Queued, [Next]_vars, vars' # vars, commands' = commands
                PROVE  Ahead' < Ahead \/ (Ahead' = Ahead /\ Left' < Left)
    OBVIOUS
  <2>1. Next
    OBVIOUS
  <2>. QED  BY <2>1, Advances
<1>. QED  BY <1>1, <1>2, <1>3, Always, PTL DEF Spec, CommandsAdvance

-----------------------------------------------------------------------------
(* What modify has made of the message so far.                             *)

MimePart == FirstPart(mail, IsPkcs7Mime)
(* The stages in which a SignedData is at hand.                            *)
Adding == stage \in {"certs", "crl", "ocsp", "write"}

(* But for certificates and revocation information.                        *)
SameMessage(a, b) ==
  /\ a.form = b.form /\ a.version = b.version /\ a.keyIdentified = b.keyIdentified /\ a.signer = b.signer
  /\ a.signingTime = b.signingTime /\ a.features = b.features /\ a.payload = b.payload

(* What is added comes on top of what there was.                           *)
Grown ==
  Adding \/ Modified =>
    /\ MimePart # None /\ mail \in Mail
    /\ OriginalCms \in SignedData /\ OriginalCms.form = "DER" /\ work \in SignedData
    /\ head = FilteredHeader(MimePart.header, OriginalCms)
    /\ SameMessage(work, OriginalCms)
    /\ ToSet(OriginalCms.certs) \subseteq ToSet(work.certs)
    /\ ToSet(OriginalCms.crls) \subseteq ToSet(work.crls)

(* Of the URLs only those are still to be asked that come behind ones that *)
(* did not answer.                                                         *)
Answers(url) == MayFetch(url) /\ servers[url] # "error"
Asking(kind, path) ==
  IF path # None THEN todo = <<>> /\ fetched = DerIn(path)
  ELSE \/ todo = <<>> /\ fetched = Offered(kind, None)
       \/ /\ fetched = None
          /\ \E k \in 0 .. Len(UrlsOf(kind, subject)) :
               /\ todo = SubSeq(UrlsOf(kind, subject), k + 1, Len(UrlsOf(kind, subject)))
               /\ \A i \in 1 .. k : ~Answers(UrlsOf(kind, subject)[i])

(* What there is to be added, of what the first URL to answer sent.        *)
CrlPart == IF AddsNothing(Offered("crl", job.crlPath)) THEN <<>> ELSE <<"Crl">>
OcspPart ==
  IF ~job.ocsp \/ AddsNothing(Offered("ocsp", job.ocspPath)) THEN <<>>
  ELSE <<OcspInfo(Offered("ocsp", job.ocspPath))>>

(* How much of it has been added, stage by stage.                          *)
Gathered ==
  /\ stage = "certs" => work.certs = OriginalCms.certs
  /\ stage \in {"crl", "ocsp", "write"} =>
       /\ Junk \notin ToSet(AddedCertificates) /\ subject \in Choice
       /\ work.certs = OriginalCms.certs \o AddedCertificates
  /\ stage \in {"certs", "crl"} => work.crls = OriginalCms.crls
  /\ stage = "crl" => Asking("crl", job.crlPath)
  /\ stage = "ocsp" => work.crls = OriginalCms.crls \o CrlPart /\ Asking("ocsp", job.ocspPath)
  /\ stage = "write" => work.crls = OriginalCms.crls \o (CrlPart \o OcspPart)

(* What has been written.                                                  *)
Delivered ==
  Modified =>
    /\ disk[job.output] = Headed(head) \o Rendered(Body("base64", Encoded(work)))
    /\ job.output \notin SourcesOf(job) =>
         /\ Junk \notin ToSet(AddedCertificates)
         /\ work.certs = OriginalCms.certs \o AddedCertificates
         /\ work.crls = OriginalCms.crls \o (CrlPart \o OcspPart)

ModifyInv == Grown /\ Gathered /\ Delivered

(* A SignedData is told by its fields.                                     *)
LEMMA SameSigned ==
  ASSUME NEW a \in SignedData, NEW b \in SignedData,
         SameMessage(a, b), a.certs = b.certs, a.crls = b.crls
  PROVE  a = b
BY DEF SignedData, SameMessage

(* What the first URL to answer sends.                                     *)
LEMMA OfferedAfter ==
  ASSUME NEW kind \in {"crl", "ocsp"}, subject \in Choice, NEW k \in 0 .. Len(UrlsOf(kind, subject)),
         \A i \in 1 .. k : ~Answers(UrlsOf(kind, subject)[i])
  PROVE  /\ k = Len(UrlsOf(kind, subject)) => Offered(kind, None) = None
         /\ k < Len(UrlsOf(kind, subject)) /\ Answers(UrlsOf(kind, subject)[k + 1]) =>
              Offered(kind, None) = servers[UrlsOf(kind, subject)[k + 1]]
<1>. DEFINE urls == UrlsOf(kind, subject)
<1>. DEFINE answering == {i \in DOMAIN urls : Answers(urls[i])}
<1>1. Offered(kind, None) = IF answering = {} THEN None ELSE servers[urls[Min(answering)]]
  BY DEF Offered, Answers
<1>2. urls \in Seq(Url)
  BY UrlsType
<1>. HIDE DEF urls
<1>3. Len(urls) \in Nat /\ DOMAIN urls = 1 .. Len(urls)
  BY <1>2
<1>4. k = Len(urls) => answering = {}
  BY <1>3 DEF urls
<1>5. ASSUME k < Len(urls), Answers(urls[k + 1]) PROVE Min(answering) = k + 1
  <2>1. k + 1 \in answering /\ answering \subseteq Nat
    BY <1>3, <1>5
  <2>2. \A i \in answering : k + 1 <= i
    BY <1>3 DEF urls
  <2>. HIDE DEF answering
  <2>. QED  BY <2>1, <2>2, LeastIs
<1>6. k < Len(urls) /\ Answers(urls[k + 1]) => answering # {}
  BY <1>3
<1>. QED  BY <1>1, <1>4, <1>5, <1>6 DEF urls

(* Of a loop over URLs: none was asked yet.                                *)
LEMMA AskingBegins ==
  ASSUME NEW kind \in {"crl", "ocsp"}, NEW path, subject' \in Choice, BeginFetch(kind, path, subject'), UNCHANGED disk
  PROVE  Asking(kind, path)'
<1>1. CASE path # None
  BY <1>1 DEF BeginFetch, Asking, DerIn
<1>2. CASE path = None
  <2>. DEFINE urls == UrlsOf(kind, subject')
  <2>1. urls \in Seq(Url)
    BY UrlsType
  <2>2. todo' = urls /\ fetched' = None
    BY <1>2 DEF BeginFetch
  <2>. HIDE DEF urls
  <2>3. urls = SubSeq(urls, 1, Len(urls)) /\ 0 \in 0 .. Len(urls)
    BY <2>1
  <2>4. \E k \in 0 .. Len(urls) :
          /\ todo' = SubSeq(urls, k + 1, Len(urls))
          /\ \A i \in 1 .. k : ~(MayFetch(urls[i]) /\ servers'[urls[i]] # "error")
    BY <2>2, <2>3
  <2>5. UrlsOf(kind, subject)' = urls
    BY DEF UrlsOf, urls
  <2>. QED  BY <1>2, <2>2, <2>4, <2>5 DEF Asking, Answers, MayFetch
<1>. QED  BY <1>1, <1>2

(* One more was asked, and did not answer, or did and ends the loop.       *)
LEMMA AskingGoesOn ==
  ASSUME NEW kind \in {"crl", "ocsp"}, NEW path, subject \in Choice, Asking(kind, path), AskNextUrl
  PROVE  Asking(kind, path)'
<1>. DEFINE urls == UrlsOf(kind, subject)
<1>1. fetched = None /\ todo # <<>> /\ UNCHANGED <<job, mail, servers, work, head, subject, stage, disk>>
  BY DEF AskNextUrl
<1>2. path = None
  BY <1>1 DEF Asking
<1>3. urls \in Seq(Url)
  BY UrlsType
<1>4. PICK k \in 0 .. Len(urls) : todo = SubSeq(urls, k + 1, Len(urls)) /\ \A i \in 1 .. k : ~Answers(urls[i])
  BY <1>1, <1>2 DEF Asking
<1>5. urls' = urls
  BY <1>1 DEF UrlsOf
<1>. HIDE DEF urls
<1>6. k < Len(urls) /\ todo[1] = urls[k + 1] /\ Tail(todo) = SubSeq(urls, k + 2, Len(urls)) /\ Len(urls) \in Nat
  BY <1>1, <1>3, <1>4
<1>7. CASE Answers(todo[1])
  <2>1. todo' = <<>> /\ fetched' = servers[todo[1]]
    BY <1>7 DEF AskNextUrl, Answers
  <2>2. Offered(kind, None) = servers[urls[k + 1]]
    BY <1>4, <1>6, <1>7, OfferedAfter DEF urls
  <2>3. Offered(kind, None)' = Offered(kind, None)
    BY <1>1 DEF Offered, UrlsOf
  <2>. QED  BY <1>2, <1>6, <2>1, <2>2, <2>3 DEF Asking
<1>8. CASE ~Answers(todo[1])
  <2>1. todo' = Tail(todo) /\ fetched' = None
    BY <1>1, <1>8 DEF AskNextUrl, Answers
  <2>2. \A i \in 1 .. k + 1 : ~Answers(urls[i])
    <3>1. ~Answers(urls[k + 1]) /\ k \in Nat
      BY <1>6, <1>8
    <3>2. \A i \in 1 .. k + 1 : i \in 1 .. k \/ i = k + 1
      BY <3>1
    <3>. QED  BY <1>4, <3>1, <3>2
  <2>3. \A i \in 1 .. k + 1 : ~Answers(urls[i])'
    BY <1>1, <1>5, <2>2 DEF Answers
  <2>4. k + 1 \in 0 .. Len(urls) /\ todo' = SubSeq(urls, k + 1 + 1, Len(urls))
    BY <1>6, <2>1
  <2>5. \E n \in 0 .. Len(urls)' : todo' = SubSeq(urls', n + 1, Len(urls)') /\ \A i \in 1 .. n : ~Answers(urls[i])'
    BY <1>5, <2>3, <2>4
  <2>. QED  BY <1>2, <2>1, <2>5 DEF Asking, urls
<1>. QED  BY <1>7, <1>8

(* The loop ends with the answer of the first URL that gives one.          *)
LEMMA AskingEnds ==
  ASSUME NEW kind \in {"crl", "ocsp"}, NEW path, subject \in Choice, Asking(kind, path), Fetched
  PROVE  fetched = Offered(kind, path)
<1>1. CASE path # None
  BY <1>1 DEF Asking, Offered
<1>2. CASE path = None /\ todo = <<>> /\ fetched = Offered(kind, None)
  BY <1>2
<1>3. CASE path = None /\ fetched = None /\ ~(todo = <<>> /\ fetched = Offered(kind, None))
  <2>. DEFINE urls == UrlsOf(kind, subject)
  <2>1. urls \in Seq(Url)
    BY UrlsType
  <2>2. PICK k \in 0 .. Len(urls) : todo = SubSeq(urls, k + 1, Len(urls)) /\ \A i \in 1 .. k : ~Answers(urls[i])
    BY <1>3 DEF Asking
  <2>3. todo = <<>>
    BY <1>3 DEF Fetched
  <2>. HIDE DEF urls
  <2>4. k = Len(urls)
    <3>1. Len(urls) \in Nat /\ k \in Nat /\ k <= Len(urls)
      BY <2>1
    <3>2. Len(SubSeq(urls, k + 1, Len(urls))) = Len(urls) - k
      BY <2>1, <3>1
    <3>3. SubSeq(urls, k + 1, Len(urls)) = <<>>
      BY <2>2, <2>3
    <3>. QED  BY <3>1, <3>2, <3>3
  <2>. QED  BY <1>3, <2>2, <2>4, OfferedAfter DEF urls
<1>. QED  BY <1>1, <1>2, <1>3 DEF Asking

(* What was read does not change.                                          *)
LEMMA OriginalStays == UNCHANGED mail => UNCHANGED <<OriginalCms, MimePart>>
BY DEF OriginalCms, MimePart

(* Steps that leave the files leave what is to be added.                   *)
LEMMA SourcesStay ==
  ASSUME UNCHANGED <<disk, job, subject, servers>>
  PROVE  /\ UNCHANGED <<AddedCertificates, CrlPart, OcspPart>>
         /\ \A kind, path : UNCHANGED Offered(kind, path)
<1>1. AddedCertificates' = AddedCertificates
  BY DEF AddedCertificates, CertificateIn
<1>2. \A kind, path : Offered(kind, path)' = Offered(kind, path)
  BY DEF Offered, UrlsOf, DerIn
<1>3. CrlPart' = CrlPart
  <2>. PICK p : p = job.crlPath
    OBVIOUS
  <2>1. Offered("crl", job.crlPath)' = Offered("crl", job.crlPath)
    BY <1>2
  <2>. QED  BY <2>1 DEF CrlPart
<1>4. OcspPart' = OcspPart
  <2>1. Offered("ocsp", job.ocspPath)' = Offered("ocsp", job.ocspPath)
    BY DEF Offered, UrlsOf, DerIn
  <2>. QED  BY <2>1 DEF OcspPart
<1>. QED  BY <1>1, <1>2, <1>3, <1>4

(* Steps of others leave the loop where it was.                            *)
LEMMA AskingStays ==
  ASSUME NEW kind, NEW path, Asking(kind, path), UNCHANGED <<disk, todo, fetched, subject, servers>>
  PROVE  Asking(kind, path)'
<1>1. Offered(kind, None)' = Offered(kind, None)
  BY DEF Offered, UrlsOf, DerIn
<1>2. \A url : Answers(url)' = Answers(url)
  BY DEF Answers
<1>3. UrlsOf(kind, subject)' = UrlsOf(kind, subject)
  BY DEF UrlsOf
<1>. QED  BY <1>1, <1>2, <1>3 DEF Asking, DerIn

(* Steps that leave modify-cms leave the invariant.                        *)
LEMMA ModifyInvStays == ModifyInv /\ UNCHANGED <<disk, modifyVars>> => ModifyInv'
<1>. SUFFICES ASSUME ModifyInv, UNCHANGED <<disk, modifyVars>> PROVE ModifyInv'
  OBVIOUS
<1>1. UNCHANGED <<job, mail, servers, work, head, subject, todo, fetched, stage, disk>>
  BY DEF modifyVars
<1>2. UNCHANGED <<OriginalCms, MimePart, AddedCertificates, CrlPart, OcspPart>>
  BY <1>1, OriginalStays, SourcesStay
<1>3. Grown'
  BY <1>1, <1>2 DEF ModifyInv, Grown, Adding, Modified
<1>4. Gathered'
  <2>. PICK p, q : p = job.crlPath /\ q = job.ocspPath
    OBVIOUS
  <2>1. /\ stage = "crl" => Asking("crl", p)'
        /\ stage = "ocsp" => Asking("ocsp", q)'
    BY <1>1, AskingStays DEF ModifyInv, Gathered
  <2>2. job'.crlPath = p /\ job'.ocspPath = q
    BY <1>1
  <2>. QED  BY <1>1, <1>2, <2>1, <2>2 DEF ModifyInv, Gathered
<1>5. Delivered'
  BY <1>1, <1>2 DEF ModifyInv, Delivered, Modified
<1>. QED  BY <1>3, <1>4, <1>5 DEF ModifyInv

(* Of a failed command nothing is said.                                    *)
LEMMA FailKeepsModifyInv == ModifyTypeOK /\ Fail => ModifyInv'
BY DEF Fail, ModifyInv, Grown, Gathered, Delivered, Adding, Modified

(* What was read is what modify begins with.                               *)
LEMMA ParseSignedGrows == ModifyTypeOK /\ ParseSigned => ModifyInv'
<1>. SUFFICES ASSUME ModifyTypeOK, ParseSigned PROVE ModifyInv'
  OBVIOUS
<1>1. stage = "parse" /\ mail \in Mail
  BY DEF ParseSigned, ModifyTypeOK
<1>2. CASE Fail
  BY <1>2, FailKeepsModifyInv
<1>3. CASE /\ MimePart # None /\ OriginalCms # None /\ OriginalCms.type = "signed"
           /\ work' = OriginalCms /\ head' = FilteredHeader(MimePart.header, OriginalCms)
           /\ stage' = "certs" /\ UNCHANGED <<job, mail, servers, subject, todo, fetched, disk>>
  <2>1. Tokens(mail)
    BY <1>1, MailTokens
  <2>2. PICK i \in Heads(mail) : MimePart = PartAt(mail, i)
    BY <1>3, <2>1, FirstMime DEF MimePart
  <2>3. Contents(mail, MimePart) \in Content
    BY <2>1, <2>2, ContentsAre
  <2>4. OriginalCms = DerOfCms(Contents(mail, MimePart))
    BY DEF OriginalCms, MimePart
  <2>5. OriginalCms \in SignedData /\ OriginalCms.form = "DER"
    BY <1>3, <2>3, <2>4, DerOfContent
  <2>6. OriginalCms' = OriginalCms /\ MimePart' = MimePart
    BY <1>3, OriginalStays
  <2>7. SameMessage(OriginalCms, OriginalCms)
    BY DEF SameMessage
  <2>8. Grown'
    <3>1. ToSet(OriginalCms.certs) \subseteq ToSet(OriginalCms.certs) /\ ToSet(OriginalCms.crls) \subseteq ToSet(OriginalCms.crls)
      OBVIOUS
    <3>. QED  BY <1>1, <1>3, <2>5, <2>6, <2>7, <3>1 DEF Grown
  <2>9. Gathered' /\ Delivered'
    BY <1>3, <2>6 DEF Gathered, Delivered, Modified
  <2>. QED  BY <2>8, <2>9 DEF ModifyInv
<1>. QED  BY <1>2, <1>3 DEF ParseSigned, OriginalCms, MimePart

(* What is in a sequence is in it when others have been appended.          *)
LEMMA Appended ==
  ASSUME NEW S, NEW a \in Seq(S), NEW b \in Seq(S)
  PROVE  ToSet(a) \subseteq ToSet(a \o b) /\ ToSet(a \o b) = ToSet(a) \union ToSet(b)
<1>1. /\ Len(a) \in Nat /\ Len(b) \in Nat /\ DOMAIN a = 1 .. Len(a) /\ DOMAIN b = 1 .. Len(b)
      /\ DOMAIN (a \o b) = 1 .. Len(a) + Len(b)
      /\ \A i \in 1 .. Len(a) + Len(b) : (a \o b)[i] = IF i <= Len(a) THEN a[i] ELSE b[i - Len(a)]
  OBVIOUS
<1>2. \A x : x \in ToSet(a \o b) <=> \E i \in 1 .. Len(a) + Len(b) : x = (a \o b)[i]
  BY <1>1 DEF ToSet
<1>3. \A x : (x \in ToSet(a) <=> \E i \in 1 .. Len(a) : x = a[i]) /\ (x \in ToSet(b) <=> \E i \in 1 .. Len(b) : x = b[i])
  BY <1>1 DEF ToSet
<1>4. \A x : x \in ToSet(a) => x \in ToSet(a \o b)
  BY <1>1, <1>2, <1>3
<1>5. \A x : x \in ToSet(b) => x \in ToSet(a \o b)
  <2>. SUFFICES ASSUME NEW i \in 1 .. Len(b) PROVE b[i] \in ToSet(a \o b)
    BY <1>3
  <2>1. i + Len(a) \in 1 .. Len(a) + Len(b) /\ (a \o b)[i + Len(a)] = b[i]
    BY <1>1
  <2>. QED  BY <1>2, <2>1
<1>6. \A x : x \in ToSet(a \o b) => x \in ToSet(a) \/ x \in ToSet(b)
  <2>. SUFFICES ASSUME NEW i \in 1 .. Len(a) + Len(b) PROVE (a \o b)[i] \in ToSet(a) \/ (a \o b)[i] \in ToSet(b)
    BY <1>2
  <2>1. CASE i <= Len(a)
    BY <1>1, <1>3, <2>1
  <2>2. CASE i > Len(a)
    <3>1. i - Len(a) \in 1 .. Len(b) /\ (a \o b)[i] = b[i - Len(a)]
      BY <1>1, <2>2
    <3>. QED  BY <1>3, <3>1
  <2>. QED  BY <1>1, <2>1, <2>2
<1>. QED  BY <1>4, <1>5, <1>6

(* The certificates are added, and the CRL's URLs are next.                *)
LEMMA AddCertificatesGrows == ModifyTypeOK /\ ModifyInv /\ AddCertificates => ModifyInv'
<1>. SUFFICES ASSUME ModifyTypeOK, ModifyInv, AddCertificates PROVE ModifyInv'
  OBVIOUS
<1>. DEFINE certs == work.certs \o AddedCertificates
<1>1. CASE Fail
  BY <1>1, FailKeepsModifyInv
<1>2. CASE /\ stage = "certs" /\ Junk \notin ToSet(AddedCertificates)
           /\ work' = [work EXCEPT !.certs = certs] /\ subject' = certs[1]
           /\ BeginFetch("crl", job.crlPath, certs[1]) /\ stage' = "crl"
           /\ UNCHANGED <<job, mail, servers, head, disk>>
  <2>1. /\ MimePart # None /\ mail \in Mail
        /\ OriginalCms \in SignedData /\ OriginalCms.form = "DER" /\ work \in SignedData
        /\ head = FilteredHeader(MimePart.header, OriginalCms)
        /\ SameMessage(work, OriginalCms)
        /\ ToSet(OriginalCms.crls) \subseteq ToSet(work.crls)
        /\ work.certs = OriginalCms.certs /\ work.crls = OriginalCms.crls
    BY <1>2 DEF ModifyInv, Grown, Gathered, Adding
  <2>2. OriginalCms' = OriginalCms /\ MimePart' = MimePart
    BY <1>2, OriginalStays
  <2>3. AddedCertificates \in Seq(Choice) /\ work.certs \in Seq(Choice) /\ AddedCertificates' = AddedCertificates
    <3>1. AddedCertificates' = AddedCertificates
      BY <1>2 DEF AddedCertificates, CertificateIn
    <3>2. AddedCertificates \in Seq(Choice)
      BY <1>2, AddedTypes
    <3>3. work.certs \in Seq(Choice)
      BY <2>1, SignedDataFields
    <3>. QED  BY <3>1, <3>2, <3>3
  <2>4. certs \in Seq(Choice) /\ certs[1] \in Choice /\ ToSet(work.certs) \subseteq ToSet(certs)
    <3>1. AddedCertificates # <<>>
      BY <1>2, AddedTypes
    <3>. PICK a, b : a = work.certs /\ b = AddedCertificates
      OBVIOUS
    <3>2. a \in Seq(Choice) /\ b \in Seq(Choice) /\ b # <<>> /\ certs = a \o b
      BY <2>3, <3>1
    <3>. HIDE DEF certs
    <3>3. certs \in Seq(Choice) /\ certs[1] \in Choice
      BY <3>2
    <3>4. ToSet(a) \subseteq ToSet(certs)
      BY <3>2, Appended
    <3>. QED  BY <3>3, <3>4
  <2>5. certs = OriginalCms.certs \o AddedCertificates'
    BY <2>1, <2>3
  <2>6. subject' \in Choice /\ BeginFetch("crl", job.crlPath, subject')
    BY <1>2, <2>4
  <2>7. Asking("crl", job.crlPath)'
    <3>. PICK p : p = job.crlPath
      OBVIOUS
    <3>1. Asking("crl", p)'
      BY <1>2, <2>6, AskingBegins
    <3>2. job'.crlPath = p
      BY <1>2
    <3>. QED  BY <3>1, <3>2
  <2>. HIDE DEF certs
  <2>8. work' \in SignedData /\ work'.certs = certs /\ work'.crls = work.crls
    BY <1>2, <2>1, <2>4 DEF SignedData
  <2>9. SameMessage(work', OriginalCms)
    BY <1>2, <2>1 DEF SameMessage, SignedData
  <2>10. Grown'
    BY <1>2, <2>1, <2>2, <2>4, <2>8, <2>9 DEF Grown
  <2>11. Gathered'
    BY <1>2, <2>1, <2>2, <2>3, <2>5, <2>6, <2>7, <2>8 DEF Gathered
  <2>12. Delivered'
    BY <1>2 DEF Delivered, Modified
  <2>. QED  BY <2>10, <2>11, <2>12 DEF ModifyInv
<1>. QED  BY <1>1, <1>2 DEF AddCertificates

(* A turn of either loop over URLs.                                        *)
LEMMA AskNextUrlGrows == ModifyTypeOK /\ ModifyInv /\ AskNextUrl => ModifyInv'
<1>. SUFFICES ASSUME ModifyTypeOK, ModifyInv, AskNextUrl PROVE ModifyInv'
  OBVIOUS
<1>1. stage \in {"crl", "ocsp"} /\ UNCHANGED <<job, mail, servers, work, head, subject, stage, disk>>
  BY DEF AskNextUrl
<1>2. UNCHANGED <<OriginalCms, MimePart, AddedCertificates, CrlPart, OcspPart>>
  BY <1>1, OriginalStays, SourcesStay
<1>3. Grown' /\ Delivered'
  BY <1>1, <1>2 DEF ModifyInv, Grown, Adding, Modified, Delivered
<1>4. Gathered'
  <2>. PICK p, q : p = job.crlPath /\ q = job.ocspPath
    OBVIOUS
  <2>1. subject \in Choice
    BY <1>1 DEF ModifyInv, Gathered
  <2>2. /\ stage = "crl" => Asking("crl", p)'
        /\ stage = "ocsp" => Asking("ocsp", q)'
    BY <2>1, AskingGoesOn DEF ModifyInv, Gathered
  <2>3. job'.crlPath = p /\ job'.ocspPath = q
    BY <1>1
  <2>. QED  BY <1>1, <1>2, <2>2, <2>3 DEF ModifyInv, Gathered
<1>. QED  BY <1>3, <1>4 DEF ModifyInv

(* Adding a revocation information appends it and leaves the rest.         *)
LEMMA AddedIs ==
  ASSUME NEW cms \in SignedData, NEW choice \in RevocationInfo
  PROVE  /\ Added(cms, choice) \in SignedData /\ SameMessage(Added(cms, choice), cms)
         /\ Added(cms, choice).certs = cms.certs /\ Added(cms, choice).crls = cms.crls \o <<choice>>
<1>1. Added(cms, choice) \in SignedData
  BY AddedType
<1>2. Added(cms, choice).crls = cms.crls \o <<choice>> /\ Added(cms, choice).certs = cms.certs
  BY DEF Added, SignedData
<1>3. SameMessage(Added(cms, choice), cms)
  BY DEF Added, SignedData, SameMessage
<1>. QED  BY <1>1, <1>2, <1>3

(* A step that adds what there was to be added, and nothing else.          *)
LEMMA GrownBy ==
  ASSUME ModifyTypeOK, Grown, Adding, UNCHANGED <<mail, head, job>>, NEW more \in Seq(RevocationInfo),
         work' \in SignedData, SameMessage(work', work), work'.certs = work.certs, work'.crls = work.crls \o more
  PROVE  Grown'
<1>1. OriginalCms' = OriginalCms /\ MimePart' = MimePart
  BY OriginalStays
<1>2. /\ MimePart # None /\ mail \in Mail
      /\ OriginalCms \in SignedData /\ OriginalCms.form = "DER" /\ work \in SignedData
      /\ head = FilteredHeader(MimePart.header, OriginalCms)
      /\ SameMessage(work, OriginalCms)
      /\ ToSet(OriginalCms.certs) \subseteq ToSet(work.certs)
      /\ ToSet(OriginalCms.crls) \subseteq ToSet(work.crls)
  BY DEF Grown
<1>3. SameMessage(work', OriginalCms)
  BY <1>2 DEF SameMessage
<1>4. work.crls \in Seq(RevocationInfo)
  BY <1>2, SignedDataFields
<1>5. ToSet(work.crls) \subseteq ToSet(work.crls \o more)
  <2>. PICK a : a = work.crls
    OBVIOUS
  <2>. QED  BY <1>4, Appended
<1>. QED  BY <1>1, <1>2, <1>3, <1>5 DEF Grown

(* What was fetched and is no Junk is something that can be added.         *)
LEMMA ChoiceOf ==
  ASSUME NEW f \in Sent \union {None}, f # Junk, ~AddsNothing(f)
  PROVE  OcspInfo(f) \in RevocationInfo
<1>1. f \in {"Crl", "OcspGood", "OcspRevoked", "OtherInfo"}
  BY DEF Sent, AddsNothing, RevocationInfo, OtherRevocationInfo
<1>. QED  BY <1>1 DEF OcspInfo, RevocationInfo, OtherRevocationInfo

(* First the CRL, then the OCSP response.                                  *)
LEMMA CrlsAssociate ==
  \A a, b, c \in Seq(RevocationInfo) : (a \o b) \o c = a \o (b \o c)
OBVIOUS

(* The CRL is a revocation information.                                    *)
LEMMA CrlType == CrlPart \in Seq(RevocationInfo) /\ "Crl" \in RevocationInfo
<1>1. "Crl" \in RevocationInfo
  BY DEF RevocationInfo
<1>2. <<"Crl">> \in Seq(RevocationInfo) /\ <<>> \in Seq(RevocationInfo)
  BY <1>1
<1>. QED  BY <1>1, <1>2 DEF CrlPart

(* The CRL is added, if there is one; then the OCSP response is next.      *)
LEMMA AddCrlGrows == ModifyTypeOK /\ ModifyInv /\ AddCrl => ModifyInv'
<1>. SUFFICES ASSUME ModifyTypeOK, ModifyInv, AddCrl PROVE ModifyInv'
  OBVIOUS
<1>1. CASE Fail
  BY <1>1, FailKeepsModifyInv
<1>2. CASE /\ work' = IF AddsNothing(fetched) THEN work ELSE Added(work, "Crl")
           /\ IF job.ocsp THEN stage' = "ocsp" /\ BeginFetch("ocsp", job.ocspPath, subject)
                          ELSE stage' = "write" /\ UNCHANGED <<todo, fetched>>
           /\ UNCHANGED <<job, mail, servers, head, subject, disk>>
  <2>1. stage = "crl" /\ Fetched /\ subject \in Choice /\ work \in SignedData
    BY DEF AddCrl, ModifyTypeOK
  <2>2. UNCHANGED <<OriginalCms, MimePart, AddedCertificates, CrlPart, OcspPart>>
    BY <1>2, OriginalStays, SourcesStay
  <2>3. /\ Junk \notin ToSet(AddedCertificates)
        /\ work.certs = OriginalCms.certs \o AddedCertificates
        /\ work.crls = OriginalCms.crls /\ Asking("crl", job.crlPath)
    BY <2>1 DEF ModifyInv, Gathered
  <2>4. fetched = Offered("crl", job.crlPath)
    <3>. PICK p : p = job.crlPath
      OBVIOUS
    <3>. QED  BY <2>1, <2>3, AskingEnds
  <2>5. CrlPart = IF AddsNothing(fetched) THEN <<>> ELSE <<"Crl">>
    BY <2>4 DEF CrlPart
  <2>6. work.crls \in Seq(RevocationInfo)
    BY <2>1, SignedDataFields
  <2>7. /\ work' \in SignedData /\ SameMessage(work', work) /\ work'.certs = work.certs
        /\ work'.crls = work.crls \o CrlPart
    <3>1. CASE AddsNothing(fetched)
      BY <1>2, <2>1, <2>5, <2>6, <3>1 DEF SameMessage
    <3>2. CASE ~AddsNothing(fetched)
      BY <1>2, <2>1, <2>5, <3>2, AddedIs, CrlType
    <3>. QED  BY <3>1, <3>2
  <2>8. CrlPart \in Seq(RevocationInfo)
    BY CrlType
  <2>9. Grown'
    BY <1>2, <2>1, <2>7, <2>8, GrownBy DEF ModifyInv, Adding
  <2>10. CASE job.ocsp
    <3>1. stage' = "ocsp" /\ BeginFetch("ocsp", job.ocspPath, subject')
      BY <1>2, <2>10
    <3>2. Asking("ocsp", job.ocspPath)'
      <4>. PICK p : p = job.ocspPath
        OBVIOUS
      <4>1. Asking("ocsp", p)'
        BY <1>2, <2>1, <3>1, AskingBegins
      <4>2. job'.ocspPath = p
        BY <1>2
      <4>. QED  BY <4>1, <4>2
    <3>3. Gathered' /\ Delivered'
      BY <1>2, <2>1, <2>2, <2>3, <2>7, <3>1, <3>2 DEF Gathered, Delivered, Modified
    <3>. QED  BY <2>9, <3>3 DEF ModifyInv
  <2>11. CASE ~job.ocsp
    <3>1. stage' = "write"
      BY <1>2, <2>11
    <3>2. OcspPart = <<>>
      BY <2>11 DEF OcspPart
    <3>3. work'.crls = work.crls \o (CrlPart \o OcspPart)
      BY <2>7, <2>8, <3>2
    <3>4. Gathered' /\ Delivered'
      BY <1>2, <2>1, <2>2, <2>3, <2>7, <3>1, <3>3 DEF Gathered, Delivered, Modified
    <3>. QED  BY <2>9, <3>4 DEF ModifyInv
  <2>. QED  BY <2>10, <2>11
<1>. QED  BY <1>1, <1>2 DEF AddCrl

(* The OCSP response is added, if there is one.                            *)
LEMMA AddOcspResponseGrows == ModifyTypeOK /\ ModifyInv /\ AddOcspResponse => ModifyInv'
<1>. SUFFICES ASSUME ModifyTypeOK, ModifyInv, AddOcspResponse PROVE ModifyInv'
  OBVIOUS
<1>1. CASE Fail
  BY <1>1, FailKeepsModifyInv
<1>2. CASE /\ fetched # Junk
           /\ work' = IF AddsNothing(fetched) THEN work ELSE Added(work, OcspInfo(fetched))
           /\ stage' = "write"
           /\ UNCHANGED <<job, mail, servers, head, subject, todo, fetched, disk>>
  <2>1. stage = "ocsp" /\ Fetched /\ subject \in Choice /\ work \in SignedData /\ job.ocsp
    BY DEF AddOcspResponse, ModifyTypeOK
  <2>2. UNCHANGED <<OriginalCms, MimePart, AddedCertificates, CrlPart, OcspPart>>
    BY <1>2, OriginalStays, SourcesStay
  <2>3. /\ Junk \notin ToSet(AddedCertificates)
        /\ work.certs = OriginalCms.certs \o AddedCertificates
        /\ work.crls = OriginalCms.crls \o CrlPart /\ Asking("ocsp", job.ocspPath)
    BY <2>1 DEF ModifyInv, Gathered
  <2>4. fetched = Offered("ocsp", job.ocspPath)
    <3>. PICK p : p = job.ocspPath
      OBVIOUS
    <3>. QED  BY <2>1, <2>3, AskingEnds
  <2>5. OcspPart = IF AddsNothing(fetched) THEN <<>> ELSE <<OcspInfo(fetched)>>
    BY <2>1, <2>4 DEF OcspPart
  <2>6. work.crls \in Seq(RevocationInfo)
    BY <2>1, SignedDataFields
  <2>7. ~AddsNothing(fetched) => OcspInfo(fetched) \in RevocationInfo
    <3>1. fetched \in Sent \union {None}
      BY <2>1 DEF ModifyTypeOK
    <3>. QED  BY <1>2, <3>1, ChoiceOf
  <2>8. /\ work' \in SignedData /\ SameMessage(work', work) /\ work'.certs = work.certs
        /\ work'.crls = work.crls \o OcspPart
    <3>1. CASE AddsNothing(fetched)
      BY <1>2, <2>1, <2>5, <2>6, <3>1 DEF SameMessage
    <3>2. CASE ~AddsNothing(fetched)
      <4>. PICK choice : choice = OcspInfo(fetched)
        OBVIOUS
      <4>1. choice \in RevocationInfo /\ work' = Added(work, choice) /\ OcspPart = <<choice>>
        BY <1>2, <2>5, <2>7, <3>2
      <4>. QED  BY <2>1, <4>1, AddedIs
    <3>. QED  BY <3>1, <3>2
  <2>9. OcspPart \in Seq(RevocationInfo) /\ CrlPart \in Seq(RevocationInfo)
    <3>. PICK choice : choice = OcspInfo(fetched)
      OBVIOUS
    <3>1. OcspPart = <<>> \/ (choice \in RevocationInfo /\ OcspPart = <<choice>>)
      BY <2>5, <2>7
    <3>2. <<>> \in Seq(RevocationInfo) /\ (choice \in RevocationInfo => <<choice>> \in Seq(RevocationInfo))
      OBVIOUS
    <3>. QED  BY <3>1, <3>2, CrlType
  <2>10. Grown'
    BY <1>2, <2>1, <2>8, <2>9, GrownBy DEF ModifyInv, Adding
  <2>11. work'.crls = OriginalCms.crls \o (CrlPart \o OcspPart)
    <3>1. OriginalCms.crls \in Seq(RevocationInfo)
      <4>1. OriginalCms \in SignedData
        BY <2>1 DEF ModifyInv, Grown, Adding
      <4>. QED  BY <4>1, SignedDataFields
    <3>. PICK a, b, c : a = OriginalCms.crls /\ b = CrlPart /\ c = OcspPart
      OBVIOUS
    <3>3. a \in Seq(RevocationInfo) /\ b \in Seq(RevocationInfo) /\ c \in Seq(RevocationInfo)
      BY <2>9, <3>1
    <3>2. (a \o b) \o c = a \o (b \o c)
      BY <3>3, CrlsAssociate, ZenonT(60)
    <3>. QED  BY <2>3, <2>8, <3>2
  <2>12. Gathered' /\ Delivered'
    BY <1>2, <2>1, <2>2, <2>3, <2>8, <2>11 DEF Gathered, Delivered, Modified
  <2>. QED  BY <2>10, <2>12 DEF ModifyInv
<1>. QED  BY <1>1, <1>2 DEF AddOcspResponse

(* The file that is written holds all that was gathered.                   *)
LEMMA WriteModifiedDelivers == ModifyTypeOK /\ Disk /\ ModifyInv /\ WriteModified => ModifyInv'
<1>. SUFFICES ASSUME ModifyTypeOK, Disk, ModifyInv, WriteModified PROVE ModifyInv'
  OBVIOUS
<1>. DEFINE content == Headed(head) \o Rendered(Body("base64", Encoded(work)))
<1>1. stage = "write" /\ job.tool = "modify" /\ job \in ModifyCall /\ Finish(content)
  BY DEF WriteModified, ModifyTypeOK
<1>. HIDE DEF content
<1>2. CASE Fail
  BY <1>2, FailKeepsModifyInv
<1>3. CASE /\ Written(job.output, content) /\ stage' = "ok"
           /\ UNCHANGED <<job, mail, servers, work, head, subject, todo, fetched>>
  <2>1. job.output \in DOMAIN disk
    BY <1>1 DEF ModifyCall, Disk
  <2>2. disk'[job.output] = content /\ \A p : p # job.output /\ p \in DOMAIN disk => disk'[p] = disk[p]
    BY <1>3, <2>1 DEF Written
  <2>3. Grown'
    BY <1>1, <1>3, OriginalStays DEF ModifyInv, Grown, Adding, Modified
  <2>4. Gathered'
    BY <1>3 DEF Gathered
  <2>5. ASSUME job.output \notin SourcesOf(job)
        PROVE  UNCHANGED <<AddedCertificates, CrlPart, OcspPart>>
    <3>1. /\ job.cert \in DOMAIN disk /\ job.certPath \in DOMAIN disk \union {None}
          /\ job.crlPath \in DOMAIN disk \union {None} /\ job.ocspPath \in DOMAIN disk \union {None}
      BY <1>1 DEF ModifyCall, Disk
    <3>2. /\ disk'[job.cert] = disk[job.cert]
          /\ job.certPath # None => disk'[job.certPath] = disk[job.certPath]
          /\ job.crlPath # None => disk'[job.crlPath] = disk[job.crlPath]
          /\ job.ocspPath # None => disk'[job.ocspPath] = disk[job.ocspPath]
      BY <2>2, <2>5, <3>1 DEF SourcesOf
    <3>3. AddedCertificates' = AddedCertificates
      BY <1>3, <3>2 DEF AddedCertificates, CertificateIn
    <3>4. Offered("crl", job.crlPath)' = Offered("crl", job.crlPath)
      BY <1>3, <3>2 DEF Offered, UrlsOf, DerIn
    <3>5. Offered("ocsp", job.ocspPath)' = Offered("ocsp", job.ocspPath)
      BY <1>3, <3>2 DEF Offered, UrlsOf, DerIn
    <3>6. CrlPart' = CrlPart
      BY <3>4 DEF CrlPart
    <3>7. OcspPart' = OcspPart
      BY <1>3, <3>5 DEF OcspPart
    <3>. QED  BY <3>3, <3>6, <3>7
  <2>6. OriginalCms' = OriginalCms
    BY <1>3, OriginalStays
  <2>7. content' = content
    BY <1>3 DEF content
  <2>8. disk[job.output]' = Headed(head') \o Rendered(Body("base64", Encoded(work')))
    BY <1>3, <2>2, <2>7 DEF content
  <2>9. ASSUME job.output \notin SourcesOf(job)
        PROVE  /\ Junk \notin ToSet(AddedCertificates)'
               /\ work'.certs = OriginalCms' .certs \o AddedCertificates'
               /\ work'.crls = OriginalCms' .crls \o (CrlPart' \o OcspPart')
    BY <1>1, <1>3, <2>5, <2>6, <2>9 DEF ModifyInv, Gathered
  <2>10. Delivered'
    BY <1>3, <2>8, <2>9 DEF Delivered
  <2>. QED  BY <2>3, <2>4, <2>10 DEF ModifyInv
<1>. QED  BY <1>1, <1>2, <1>3 DEF Finish

(* Of the other tool, and before and after it, nothing is said.            *)
LEMMA ElsewhereModifyInv ==
  ASSUME ModifyTypeOK, ~Adding', ~Modified'
  PROVE  ModifyInv'
BY DEF ModifyInv, Grown, Gathered, Delivered, Adding

(* Every step of every program keeps the invariant.                        *)
LEMMA ModifyInvSteps == ToolsInv /\ ModifyInv /\ [Next]_vars => ModifyInv'
<1>. SUFFICES ASSUME ToolsInv, ModifyInv, [Next]_vars PROVE ModifyInv'
  OBVIOUS
<1>0. ModifyTypeOK /\ Disk
  BY DEF ToolsInv, Counted
<1>1. CASE Modifying
  <2>1. CASE stage' \in {"rewrite", "failed"}
    BY <1>0, <2>1, ElsewhereModifyInv DEF Adding, Modified
  <2>2. CASE BeginRewrite
    BY <1>0, <2>1, <2>2 DEF BeginRewrite, Fail
  <2>3. CASE RewritePart
    BY <1>0, <2>1, <2>3 DEF RewritePart, Fail
  <2>4. CASE WriteRewritten
    <3>1. stage = "rewrite" /\ Finish(work) /\ job' = job
      BY <2>4 DEF WriteRewritten, Finish, Fail
    <3>2. job.tool = "ber-to-der"
      BY <1>0, <3>1 DEF ModifyTypeOK
    <3>3. stage' \in {"ok", "failed"}
      BY <3>1 DEF Finish, Fail
    <3>. QED  BY <1>0, <3>1, <3>2, <3>3, ElsewhereModifyInv DEF Adding, Modified
  <2>. QED
    BY <1>0, <1>1, <2>2, <2>3, <2>4, ParseSignedGrows, AddCertificatesGrows, AskNextUrlGrows, AddCrlGrows,
       AddOcspResponseGrows, WriteModifiedDelivers DEF Modifying, ModifyStep
<1>2. CASE Running
  <2>1. phase \notin {"idle", "exited"} /\ UNCHANGED modifyVars
    BY <1>2 DEF Running, CommandStep, ResolveTrust, ReadEml, ReadKey, ExtractKey, TakeKey, GatherKeys, Run, WriteOutput
  <2>2. stage' = "idle"
    BY <2>1 DEF ToolsInv, OneAtATime, modifyVars
  <2>. QED  BY <1>0, <2>2, ElsewhereModifyInv DEF Adding, Modified
<1>3. CASE BeginModifyCms
  BY <1>0, <1>3, ElsewhereModifyInv DEF BeginModifyCms, StartModifyCms, Adding, Modified
<1>4. CASE BeginSmime
  BY <1>0, <1>4, ElsewhereModifyInv DEF BeginSmime, Adding, Modified
<1>5. CASE BeginWeb \/ Extracting \/ UNCHANGED vars
  BY <1>5, ModifyInvStays DEF BeginWeb, Extracting, vars
<1>. QED  BY <1>1, <1>2, <1>3, <1>4, <1>5 DEF Next, Work, Over

-----------------------------------------------------------------------------
(* What modify writes.                                                     *)

(* The maximum of a version and 1.                                         *)
LEMMA LargerIs == \A v \in Nat : v >= 1 => Max({v, 1}) = v
<1>. SUFFICES ASSUME NEW v \in Nat, v >= 1 PROVE Max({v, 1}) = v
  OBVIOUS
<1>1. v \in {v, 1} /\ \A y \in {v, 1} : v >= y
  OBVIOUS
<1>2. Max({v, 1}) \in {v, 1} /\ \A y \in {v, 1} : Max({v, 1}) >= y
  BY <1>1 DEF Max
<1>. DEFINE m == Max({v, 1})
<1>3. m \in {v, 1} /\ m >= v
  BY <1>2
<1>. HIDE DEF m
<1>4. m = v
  BY <1>3
<1>. QED  BY <1>4 DEF m

(* Encoding permutes the certificates, and leaves the rest but the         *)
(* version.                                                                *)
LEMMA EncodedIs ==
  ASSUME NEW cms \in SignedData
  PROVE  /\ Encoded(cms) \in SignedData
         /\ Encoded(cms).version = NewVersion(cms) /\ Encoded(cms).certs = InDer(cms.certs)
         /\ Encoded(cms).crls = cms.crls /\ Encoded(cms).form = cms.form
         /\ Encoded(cms).keyIdentified = cms.keyIdentified /\ Encoded(cms).signer = cms.signer
         /\ Encoded(cms).signingTime = cms.signingTime /\ Encoded(cms).features = cms.features
         /\ Encoded(cms).payload = cms.payload
         /\ ToSet(Encoded(cms).certs) = ToSet(cms.certs)
<1>1. cms.certs \in Seq(Choice) /\ cms.version \in Nat
  BY SignedDataFields
<1>2. InDer(cms.certs) \in Seq(Choice) /\ ToSet(InDer(cms.certs)) = ToSet(cms.certs)
  BY <1>1, InDerSorts
<1>3. NewVersion(cms) \in Nat
  <2>1. CASE cms.version >= 1
    BY <1>1, <2>1, LargerIs DEF NewVersion
  <2>2. CASE cms.version = 0
    <3>1. 1 \in {0, 1} /\ \A y \in {0, 1} : 1 >= y
      OBVIOUS
    <3>2. Max({0, 1}) \in {0, 1}
      BY <3>1 DEF Max
    <3>. QED  BY <2>2, <3>2 DEF NewVersion
  <2>. QED  BY <1>1, <2>1, <2>2
<1>. DEFINE sorted == InDer(cms.certs)
<1>. DEFINE version == NewVersion(cms)
<1>. DEFINE with1 == [cms EXCEPT !.version = version]
<1>. DEFINE with2 == [with1 EXCEPT !.certs = sorted]
<1>4. Encoded(cms) = with2
  BY DEF Encoded, SignedData
<1>5. sorted \in Seq(Choice) /\ version \in Nat
  BY <1>2, <1>3
<1>6. ToSet(sorted) = ToSet(cms.certs)
  BY <1>2
<1>. HIDE DEF sorted, version
<1>7. with1 \in SignedData
  BY <1>5 DEF SignedData
<1>8. with2 \in SignedData
  <2>. HIDE DEF with1
  <2>. QED  BY <1>5, <1>7 DEF SignedData
<1>9. /\ with2.version = version /\ with2.certs = sorted /\ with2.crls = cms.crls /\ with2.form = cms.form
      /\ with2.keyIdentified = cms.keyIdentified /\ with2.signer = cms.signer
      /\ with2.signingTime = cms.signingTime /\ with2.features = cms.features /\ with2.payload = cms.payload
  BY DEF SignedData
<1>. HIDE DEF with2
<1>. QED  BY <1>4, <1>6, <1>8, <1>9 DEF sorted, version

(* Whatever certificates and revocation information a conformant message   *)
(* is given, it has the version that RFC 5652 asks for when encoded.       *)
LEMMA NewVersionFits ==
  ASSUME NEW o \in SignedData, NEW w \in SignedData, SameMessage(w, o), Conformant(o),
         ToSet(o.certs) \subseteq ToSet(w.certs), ToSet(o.crls) \subseteq ToSet(w.crls)
  PROVE  NewVersion(w) = SignedDataVersion(Features(w), w.keyIdentified)
<1>. DEFINE F == Features(o)
<1>. DEFINE G == Features(w)
<1>1. o.features = w.features /\ w.features \subseteq {"OtherContent"} /\ o.version \in Nat
      /\ w.keyIdentified = o.keyIdentified /\ w.version = o.version
  BY SignedDataFields DEF SameMessage
<1>2. CertificateKinds(o) \subseteq CertificateKinds(w)
  BY DEF CertificateKinds
<1>3. HasOtherCrl(o) => HasOtherCrl(w)
  BY DEF HasOtherCrl
<1>4. CertificateKinds(w) \subseteq {"Certificate", "V1AttrCert", "V2AttrCert", "OtherCertificate"}
  <2>1. w.certs \in Seq(Choice)
    BY SignedDataFields
  <2>2. \A c \in ToSet(w.certs) : c \in Choice
    BY <2>1 DEF ToSet
  <2>. QED  BY <2>2 DEF CertificateKinds, Choice
<1>5. F \subseteq G
  BY <1>1, <1>2, <1>3 DEF Features
<1>6. /\ "OtherCertificate" \in G <=> "OtherCertificate" \in CertificateKinds(w)
      /\ "OtherCrl" \in G <=> HasOtherCrl(w)
      /\ "V2AttrCert" \in G <=> "V2AttrCert" \in CertificateKinds(w)
      /\ "V1AttrCert" \in G <=> "V1AttrCert" \in CertificateKinds(w)
      /\ "OtherContent" \in G <=> "OtherContent" \in F
  BY <1>1, <1>2, <1>4 DEF Features
<1>7. o.version = SignedDataVersion(F, o.keyIdentified)
  BY DEF Conformant
<1>. HIDE DEF F, G
<1>8. /\ NewVersion(w) = IF "OtherCertificate" \in G \/ "OtherCrl" \in G THEN 5
                         ELSE IF "V2AttrCert" \in G THEN 4
                         ELSE IF "V1AttrCert" \in G THEN 3
                         ELSE Max({o.version, 1})
  BY <1>1, <1>6 DEF NewVersion
<1>9. ASSUME "OtherCertificate" \notin G, "OtherCrl" \notin G, "V2AttrCert" \notin G, "V1AttrCert" \notin G
      PROVE  Max({o.version, 1}) = SignedDataVersion(G, w.keyIdentified)
  <2>1. o.version = IF "OtherContent" \in F \/ o.keyIdentified THEN 3 ELSE 1
    BY <1>5, <1>7, <1>9 DEF SignedDataVersion
  <2>2. Max({o.version, 1}) = o.version
    BY <2>1, LargerIs
  <2>3. SignedDataVersion(G, w.keyIdentified) = IF "OtherContent" \in F \/ o.keyIdentified THEN 3 ELSE 1
    BY <1>1, <1>6, <1>9 DEF SignedDataVersion
  <2>. QED  BY <2>1, <2>2, <2>3
<1>10. SignedDataVersion(G, w.keyIdentified) =
         IF "OtherCertificate" \in G \/ "OtherCrl" \in G THEN 5
         ELSE IF "V2AttrCert" \in G THEN 4
         ELSE IF "V1AttrCert" \in G THEN 3
         ELSE SignedDataVersion(G, w.keyIdentified)
  BY DEF SignedDataVersion
<1>11. NewVersion(w) = SignedDataVersion(G, w.keyIdentified)
  BY <1>8, <1>9, <1>10
<1>. QED  BY <1>11 DEF G

(* The features do not depend on the order of certificates.                *)
LEMMA SameFeatures ==
  ASSUME NEW a, NEW b, ToSet(a.certs) = ToSet(b.certs), a.crls = b.crls, a.features = b.features
  PROVE  Features(a) = Features(b)
BY DEF Features, CertificateKinds, HasOtherCrl

(* What is encoded has the version it should have.                         *)
LEMMA EncodedConforms ==
  ASSUME NEW o \in SignedData, NEW w \in SignedData, SameMessage(w, o), Conformant(o),
         ToSet(o.certs) \subseteq ToSet(w.certs), ToSet(o.crls) \subseteq ToSet(w.crls)
  PROVE  Conformant(Encoded(w))
<1>1. NewVersion(w) = SignedDataVersion(Features(w), w.keyIdentified)
  BY NewVersionFits
<1>2. Features(Encoded(w)) = Features(w)
  BY EncodedIs, SameFeatures
<1>. QED  BY <1>1, <1>2, EncodedIs DEF Conformant

(* A header, and the tokens behind it.                                     *)
LEMMA Prepended ==
  ASSUME NEW S, NEW h \in S, NEW r \in Seq(S)
  PROVE  LET m == <<h>> \o r IN
         /\ m \in Seq(S) /\ Len(m) = 1 + Len(r) /\ m[1] = h
         /\ \A i \in 2 .. 1 + Len(r) : m[i] = r[i - 1]
         /\ SubSeq(m, 2, Len(m)) = r
<1>. DEFINE m == <<h>> \o r
<1>1. m \in Seq(S) /\ Len(m) = 1 + Len(r) /\ m[1] = h
  OBVIOUS
<1>2. \A i \in 2 .. 1 + Len(r) : m[i] = r[i - 1]
  OBVIOUS
<1>. HIDE DEF m
<1>3. Len(r) \in Nat /\ r \in [1 .. Len(r) -> S]
  OBVIOUS
<1>4. SubSeq(m, 2, Len(m)) = r
  <2>. DEFINE t == SubSeq(m, 2, Len(m))
  <2>1. Len(t) = Len(r) /\ t \in Seq(S)
    BY <1>1, <1>3
  <2>2. \A i \in 1 .. Len(r) : t[i] = r[i]
    BY <1>1, <1>2, <1>3
  <2>. HIDE DEF t
  <2>. QED  BY <1>3, <2>1, <2>2 DEF t
<1>. QED  BY <1>1, <1>2, <1>4 DEF m

(* A mail of one part.                                                     *)
LEMMA WrittenIs ==
  ASSUME NEW header \in MailHeader, NEW cms \in SignedData
  PROVE  LET b == Body("base64", cms)
             m == Headed(header) \o Rendered(b)
         IN /\ m \in Seq(Token) /\ Len(m) = 1 + Size(b) /\ Size(b) \in 2 .. 3
            /\ m[1] = [of |-> header, at |-> 0]
            /\ \A i \in 2 .. Len(m) : m[i] = [of |-> b, at |-> i - 1]
            /\ Heads(m) = {1}
            /\ SubSeq(m, 2, Len(m)) = Rendered(b)
<1>. DEFINE b == Body("base64", cms)
<1>. DEFINE m == Headed(header) \o Rendered(b)
<1>1. b \in MailBody
  BY DEF Body, MailBody, Encoding, Content
<1>. HIDE DEF b
<1>2. Size(b) \in 2 .. 3
  BY DEF Size
<1>. DEFINE size == Size(b)
<1>3. size \in 2 .. 3
  BY <1>2
<1>. HIDE DEF size
<1>4. Rendered(b) = [i \in 1 .. size |-> [of |-> b, at |-> i]] /\ Headed(header) = <<[of |-> header, at |-> 0]>>
  BY DEF Rendered, Headed, size
<1>5. [of |-> header, at |-> 0] \in Token /\ \A i \in 1 .. 3 : [of |-> b, at |-> i] \in Token
  BY <1>1 DEF Token
<1>6. Rendered(b) \in Seq(Token) /\ Len(Rendered(b)) = size
  BY <1>3, <1>4, <1>5
<1>. PICK h, r : h = [of |-> header, at |-> 0] /\ r = Rendered(b)
  OBVIOUS
<1>7. h \in Token /\ r \in Seq(Token) /\ Len(r) = size
  BY <1>5, <1>6
<1>8. m = <<h>> \o r /\ h = [of |-> header, at |-> 0] /\ \A i \in 1 .. size : r[i] = [of |-> b, at |-> i]
  BY <1>4
<1>. HIDE DEF m
<1>9. /\ m \in Seq(Token) /\ Len(m) = 1 + size /\ m[1] = h /\ \A i \in 2 .. 1 + size : m[i] = r[i - 1]
      /\ SubSeq(m, 2, Len(m)) = r
  BY <1>7, <1>8, Prepended
<1>10. \A i \in 2 .. 1 + size : m[i] = [of |-> b, at |-> i - 1] /\ m[i].at # 0
  BY <1>3, <1>8, <1>9
<1>11. Heads(m) = {1}
  <2>1. DOMAIN m = 1 .. 1 + size /\ m[1].at = 0
    BY <1>3, <1>8, <1>9
  <2>2. \A i \in 1 .. 1 + size : i = 1 \/ i \in 2 .. 1 + size
    BY <1>3
  <2>3. 1 \in 1 .. 1 + size
    BY <1>3
  <2>. QED  BY <1>10, <2>1, <2>2, <2>3 DEF Heads
<1>. QED  BY <1>2, <1>8, <1>9, <1>10, <1>11 DEF b, m, size

(* A mail of one part reads as what was put into it.                       *)
LEMMA WrittenReads ==
  ASSUME NEW header \in MailHeader, header.kind = "pkcs7-mime", NEW cms \in SignedData
  PROVE  LET m == Headed(header) \o Rendered(Body("base64", cms)) IN
         /\ m # Junk /\ Lossy(m) = m /\ RootOf(m) = header
         /\ header.encoding = "base64" => OpaqueCms(m) = DerOfCms(cms)
<1>. DEFINE b == Body("base64", cms)
<1>. DEFINE m == Headed(header) \o Rendered(b)
<1>1. /\ m \in Seq(Token) /\ Len(m) = 1 + Size(b) /\ Size(b) \in 2 .. 3
      /\ m[1] = [of |-> header, at |-> 0]
      /\ \A i \in 2 .. Len(m) : m[i] = [of |-> b, at |-> i - 1]
      /\ Heads(m) = {1}
      /\ SubSeq(m, 2, Len(m)) = Rendered(b)
  BY WrittenIs
<1>2. b.text = "base64" /\ b.content = cms
  BY DEF Body
<1>. HIDE DEF b, m
<1>3. m # <<>> /\ m[1].at = 0 /\ m[1].of = header /\ Len(m) \in 3 .. 4 /\ DOMAIN m = 1 .. Len(m)
  BY <1>1
<1>4. m \in Mail
  BY <1>1, <1>3 DEF Mail, IsMultipart
<1>5. m # Junk
  BY <1>4, MailAssumption
<1>6. RootOf(m) = header
  BY <1>3 DEF RootOf
<1>7. Lossy(m) = m
  <2>1. \A i \in DOMAIN m : ~(m[i].at > 0 /\ m[i].of.text = "binary")
    <3>. SUFFICES ASSUME NEW i \in 1 .. Len(m) PROVE ~(m[i].at > 0 /\ m[i].of.text = "binary")
      BY <1>3
    <3>1. CASE i = 1
      BY <1>3, <3>1
    <3>2. CASE i \in 2 .. Len(m)
      <4>. PICK k : k = m[i]
        OBVIOUS
      <4>3. k = [of |-> b, at |-> i - 1]
        BY <1>1, <3>2
      <4>4. k.of = b
        BY <4>3
      <4>1. m[i].of = b
        BY <4>4
      <4>2. m[i].of.text = "base64"
        BY <1>2, <4>1
      <4>. QED  BY <4>2
    <3>. QED  BY <1>3, <3>1, <3>2
  <2>2. Lossy(m) = [i \in DOMAIN m |-> m[i]]
    BY <1>5, <2>1 DEF Lossy
  <2>3. m = [i \in DOMAIN m |-> m[i]]
    BY <1>1
  <2>. QED  BY <2>2, <2>3
<1>8. FirstPart(m, LAMBDA h : h.kind = "pkcs7-mime") = PartAt(m, 1)
  <2>1. {i \in Heads(m) : m[i].of.kind = "pkcs7-mime"} = {1}
    BY <1>1, <1>3
  <2>2. Min({1}) = 1
    BY LeastIs
  <2>. QED  BY <2>1, <2>2 DEF FirstPart
<1>9. PartAt(m, 1) = [header |-> header, offset_body |-> 1, offset_end |-> Len(m)]
  <2>1. {j \in Heads(m) : j > 1} \union {Len(m) + 1} = {Len(m) + 1}
    BY <1>1
  <2>. PICK n : n = Len(m) + 1
    OBVIOUS
  <2>2. n \in Nat /\ n - 1 = Len(m)
    BY <1>3
  <2>3. Min({n}) = n
    BY <2>2, LeastIs
  <2>4. Min({j \in Heads(m) : j > 1} \union {Len(m) + 1}) - 1 = Len(m)
    BY <2>1, <2>2, <2>3
  <2>. QED  BY <1>3, <2>4 DEF PartAt
<1>10. ASSUME header.encoding = "base64" PROVE Contents(m, PartAt(m, 1)) = cms
  <2>1. Rendered(b)[1].of = b /\ Rendered(b) # <<>>
    <3>1. 1 \in 1 .. Size(b)
      BY <1>1
    <3>2. Rendered(b)[1] = [of |-> b, at |-> 1] /\ 1 \in DOMAIN Rendered(b)
      BY <3>1 DEF Rendered
    <3>. QED  BY <3>2
  <2>2. SubSeq(m, PartAt(m, 1).offset_body + 1, PartAt(m, 1).offset_end) = Rendered(b) /\ PartAt(m, 1).header = header
    BY <1>1, <1>9
  <2>. QED  BY <1>2, <1>10, <2>1, <2>2 DEF Contents
<1>11. header.encoding = "base64" => OpaqueCms(m) = DerOfCms(cms)
  BY <1>8, <1>10 DEF OpaqueCms
<1>. QED  BY <1>5, <1>6, <1>7, <1>11 DEF b, m

(* What was written, in terms of what there was.                           *)
LEMMA ModifiedIs ==
  ASSUME Modified, ModifyInv
  PROVE  /\ disk[job.output] = Headed(head) \o Rendered(Body("base64", Encoded(work)))
         /\ ModifiedCms = Encoded(work) /\ work \in SignedData /\ OriginalCms \in SignedData
         /\ SameMessage(work, OriginalCms)
         /\ ToSet(OriginalCms.certs) \subseteq ToSet(work.certs)
         /\ ToSet(OriginalCms.crls) \subseteq ToSet(work.crls)
         /\ head \in MailHeader /\ head.kind = "pkcs7-mime" /\ head.from = MimePart.header.from
<1>1. /\ MimePart # None /\ mail \in Mail
      /\ OriginalCms \in SignedData /\ OriginalCms.form = "DER" /\ work \in SignedData
      /\ head = FilteredHeader(MimePart.header, OriginalCms)
      /\ SameMessage(work, OriginalCms)
      /\ ToSet(OriginalCms.certs) \subseteq ToSet(work.certs)
      /\ ToSet(OriginalCms.crls) \subseteq ToSet(work.crls)
  BY DEF ModifyInv, Grown
<1>2. disk[job.output] = Headed(head) \o Rendered(Body("base64", Encoded(work)))
  BY DEF ModifyInv, Delivered
<1>3. PICK i \in Heads(mail) : MimePart = PartAt(mail, i) /\ mail[i].of.kind = "pkcs7-mime"
  BY <1>1, MailTokens, FirstMime DEF MimePart
<1>4. MimePart.header \in MailHeader /\ MimePart.header.kind = "pkcs7-mime"
  BY <1>1, <1>3, MailTokens, PartIs
<1>5. head \in MailHeader /\ head.kind = "pkcs7-mime" /\ head.from = MimePart.header.from
  <2>. PICK h : h = MimePart.header
    OBVIOUS
  <2>. DEFINE date == IF h.date = None THEN OriginalCms.signingTime ELSE h.date
  <2>1. date \in Date \union {None}
    BY <1>1, <1>4, SignedDataFields DEF MailHeader
  <2>2. head = [[h EXCEPT !.extra = FALSE] EXCEPT !.date = date]
    BY <1>1, <1>4 DEF FilteredHeader, MailHeader
  <2>. HIDE DEF date
  <2>. QED  BY <1>4, <2>1, <2>2 DEF MailHeader
<1>6. ModifiedCms = Encoded(work)
  <2>. DEFINE cms == Encoded(work)
  <2>1. cms \in SignedData
    BY <1>1, EncodedIs
  <2>2. disk[job.output] = Headed(head) \o Rendered(Body("base64", cms))
    BY <1>2
  <2>. HIDE DEF cms
  <2>3. disk[job.output][2] = [of |-> Body("base64", cms), at |-> 1]
    <3>. PICK h : h = head
      OBVIOUS
    <3>. DEFINE m == Headed(h) \o Rendered(Body("base64", cms))
    <3>1. Len(m) = 1 + Size(Body("base64", cms)) /\ Size(Body("base64", cms)) \in 2 .. 3
          /\ \A k \in 2 .. Len(m) : m[k] = [of |-> Body("base64", cms), at |-> k - 1]
      BY <1>5, <2>1, WrittenIs
    <3>2. disk[job.output] = m
      BY <2>2
    <3>. HIDE DEF m
    <3>. QED  BY <3>1, <3>2
  <2>. QED  BY <2>3 DEF ModifiedCms, Body, cms
<1>. QED  BY <1>1, <1>2, <1>5, <1>6

(* The three parts of the property.                                        *)
LEMMA StaysConformant == ModifyInv => ModifiedStaysConformant
BY ModifiedIs, EncodedConforms DEF ModifiedStaysConformant

(* Nothing that there was or that was to be added is missing.              *)
LEMMA IsComplete == ModifyInv => ModifiedIsComplete
<1>. SUFFICES ASSUME ModifyInv, Modified, job.output \notin SourcesOf(job)
              PROVE  [ModifiedCms EXCEPT !.version = OriginalCms.version] =
                       [OriginalCms EXCEPT !.certs = InDer(@ \o AddedCertificates), !.crls = @ \o (CrlPart \o OcspPart)]
  BY DEF ModifiedIsComplete, CrlPart, OcspPart
<1>1. /\ work.certs = OriginalCms.certs \o AddedCertificates
      /\ work.crls = OriginalCms.crls \o (CrlPart \o OcspPart)
  BY DEF ModifyInv, Delivered
<1>2. ModifiedCms = Encoded(work) /\ work \in SignedData /\ OriginalCms \in SignedData /\ SameMessage(work, OriginalCms)
  BY ModifiedIs
<1>. PICK o, w, e : o = OriginalCms /\ w = work /\ e = ModifiedCms
  OBVIOUS
<1>3. /\ o \in SignedData /\ w \in SignedData /\ e \in SignedData /\ SameMessage(w, o)
      /\ e.certs = InDer(w.certs) /\ e.crls = w.crls
      /\ e.form = o.form /\ e.keyIdentified = o.keyIdentified /\ e.signer = o.signer
      /\ e.signingTime = o.signingTime /\ e.features = o.features /\ e.payload = o.payload
  BY <1>2, EncodedIs DEF SameMessage
<1>4. InDer(w.certs) \in Seq(Choice) /\ w.crls \in Seq(RevocationInfo) /\ o.version \in Nat
  BY <1>3, SignedDataFields, InDerSorts
<1>. DEFINE sorted == InDer(w.certs)
<1>. DEFINE with1 == [o EXCEPT !.certs = sorted]
<1>. DEFINE with2 == [with1 EXCEPT !.crls = w.crls]
<1>5. [o EXCEPT !.certs = InDer(@ \o AddedCertificates), !.crls = @ \o (CrlPart \o OcspPart)] = with2
  BY <1>1, <1>3 DEF SignedData
<1>. DEFINE left == [e EXCEPT !.version = o.version]
<1>6. sorted \in Seq(Choice) /\ e.certs = sorted
  BY <1>3, <1>4
<1>. HIDE DEF sorted
<1>7. left \in SignedData /\ left.certs = sorted /\ left.crls = w.crls /\ SameMessage(left, o)
  BY <1>3, <1>4, <1>6 DEF SignedData, SameMessage
<1>8. with1 \in SignedData /\ with1.certs = sorted /\ SameMessage(with1, o)
  BY <1>3, <1>6 DEF SignedData, SameMessage
<1>9. with2 \in SignedData /\ with2.certs = sorted /\ with2.crls = w.crls /\ SameMessage(with2, o)
  <2>. HIDE DEF with1
  <2>. QED  BY <1>4, <1>8 DEF SignedData, SameMessage
<1>10. left = with2
  <2>. HIDE DEF left, with2
  <2>1. SameMessage(left, with2)
    BY <1>7, <1>9 DEF SameMessage
  <2>. QED  BY <1>7, <1>9, <2>1, SameSigned
<1>. QED  BY <1>5, <1>10

(* Trust does not depend on the order of certificates.                     *)
LEMMA SameTrust ==
  ASSUME NEW a, NEW b, NEW anchors, ToSet(a.certs) = ToSet(b.certs)
  PROVE  \A name : Trusted(name, a, anchors) = Trusted(name, b, anchors)
BY DEF Trusted

(* The verdict is that on the message with all its certificates.           *)
LEMMA StillVerifies == ModifyInv => ModifiedVerifies
<1>. SUFFICES ASSUME ModifyInv, Modified, job.output \notin SourcesOf(job), head.encoding = "base64",
                     "OcspRevoked" \notin ToSet(ModifiedCms.crls), NEW t \in Trusts,
                     SignedWell([OriginalCms EXCEPT !.certs = @ \o AddedCertificates], FirstPart(mail, IsPkcs7Mime).header.from,
                                [OriginalCms EXCEPT !.certs = @ \o AddedCertificates].payload, t)
              PROVE  Verify(Lossy(disk[job.output]), t) =
                       [failures |-> FALSE, signed_content |-> [OriginalCms EXCEPT !.certs = @ \o AddedCertificates].payload]
  BY DEF ModifiedVerifies
<1>. PICK o, w, h, from, written, completed :
       /\ o = OriginalCms /\ w = work /\ h = head /\ from = MimePart.header.from /\ written = disk[job.output]
       /\ completed = [OriginalCms EXCEPT !.certs = @ \o AddedCertificates]
  OBVIOUS
<1>1. /\ written = Headed(h) \o Rendered(Body("base64", Encoded(w))) /\ ModifiedCms = Encoded(w)
      /\ w \in SignedData /\ o \in SignedData /\ SameMessage(w, o)
      /\ ToSet(o.certs) \subseteq ToSet(w.certs) /\ ToSet(o.crls) \subseteq ToSet(w.crls)
      /\ h \in MailHeader /\ h.kind = "pkcs7-mime" /\ h.from = from
  BY ModifiedIs
<1>2. w.certs = o.certs \o AddedCertificates
  BY DEF ModifyInv, Delivered
<1>3. w.certs \in Seq(Choice)
  BY <1>1, SignedDataFields
<1>4. /\ completed \in SignedData /\ SameMessage(w, completed) /\ completed.certs = w.certs /\ completed.crls = o.crls
      /\ completed.signer = w.signer /\ completed.payload = w.payload
  <2>. PICK certs : certs = w.certs
    OBVIOUS
  <2>1. completed = [o EXCEPT !.certs = certs] /\ certs \in Seq(Choice)
    BY <1>2, <1>3
  <2>2. completed \in SignedData /\ completed.certs = certs /\ completed.crls = o.crls
    BY <1>1, <2>1 DEF SignedData
  <2>3. SameMessage(completed, o)
    BY <1>1, <2>1 DEF SignedData, SameMessage
  <2>. QED  BY <1>1, <2>2, <2>3 DEF SameMessage
<1>5. /\ t.ca_file_pem # Junk /\ Conformant(completed) /\ from # None
      /\ Trusted(completed.signer, completed, AnchorsOf(t))
  BY DEF SignedWell, MimePart
<1>. DEFINE e == Encoded(w)
<1>. DEFINE d == DerOfCms(e)
<1>6. /\ e \in SignedData /\ e.crls = w.crls /\ e.keyIdentified = w.keyIdentified /\ e.signer = w.signer
      /\ e.features = w.features /\ e.payload = w.payload /\ ToSet(e.certs) = ToSet(w.certs)
  BY <1>1, EncodedIs
<1>7. Conformant(e)
  BY <1>1, <1>4, <1>5, EncodedConforms
<1>8. d \in SignedData /\ ToSet(d.certs) = ToSet(e.certs) /\ d = [e EXCEPT !.form = "DER", !.certs = InDer(@)]
  BY <1>6, DerOfSigned
<1>9. Lossy(written) = written /\ RootOf(written) = h /\ written # Junk /\ OpaqueCms(written) = d
  BY <1>1, <1>6, WrittenReads
<1>10. "OcspRevoked" \notin ToSet(e.crls)
  BY <1>1
<1>. HIDE DEF e
<1>11. /\ d.version = e.version /\ d.crls = e.crls /\ d.keyIdentified = e.keyIdentified /\ d.signer = e.signer
       /\ d.features = e.features /\ d.payload = e.payload /\ d.type = "signed"
  BY <1>6, <1>8 DEF SignedData
<1>. HIDE DEF d
<1>12. Conformant(d)
  <2>1. Features(d) = Features(e)
    BY <1>8, <1>11, SameFeatures
  <2>. QED  BY <1>7, <1>11, <2>1 DEF Conformant
<1>13. Trusted(d.signer, d, AnchorsOf(t))
  <2>1. ToSet(d.certs) = ToSet(completed.certs) /\ d.signer = completed.signer
    BY <1>4, <1>6, <1>8, <1>11
  <2>. QED  BY <1>5, <2>1, SameTrust
<1>14. IsData(d) /\ SignedWell(d, from, d.payload, t)
  <2>1. IsData(completed)
    BY DEF SignedWell
  <2>2. d.features = completed.features
    BY <1>4, <1>6, <1>11 DEF SameMessage
  <2>3. IsData(d)
    BY <2>1, <2>2 DEF IsData
  <2>. QED  BY <1>5, <1>10, <1>11, <1>12, <1>13, <2>3 DEF SignedWell
<1>15. OpaqueCms(written) # None
  BY <1>8, <1>9, MailAssumption
<1>16. Verify(written, t) = VerifySignedData(d, from, d.payload, t)
  BY <1>1, <1>9, <1>11, <1>15 DEF Verify
<1>17. d.payload = completed.payload
  BY <1>4, <1>6, <1>11
<1>. QED  BY <1>9, <1>14, <1>16, <1>17 DEF VerifySignedData

(* What modify writes is complete, whatever servers answer and wherever    *)
(* in the certificate the URL is that gets an answer; it stays conformant  *)
(* to RFC 5652, and it verifies whenever the message with all certificates *)
(* would.                                                                  *)
THEOREM ModificationSound == Spec => []ModificationIsSound
<1>1. Init => ModifyInv
  BY DEF Init, ModifyInit, ModifyInv, Grown, Gathered, Delivered, Adding, Modified
<1>2. ModifyInv => ModificationIsSound
  BY StaysConformant, IsComplete, StillVerifies DEF ModificationIsSound
<1>. QED  BY <1>1, <1>2, ModifyInvSteps, Always, PTL DEF Spec

-----------------------------------------------------------------------------
(* Splicing.  Bodies are exchanged from the back, so that offsets in front *)
(* of what is done remain those of the mail as it was read.                *)

(* Where a part ends, and its body.                                        *)
EndOf(m, i) == PartAt(m, i).offset_end
BodyOf(m, i) == SubSeq(m, i + 1, EndOf(m, i))

(* The end of a part is behind its beginning and before the next part.     *)
LEMMA EndType ==
  ASSUME NEW m, Tokens(m), NEW i \in Heads(m)
  PROVE  /\ i \in 1 .. Len(m) /\ EndOf(m, i) \in i .. Len(m) /\ Len(m) \in Nat
         /\ \A j \in Heads(m) : j > i => j > EndOf(m, i)
         /\ EndOf(m, i) = Len(m) \/ EndOf(m, i) + 1 \in Heads(m)
<1>1. i \in 1 .. Len(m) /\ Len(m) \in Nat
  BY HeadsOf
<1>. QED  BY <1>1, PartIs DEF EndOf

(* There is only one such end.                                             *)
LEMMA EndIs ==
  ASSUME NEW m, Tokens(m), NEW i \in Heads(m), NEW end \in i .. Len(m),
         \A j \in Heads(m) : j > i => j > end, end = Len(m) \/ end + 1 \in Heads(m)
  PROVE  EndOf(m, i) = end
<1>. PICK e : e = EndOf(m, i)
  OBVIOUS
<1>1. /\ i \in Int /\ e \in i .. Len(m) /\ Len(m) \in Nat
      /\ \A j \in Heads(m) : j > i => j > e
      /\ e = Len(m) \/ e + 1 \in Heads(m)
  BY EndType
<1>2. ~(end < e)
  <2>. SUFFICES ASSUME end < e PROVE FALSE
    OBVIOUS
  <2>1. end + 1 \in Heads(m) /\ end + 1 > i
    BY <1>1
  <2>. QED  BY <1>1, <2>1
<1>3. ~(e < end)
  <2>. SUFFICES ASSUME e < end PROVE FALSE
    OBVIOUS
  <2>1. e + 1 \in Heads(m) /\ e + 1 > i
    BY <1>1
  <2>. QED  BY <1>1, <2>1
<1>4. e \in Int /\ end \in Int
  BY <1>1
<1>. QED  BY <1>2, <1>3, <1>4

(* One sequence of tokens behind another.                                  *)
LEMMA Concatenated ==
  ASSUME NEW u \in Seq(Token), NEW v \in Seq(Token), NEW t, t = u \o v
  PROVE  /\ t \in Seq(Token) /\ Len(t) = Len(u) + Len(v)
         /\ \A i \in 1 .. Len(u) : t[i] = u[i]
         /\ \A i \in 1 .. Len(v) : t[Len(u) + i] = v[i]
<1>1. Len(u) \in Nat /\ Len(v) \in Nat
  OBVIOUS
<1>2. t \in Seq(Token) /\ Len(t) = Len(u) + Len(v)
  OBVIOUS
<1>3. \A i \in 1 .. Len(u) + Len(v) : t[i] = IF i <= Len(u) THEN u[i] ELSE v[i - Len(u)]
  OBVIOUS
<1>4. \A i \in 1 .. Len(u) : t[i] = u[i]
  BY <1>1, <1>3
<1>5. \A i \in 1 .. Len(v) : t[Len(u) + i] = v[i]
  <2>. SUFFICES ASSUME NEW i \in 1 .. Len(v) PROVE t[Len(u) + i] = v[i]
    OBVIOUS
  <2>1. Len(u) + i \in 1 .. Len(u) + Len(v) /\ ~(Len(u) + i <= Len(u)) /\ Len(u) + i - Len(u) = i
    BY <1>1
  <2>. QED  BY <1>3, <2>1
<1>. QED  BY <1>2, <1>4, <1>5

(* A text in which q is in the place of what is behind r, up to e.         *)
Splice(w, r, q, e) == SubSeq(w, 1, r) \o q \o SubSeq(w, e + 1, Len(w))

Replaced(w, r, q, e, all, delta) ==
  /\ all \in Seq(Token) /\ Len(all) = Len(w) + delta
  /\ \A i \in 1 .. r : all[i] = w[i]
  /\ \A i \in 1 .. Len(q) : all[r + i] = q[i]
  /\ \A i \in e + 1 .. Len(w) : all[i + delta] = w[i]

(* What a splice leaves where it was, and what it moves by how much.       *)
LEMMA SpliceTokens ==
  ASSUME NEW w \in Seq(Token), NEW q \in Seq(Token), NEW r \in 1 .. Len(w), NEW e \in r .. Len(w)
  PROVE  Replaced(w, r, q, e, Splice(w, r, q, e), Len(q) - (e - r))
<1>. PICK delta : delta = Len(q) - (e - r)
  OBVIOUS
<1>. DEFINE a == SubSeq(w, 1, r)
<1>. DEFINE c == SubSeq(w, e + 1, Len(w))
<1>1. /\ Len(w) \in Nat /\ Len(q) \in Nat /\ r \in Nat /\ e \in Nat /\ r <= e /\ e <= Len(w)
  OBVIOUS
<1>2. a \in Seq(Token) /\ Len(a) = r /\ \A i \in 1 .. r : a[i] = w[i]
  BY <1>1
<1>3. c \in Seq(Token) /\ Len(c) = Len(w) - e /\ \A i \in 1 .. Len(w) - e : c[i] = w[e + i]
  BY <1>1
<1>. HIDE DEF a, c
<1>. DEFINE aq == a \o q
<1>4. /\ aq \in Seq(Token) /\ Len(aq) = r + Len(q)
      /\ \A i \in 1 .. r : aq[i] = w[i]
      /\ \A i \in 1 .. Len(q) : aq[r + i] = q[i]
  <2>. PICK u, t : u = a /\ t = aq
    OBVIOUS
  <2>1. u \in Seq(Token) /\ t = u \o q
    BY <1>2
  <2>. HIDE DEF aq
  <2>2. /\ t \in Seq(Token) /\ Len(t) = Len(u) + Len(q)
        /\ \A i \in 1 .. Len(u) : t[i] = u[i]
        /\ \A i \in 1 .. Len(q) : t[Len(u) + i] = q[i]
    BY <2>1, Concatenated
  <2>. QED  BY <1>2, <2>2
<1>. HIDE DEF aq
<1>. DEFINE W == aq \o c
<1>5. /\ W \in Seq(Token) /\ Len(W) = r + Len(q) + (Len(w) - e)
      /\ \A i \in 1 .. r + Len(q) : W[i] = aq[i]
      /\ \A i \in 1 .. Len(w) - e : W[r + Len(q) + i] = c[i]
  <2>. PICK u, v, t : u = aq /\ v = c /\ t = W
    OBVIOUS
  <2>1. u \in Seq(Token) /\ v \in Seq(Token) /\ t = u \o v
    BY <1>3, <1>4
  <2>. HIDE DEF W
  <2>2. /\ t \in Seq(Token) /\ Len(t) = Len(u) + Len(v)
        /\ \A i \in 1 .. Len(u) : t[i] = u[i]
        /\ \A i \in 1 .. Len(v) : t[Len(u) + i] = v[i]
    BY <2>1, Concatenated
  <2>. QED  BY <1>3, <1>4, <2>2
<1>. HIDE DEF W
<1>6. \A i \in 1 .. r : W[i] = w[i]
  BY <1>1, <1>4, <1>5
<1>7. \A i \in 1 .. Len(q) : W[r + i] = q[i]
  <2>. SUFFICES ASSUME NEW i \in 1 .. Len(q) PROVE W[r + i] = q[i]
    OBVIOUS
  <2>1. r + i \in 1 .. r + Len(q)
    BY <1>1
  <2>. QED  BY <1>4, <1>5, <2>1
<1>8. \A i \in e + 1 .. Len(w) : W[i + delta] = w[i]
  <2>. SUFFICES ASSUME NEW i \in e + 1 .. Len(w) PROVE W[i + delta] = w[i]
    OBVIOUS
  <2>1. i - e \in 1 .. Len(w) - e /\ i + delta = r + Len(q) + (i - e) /\ e + (i - e) = i
    BY <1>1
  <2>2. W[r + Len(q) + (i - e)] = c[i - e] /\ c[i - e] = w[e + (i - e)]
    BY <1>3, <1>5, <2>1
  <2>. QED  BY <2>1, <2>2
<1>9. Len(W) = Len(w) + delta
  BY <1>1, <1>5
<1>10. Splice(w, r, q, e) = W
  BY DEF Splice, W, aq, a, c
<1>. QED  BY <1>5, <1>6, <1>7, <1>8, <1>9, <1>10 DEF Replaced

(* The same tokens, elsewhere.                                             *)
LEMMA SameSub ==
  ASSUME NEW w \in Seq(Token), NEW W \in Seq(Token), NEW i \in Nat, NEW j \in Nat, NEW d \in Int,
         1 <= i, i <= j + 1, j <= Len(w), 1 <= i + d, j + d <= Len(W),
         \A k \in i .. j : W[k + d] = w[k]
  PROVE  SubSeq(W, i + d, j + d) = SubSeq(w, i, j)
<1>1. Len(w) \in Nat /\ Len(W) \in Nat
  OBVIOUS
<1>. PICK a, b : a = i + d /\ b = j + d
  OBVIOUS
<1>2. a \in Nat /\ b \in Int /\ a <= b + 1 /\ b <= Len(W) /\ 1 <= a /\ b - a + 1 = j - i + 1
  BY <1>1
<1>3. SubSeq(W, a, b) = [k \in 1 .. b - a + 1 |-> W[a + k - 1]]
  BY <1>1, <1>2
<1>4. SubSeq(w, i, j) = [k \in 1 .. j - i + 1 |-> w[i + k - 1]]
  BY <1>1
<1>5. \A k \in 1 .. j - i + 1 : W[a + k - 1] = w[i + k - 1]
  <2>. SUFFICES ASSUME NEW k \in 1 .. j - i + 1 PROVE W[a + k - 1] = w[i + k - 1]
    OBVIOUS
  <2>1. i + k - 1 \in i .. j /\ a + k - 1 = (i + k - 1) + d
    BY <1>1, <1>2
  <2>. QED  BY <2>1
<1>. QED  BY <1>2, <1>3, <1>4, <1>5

(* The text of a body.                                                     *)
LEMMA RenderedIs ==
  ASSUME NEW b \in MailBody
  PROVE  /\ Size(b) \in 2 .. 3 /\ Rendered(b) \in Seq(Token) /\ Len(Rendered(b)) = Size(b)
         /\ \A i \in 1 .. Size(b) : Rendered(b)[i] = [of |-> b, at |-> i]
         /\ \A i \in 1 .. Size(b) : Rendered(b)[i].at # 0
<1>. DEFINE size == Size(b)
<1>1. size \in 2 .. 3
  BY DEF Size
<1>. HIDE DEF size
<1>2. Rendered(b) = [i \in 1 .. size |-> [of |-> b, at |-> i]]
  BY DEF Rendered, size
<1>3. \A i \in 1 .. 3 : [of |-> b, at |-> i] \in Token
  BY DEF Token
<1>4. Rendered(b) \in Seq(Token) /\ Len(Rendered(b)) = size
  BY <1>1, <1>2, <1>3
<1>5. \A i \in 1 .. size : Rendered(b)[i] = [of |-> b, at |-> i]
  BY <1>2
<1>6. \A i \in 1 .. size : Rendered(b)[i].at # 0
  <2>. SUFFICES ASSUME NEW i \in 1 .. size PROVE Rendered(b)[i].at # 0
    OBVIOUS
  <2>. PICK x : x = Rendered(b)[i]
    OBVIOUS
  <2>1. x = [of |-> b, at |-> i]
    BY <1>5
  <2>2. x.at = i
    BY <2>1
  <2>. QED  BY <1>1, <2>2
<1>. QED  BY <1>1, <1>4, <1>5, <1>6 DEF size

(* A text in which the body at r is replaced.                              *)
WithBody(w, r, b) == Splice(w, r, Rendered(b), EndOf(w, r))
Growth(w, r, b) == Size(b) - (EndOf(w, r) - r)
MovedTo(w, r, b, p) == IF p <= r THEN p ELSE p + Growth(w, r, b)

(* The body of a part is exchanged for what is rendered.                   *)
LEMMA WithBodyTokens ==
  ASSUME NEW w, Tokens(w), NEW r \in Heads(w), NEW b \in MailBody
  PROVE  LET W == WithBody(w, r, b)
             delta == Growth(w, r, b)
         IN /\ W \in Seq(Token) /\ Len(W) = Len(w) + delta /\ delta \in Int
            /\ \A i \in 1 .. r : W[i] = w[i]
            /\ \A i \in 1 .. Size(b) : W[r + i] = Rendered(b)[i]
            /\ \A i \in EndOf(w, r) + 1 .. Len(w) : W[i + delta] = w[i]
<1>. PICK e, q : e = EndOf(w, r) /\ q = Rendered(b)
  OBVIOUS
<1>1. w \in Seq(Token) /\ q \in Seq(Token) /\ r \in 1 .. Len(w) /\ e \in r .. Len(w) /\ Len(q) = Size(b)
      /\ Len(w) \in Nat /\ Len(q) \in Nat /\ r \in Nat /\ e \in Nat /\ 1 <= r /\ r <= e /\ e <= Len(w)
  <2>1. w \in Seq(Token) /\ q \in Seq(Token) /\ r \in 1 .. Len(w) /\ e \in r .. Len(w) /\ Len(q) = Size(b)
        /\ Len(w) \in Nat
    BY EndType, RenderedIs DEF Tokens
  <2>. QED  BY <2>1
<1>. PICK delta : delta = Len(q) - (e - r)
  OBVIOUS
<1>2. Growth(w, r, b) = delta /\ delta \in Int
  BY <1>1 DEF Growth
<1>3. Replaced(w, r, q, e, Splice(w, r, q, e), Len(q) - (e - r))
  BY <1>1, SpliceTokens
<1>4. WithBody(w, r, b) = Splice(w, r, q, e)
  BY DEF WithBody
<1>. QED  BY SMTT(30), <1>1, <1>2, <1>3, <1>4 DEF Replaced

(* The headers behind r move by as much as the body has grown, and all     *)
(* bodies but that at r stay what they were.                               *)
LEMMA WithBodyHeads ==
  ASSUME NEW w, Tokens(w), NEW r \in Heads(w), NEW b \in MailBody
  PROVE  /\ Tokens(WithBody(w, r, b))
         /\ \A p \in Heads(w) : MovedTo(w, r, b, p) \in Heads(WithBody(w, r, b))
                                /\ WithBody(w, r, b)[MovedTo(w, r, b, p)] = w[p]
         /\ \A p \in Heads(WithBody(w, r, b)) : \E h \in Heads(w) : p = MovedTo(w, r, b, h)
         /\ \A p, h \in Heads(w) : p < h => MovedTo(w, r, b, p) < MovedTo(w, r, b, h)
<1>0. PICK W, e, delta, size, q, len :
        /\ W = WithBody(w, r, b) /\ e = EndOf(w, r) /\ delta = Growth(w, r, b)
        /\ size = Size(b) /\ q = Rendered(b) /\ len = Len(w)
  OBVIOUS
<1>1. /\ len \in Int /\ r \in Int /\ e \in Int /\ delta \in Int /\ size \in Int
      /\ 1 <= r /\ r <= e /\ e <= len /\ 2 <= size /\ e + delta = r + size
  <2>1. len \in Nat /\ r \in 1 .. len /\ e \in r .. len
    BY <1>0, EndType DEF Tokens
  <2>2. size \in 2 .. 3 /\ delta = size - (e - r)
    BY <1>0, RenderedIs DEF Growth
  <2>. QED  BY <2>1, <2>2
<1>9. /\ w \in Seq(Token) /\ DOMAIN w = 1 .. len
      /\ \A p \in Heads(w) : p > r => p > e
      /\ \A i \in 1 .. size : q[i].at # 0
  <2>1. w \in Seq(Token) /\ DOMAIN w = 1 .. len
    BY <1>0, HeadsOf DEF Tokens
  <2>2. \A i \in 1 .. size : q[i].at # 0
    BY <1>0, RenderedIs
  <2>3. \A p \in Heads(w) : p > r => p > e
    BY <1>0, EndType
  <2>. QED  BY <2>1, <2>2, <2>3
<1>2. /\ W \in Seq(Token) /\ DOMAIN W = 1 .. len + delta
      /\ \A i \in 1 .. r : W[i] = w[i]
      /\ \A i \in 1 .. size : W[r + i] = q[i]
      /\ \A i \in e + 1 .. len : W[i + delta] = w[i]
  <2>1. /\ W \in Seq(Token) /\ Len(W) = len + delta
        /\ \A i \in 1 .. r : W[i] = w[i]
        /\ \A i \in 1 .. size : W[r + i] = q[i]
        /\ \A i \in e + 1 .. len : W[i + delta] = w[i]
    BY <1>0, WithBodyTokens
  <2>. QED  BY <2>1
<1>. DEFINE To(p) == IF p <= r THEN p ELSE p + delta
<1>3. \A p : MovedTo(w, r, b, p) = To(p)
  BY <1>0 DEF MovedTo
<1>4. \A p \in Heads(w) : p \in Int /\ 1 <= p /\ p <= len /\ w[p].at = 0
  <2>1. Heads(w) \subseteq 1 .. len
    BY <1>9 DEF Heads
  <2>2. \A p \in Heads(w) : w[p].at = 0
    BY DEF Heads
  <2>. QED  BY <1>1, <2>1, <2>2
<1>5. Tokens(W)
  <2>1. W[1] = w[1] /\ 1 \in DOMAIN W
    BY <1>1, <1>2
  <2>2. W \in Seq(Token) /\ W # <<>>
    <3>1. ASSUME NEW s \in Seq(Token), 1 \in DOMAIN s PROVE s # <<>>
      BY <3>1
    <3>2. W \in Seq(Token) /\ 1 \in DOMAIN W
      BY <1>2, <2>1
    <3>. QED  BY <3>1, <3>2
  <2>3. w[1].at = 0
    BY DEF Tokens
  <2>. QED  BY <2>1, <2>2, <2>3 DEF Tokens
<1>6. ASSUME NEW p \in Heads(w)
      PROVE  To(p) \in Heads(W) /\ W[To(p)] = w[p]
  <2>0. p \in Int /\ 1 <= p /\ p <= len /\ w[p].at = 0 /\ (p > r => p > e)
    BY <1>4, <1>9
  <2>1. CASE p <= r
    <3>1. p \in 1 .. r /\ p \in 1 .. len + delta
      BY <1>1, <2>0, <2>1
    <3>. QED  BY <1>2, <2>0, <2>1, <3>1 DEF Heads
  <2>2. CASE p > r
    <3>1. p \in e + 1 .. len /\ p + delta \in 1 .. len + delta /\ To(p) = p + delta
      BY <1>1, <2>0, <2>2
    <3>2. W[p + delta] = w[p] /\ p + delta \in DOMAIN W
      BY <1>2, <3>1
    <3>. QED  BY <2>0, <3>1, <3>2 DEF Heads
  <2>. QED  BY <1>1, <2>0, <2>1, <2>2
<1>7. ASSUME NEW p \in Heads(W)
      PROVE  \E h \in Heads(w) : p = To(h)
  <2>1. p \in 1 .. len + delta /\ W[p].at = 0
    BY <1>2 DEF Heads
  <2>0. p \in Int /\ 1 <= p /\ p <= len + delta
    BY <1>1, <2>1
  <2>2. CASE p <= r
    <3>1. p \in 1 .. r /\ p \in 1 .. len
      BY <1>1, <2>0, <2>2
    <3>2. w[p].at = 0 /\ p \in DOMAIN w
      BY <1>2, <1>9, <2>1, <3>1
    <3>. QED  BY <2>2, <3>2 DEF Heads
  <2>3. CASE p > r /\ p <= r + size
    <3>1. p - r \in 1 .. size /\ r + (p - r) = p
      BY <1>1, <2>0, <2>3
    <3>2. W[r + (p - r)] = q[p - r] /\ q[p - r].at # 0
      BY <1>2, <1>9, <3>1
    <3>. QED  BY <2>1, <3>1, <3>2
  <2>4. CASE p > r + size
    <3>. PICK h \in Int : h = p - delta
      BY <1>1, <2>0
    <3>1. h \in e + 1 .. len /\ h + delta = p /\ h > r /\ h \in 1 .. len
      BY <1>1, <2>0, <2>4
    <3>2. h \in DOMAIN w /\ w[h].at = 0
      BY <1>2, <1>9, <2>1, <3>1
    <3>3. h \in Heads(w) /\ To(h) = p
      BY <1>1, <3>1, <3>2 DEF Heads
    <3>. QED  BY <3>3
  <2>. QED  BY <1>1, <2>0, <2>2, <2>3, <2>4
<1>8. ASSUME NEW p \in Heads(w), NEW h \in Heads(w), p < h
      PROVE  To(p) < To(h)
  <2>1. p \in Int /\ h \in Int /\ (h > r => h > e)
    BY <1>4, <1>9
  <2>. QED  BY <1>1, <1>8, <2>1
<1>. HIDE DEF To
<1>. QED  BY <1>0, <1>3, <1>5, <1>6, <1>7, <1>8

(* Parts end where they did, as the tokens have moved.                     *)
LEMMA WithBodyEnds ==
  ASSUME NEW w, Tokens(w), NEW r \in Heads(w), NEW b \in MailBody, NEW p \in Heads(w)
  PROVE  EndOf(WithBody(w, r, b), MovedTo(w, r, b, p)) =
           IF p < r THEN EndOf(w, p) ELSE EndOf(w, p) + Growth(w, r, b)
<1>0. PICK W, e, delta, size, len, To, end, stop :
        /\ W = WithBody(w, r, b) /\ e = EndOf(w, r) /\ delta = Growth(w, r, b)
        /\ size = Size(b) /\ len = Len(w) /\ To = [h \in Heads(w) |-> MovedTo(w, r, b, h)]
        /\ end = EndOf(w, p) /\ stop = IF p < r THEN end ELSE end + delta
  OBVIOUS
<1>1. /\ len \in Int /\ r \in Int /\ e \in Int /\ delta \in Int /\ size \in Int
      /\ 1 <= r /\ r <= e /\ e <= len /\ 2 <= size /\ e + delta = r + size
  <2>1. len \in Nat /\ r \in 1 .. len /\ e \in r .. len
    BY <1>0, EndType DEF Tokens
  <2>2. size \in 2 .. 3 /\ delta = size - (e - r)
    BY <1>0, RenderedIs DEF Growth
  <2>. QED  BY <2>1, <2>2
<1>2. /\ p \in Int /\ end \in Int /\ 1 <= p /\ p <= end /\ end <= len
      /\ \A h \in Heads(w) : h > p => h > end
      /\ end = len \/ end + 1 \in Heads(w)
  <2>1. p \in 1 .. len /\ end \in p .. len /\ len \in Nat
    BY <1>0, EndType
  <2>2. /\ \A h \in Heads(w) : h > p => h > end
        /\ end = len \/ end + 1 \in Heads(w)
    BY <1>0, EndType
  <2>. QED  BY <2>1, <2>2
<1>3. /\ \A h \in Heads(w) : h \in Int /\ To[h] = IF h <= r THEN h ELSE h + delta
      /\ \A h \in Heads(w) : h > r => h > e
  <2>1. \A h \in Heads(w) : h \in Int
    BY HeadsOf
  <2>2. \A h \in Heads(w) : h > r => h > e
    BY <1>0, EndType
  <2>3. \A h \in Heads(w) : To[h] = MovedTo(w, r, b, h)
    BY <1>0
  <2>. QED  BY <1>0, <2>1, <2>2, <2>3 DEF MovedTo
<1>4. /\ Tokens(W) /\ Len(W) = len + delta
      /\ \A h \in Heads(w) : To[h] \in Heads(W)
      /\ \A h \in Heads(W) : \E k \in Heads(w) : h = To[k]
      /\ \A h, k \in Heads(w) : h < k => To[h] < To[k]
  <2>1. \A h \in Heads(w) : To[h] = MovedTo(w, r, b, h)
    BY <1>0
  <2>2. Len(W) = len + delta
    BY <1>0, WithBodyTokens
  <2>. QED  BY <1>0, <2>1, <2>2, WithBodyHeads
(* The body ends where it ended, and no header moves into it. *)
<1>5. stop \in Int /\ To[p] <= stop /\ stop <= len + delta
  <2>1. CASE p < r
    <3>1. end < r
      BY <1>1, <1>2, <2>1
    <3>. QED  BY SMTT(30), <1>0, <1>1, <1>2, <1>3, <2>1, <3>1
  <2>2. CASE p = r
    <3>1. end = e
      BY <1>0, <2>2
    <3>. QED  BY SMTT(30), <1>0, <1>1, <1>2, <1>3, <2>2, <3>1
  <2>3. CASE p > r
    <3>1. To[p] = p + delta /\ stop = end + delta
      BY <1>0, <1>1, <1>2, <1>3, <2>3
    <3>. QED  BY <1>1, <1>2, <3>1
  <2>. QED  BY <1>1, <1>2, <2>1, <2>2, <2>3
<1>6. \A h \in Heads(W) : h > To[p] => h > stop
  <2>. SUFFICES ASSUME NEW k \in Heads(w), To[k] > To[p] PROVE To[k] > stop
    BY <1>4
  <2>1. k \in Int /\ k > p
    <3>1. k \in Int /\ To[k] \in Int /\ To[p] \in Int
      BY <1>1, <1>2, <1>3
    <3>2. k < p => To[k] < To[p]
      BY <1>4
    <3>. QED  BY <1>2, <3>1, <3>2
  <2>2. k > end /\ (k > r => k > e)
    BY <1>2, <1>3, <2>1
  <2>3. CASE p < r
    <3>1. end < r
      BY <1>1, <1>2, <2>3
    <3>2. To[k] = (IF k <= r THEN k ELSE k + delta) /\ stop = end
      BY <1>0, <1>3, <2>3
    <3>. QED  BY <1>1, <1>2, <2>1, <2>2, <3>1, <3>2
  <2>4. CASE ~(p < r)
    <3>1. To[k] = k + delta /\ stop = end + delta
      BY <1>0, <1>1, <1>2, <1>3, <2>1, <2>4
    <3>. QED  BY <1>1, <1>2, <2>1, <2>2, <3>1
  <2>. QED  BY <2>3, <2>4
<1>7. stop = Len(W) \/ stop + 1 \in Heads(W)
  <2>1. CASE p < r
    <3>1. end < r /\ end + 1 \in Heads(w) /\ end + 1 <= r /\ stop = end
      BY <1>0, <1>1, <1>2, <2>1
    <3>2. To[end + 1] = end + 1
      BY <1>3, <3>1
    <3>. QED  BY <1>4, <3>1, <3>2
  <2>2. CASE ~(p < r) /\ end = len
    BY <1>0, <1>4, <2>2
  <2>3. CASE ~(p < r) /\ end + 1 \in Heads(w)
    <3>0. stop = end + delta
      BY <1>0, <2>3
    <3>1. stop = end + delta /\ end + 1 > r
      BY <1>1, <1>2, <2>3, <3>0
    <3>2. To[end + 1] = end + 1 + delta
      BY <1>1, <1>2, <1>3, <2>3, <3>1
    <3>3. stop + 1 = To[end + 1]
      BY <1>1, <1>2, <3>1, <3>2
    <3>. QED  BY <1>4, <2>3, <3>3
  <2>. QED  BY <1>2, <2>1, <2>2, <2>3
<1>8. EndOf(W, To[p]) = stop
  <2>1. To[p] \in Heads(W) /\ To[p] \in Int
    BY <1>1, <1>3, <1>4
  <2>2. stop \in To[p] .. Len(W)
    BY <1>1, <1>4, <1>5, <2>1
  <2>. QED  BY <1>4, <1>6, <1>7, <2>1, <2>2, EndIs
<1>9. To[p] = MovedTo(w, r, b, p)
  BY <1>0
<1>. QED  BY <1>0, <1>8, <1>9

(* All bodies but the one exchanged are as they were.                      *)
LEMMA WithBodyBodies ==
  ASSUME NEW w, Tokens(w), NEW r \in Heads(w), NEW b \in MailBody, NEW p \in Heads(w)
  PROVE  BodyOf(WithBody(w, r, b), MovedTo(w, r, b, p)) = IF p = r THEN Rendered(b) ELSE BodyOf(w, p)
<1>0. PICK W, e, delta, size, len, end, q :
        /\ W = WithBody(w, r, b) /\ e = EndOf(w, r) /\ delta = Growth(w, r, b)
        /\ size = Size(b) /\ len = Len(w) /\ end = EndOf(w, p) /\ q = Rendered(b)
  OBVIOUS
<1>1. /\ len \in Int /\ r \in Int /\ e \in Int /\ delta \in Int /\ size \in Int
      /\ 1 <= r /\ r <= e /\ e <= len /\ 2 <= size /\ e + delta = r + size
      /\ q \in Seq(Token) /\ Len(q) = size
  <2>1. len \in Nat /\ r \in 1 .. len /\ e \in r .. len
    BY <1>0, EndType DEF Tokens
  <2>2. size \in 2 .. 3 /\ delta = size - (e - r) /\ q \in Seq(Token) /\ Len(q) = size
    BY <1>0, RenderedIs DEF Growth
  <2>. QED  BY <2>1, <2>2
<1>2. /\ p \in Int /\ end \in Int /\ 1 <= p /\ p <= end /\ end <= len
      /\ (r > p => r > end) /\ (p > r => p > e)
  <2>1. p \in 1 .. len /\ end \in p .. len /\ len \in Nat
    BY <1>0, EndType
  <2>2. (r > p => r > end) /\ (p > r => p > e)
    BY <1>0, EndType
  <2>. QED  BY <2>1, <2>2
<1>3. /\ W \in Seq(Token) /\ Len(W) = len + delta
      /\ \A i \in 1 .. r : W[i] = w[i]
      /\ \A i \in 1 .. size : W[r + i] = q[i]
      /\ \A i \in e + 1 .. len : W[i + delta] = w[i]
  <2>1. LET X == WithBody(w, r, b)
            d == Growth(w, r, b)
        IN /\ X \in Seq(Token) /\ Len(X) = Len(w) + d
           /\ \A i \in 1 .. r : X[i] = w[i]
           /\ \A i \in 1 .. Size(b) : X[r + i] = Rendered(b)[i]
           /\ \A i \in EndOf(w, r) + 1 .. Len(w) : X[i + d] = w[i]
    BY WithBodyTokens
  <2>. QED  BY <1>0, <2>1
<1>4. w \in Seq(Token) /\ Len(w) = len
  BY <1>0 DEF Tokens
<1>5. CASE p < r
  <2>1. MovedTo(w, r, b, p) = p /\ EndOf(W, p) = end /\ end < r
    <3>1. MovedTo(w, r, b, p) = p
      BY <1>1, <1>2, <1>5 DEF MovedTo
    <3>. QED  BY <1>0, <1>1, <1>2, <1>5, <3>1, WithBodyEnds
  <2>2. SubSeq(W, p + 1 + 0, end + 0) = SubSeq(w, p + 1, end)
    <3>1. p + 1 \in Nat /\ end \in Nat /\ 0 \in Int /\ 1 <= p + 1 /\ p + 1 <= end + 1 /\ end <= Len(w)
          /\ 1 <= p + 1 + 0 /\ end + 0 <= Len(W)
      BY <1>1, <1>2, <1>3, <1>4, <2>1
    <3>2. \A i \in p + 1 .. end : W[i + 0] = w[i]
      <4>. SUFFICES ASSUME NEW i \in p + 1 .. end PROVE W[i + 0] = w[i]
        OBVIOUS
      <4>1. i \in 1 .. r /\ i + 0 = i
        BY <1>1, <1>2, <2>1
      <4>. QED  BY <1>3, <4>1
    <3>. QED  BY <1>3, <1>4, <3>1, <3>2, SameSub
  <2>3. p + 1 + 0 = p + 1 /\ end + 0 = end
    BY <1>2
  <2>4. BodyOf(W, p) = SubSeq(W, p + 1, end) /\ BodyOf(w, p) = SubSeq(w, p + 1, end)
    BY <1>0, <2>1 DEF BodyOf
  <2>5. p # r
    BY <1>1, <1>2, <1>5
  <2>. QED  BY <1>0, <2>1, <2>2, <2>3, <2>4, <2>5
<1>6. CASE p = r
  <2>1. MovedTo(w, r, b, p) = r /\ EndOf(W, r) = r + size /\ end = e
    <3>1. MovedTo(w, r, b, p) = r
      BY <1>1, <1>6 DEF MovedTo
    <3>2. end = e
      BY <1>0, <1>6
    <3>3. EndOf(W, r) = end + delta
      BY <1>0, <1>1, <1>6, <3>1, WithBodyEnds
    <3>. QED  BY <1>1, <3>1, <3>2, <3>3
  <2>2. SubSeq(W, 1 + r, size + r) = SubSeq(q, 1, size)
    <3>1. 1 \in Nat /\ size \in Nat /\ r \in Int /\ 1 <= 1 /\ 1 <= size + 1 /\ size <= Len(q)
          /\ 1 <= 1 + r /\ size + r <= Len(W)
      BY <1>1, <1>2, <1>3
    <3>2. \A i \in 1 .. size : W[i + r] = q[i]
      <4>. SUFFICES ASSUME NEW i \in 1 .. size PROVE W[i + r] = q[i]
        OBVIOUS
      <4>1. i + r = r + i
        BY <1>1
      <4>. QED  BY <1>3, <4>1
    <3>. QED  BY <1>1, <1>3, <3>1, <3>2, SameSub
  <2>3. SubSeq(q, 1, size) = q
    BY <1>1
  <2>4. 1 + r = r + 1 /\ size + r = r + size
    BY <1>1
  <2>. QED  BY <1>0, <1>6, <2>1, <2>2, <2>3, <2>4 DEF BodyOf
<1>7. CASE p > r
  <2>1. MovedTo(w, r, b, p) = p + delta /\ EndOf(W, p + delta) = end + delta /\ p > e
    <3>1. MovedTo(w, r, b, p) = p + delta /\ ~(p < r)
      BY <1>0, <1>1, <1>2, <1>7 DEF MovedTo
    <3>2. EndOf(W, p + delta) = end + delta
      BY <1>0, <3>1, WithBodyEnds
    <3>. QED  BY <1>2, <1>7, <3>1, <3>2
  <2>2. SubSeq(W, p + 1 + delta, end + delta) = SubSeq(w, p + 1, end)
    <3>1. p + 1 \in Nat /\ end \in Nat /\ delta \in Int /\ 1 <= p + 1 /\ p + 1 <= end + 1 /\ end <= Len(w)
          /\ 1 <= p + 1 + delta /\ end + delta <= Len(W)
      BY <1>1, <1>2, <1>3, <1>4, <2>1
    <3>2. \A i \in p + 1 .. end : W[i + delta] = w[i]
      <4>. SUFFICES ASSUME NEW i \in p + 1 .. end PROVE W[i + delta] = w[i]
        OBVIOUS
      <4>1. i \in e + 1 .. len
        BY <1>1, <1>2, <2>1
      <4>. QED  BY <1>3, <4>1
    <3>. QED  BY <1>3, <1>4, <3>1, <3>2, SameSub
  <2>3. p + 1 + delta = (p + delta) + 1 /\ p # r
    BY <1>1, <1>2, <1>7
  <2>4. BodyOf(W, p + delta) = SubSeq(W, (p + delta) + 1, end + delta) /\ BodyOf(w, p) = SubSeq(w, p + 1, end)
    BY <1>0, <2>1 DEF BodyOf
  <2>. QED  BY <1>0, <2>1, <2>2, <2>3, <2>4
<1>. QED  BY <1>1, <1>2, <1>5, <1>6, <1>7

-----------------------------------------------------------------------------
(* What ber-to-der makes of a mail on the way: the headers of m are in w,  *)
(* in their order, at pos, and the bodies as well but those of done, which *)
(* are in DER.                                                             *)
New(m, h) == DerOfCms(Contents(m, PartAt(m, h)))
Moved(m, w, pos, done) ==
  /\ Tokens(w) /\ pos \in [Heads(m) -> Heads(w)]
  /\ \A h, k \in Heads(m) : h < k => pos[h] < pos[k]
  /\ \A p \in Heads(w) : \E h \in Heads(m) : pos[h] = p
  /\ \A h \in Heads(m) : w[pos[h]] = m[h]
  /\ \A h \in Heads(m) : BodyOf(w, pos[h]) = IF h \in done THEN Rendered(Body("base64", New(m, h))) ELSE BodyOf(m, h)

(* Nothing has moved in front of what is done.                             *)
Untouched(m, w, pos, done) ==
  \A h \in Heads(m) : (\A d \in done : h < d) => pos[h] = h /\ EndOf(w, h) = EndOf(m, h)

(* What a part is converted to can be rendered.                            *)
LEMMA NewBody ==
  ASSUME NEW m, Tokens(m), NEW h \in Heads(m), New(m, h) # None
  PROVE  /\ Body("base64", New(m, h)) \in MailBody
         /\ New(m, h) \in SignedData \union EnvelopedData
<1>1. Contents(m, PartAt(m, h)) \in Content
  BY ContentsAre
<1>2. New(m, h) \in SignedData \union EnvelopedData
  BY <1>1, DerOfContent DEF New
<1>. QED  BY <1>2 DEF Body, MailBody, Content, Encoding

(* With the part in front of what is done, one more is done.               *)
LEMMA OneMoreMoved ==
  ASSUME NEW m, Tokens(m), NEW w, NEW pos, NEW done, done \subseteq Heads(m),
         Moved(m, w, pos, done), Untouched(m, w, pos, done),
         NEW r \in Heads(m), \A d \in done : r < d, New(m, r) # None,
         NEW W, W = WithBody(w, r, Body("base64", New(m, r)))
  PROVE  \E to : Moved(m, W, to, done \union {r}) /\ Untouched(m, W, to, done \union {r})
<1>0. PICK b, heads, H : b = Body("base64", New(m, r)) /\ heads = Heads(m) /\ H = Heads(w)
  OBVIOUS
<1>1. b \in MailBody
  BY <1>0, NewBody
<1>2. /\ Tokens(w) /\ pos \in [heads -> H]
      /\ \A h, k \in heads : h < k => pos[h] < pos[k]
      /\ \A p \in H : \E h \in heads : pos[h] = p
      /\ \A h \in heads : w[pos[h]] = m[h]
      /\ \A h \in heads : BodyOf(w, pos[h]) = IF h \in done THEN Rendered(Body("base64", New(m, h))) ELSE BodyOf(m, h)
  BY <1>0 DEF Moved
<1>3. r \in heads /\ r \in H /\ pos[r] = r /\ r \notin done /\ r \in Int /\ W = WithBody(w, r, b)
  <2>1. pos[r] = r /\ r \in heads
    BY <1>0 DEF Untouched
  <2>2. r \in Int
    BY HeadsOf
  <2>. QED  BY <1>0, <1>2, <2>1, <2>2
<1>4. /\ \A h \in heads : h \in Int
      /\ \A p \in H : p \in Int
  BY <1>0, <1>2, HeadsOf
<1>. DEFINE to == [h \in heads |-> MovedTo(w, r, b, pos[h])]
<1>5. /\ Tokens(W)
      /\ \A p \in H : MovedTo(w, r, b, p) \in Heads(W) /\ W[MovedTo(w, r, b, p)] = w[p]
      /\ \A p \in Heads(W) : \E h \in H : p = MovedTo(w, r, b, h)
      /\ \A p, h \in H : p < h => MovedTo(w, r, b, p) < MovedTo(w, r, b, h)
      /\ \A p \in H : BodyOf(W, MovedTo(w, r, b, p)) = IF p = r THEN Rendered(b) ELSE BodyOf(w, p)
  <2>1. /\ Tokens(WithBody(w, r, b))
        /\ \A p \in Heads(w) : MovedTo(w, r, b, p) \in Heads(WithBody(w, r, b))
                               /\ WithBody(w, r, b)[MovedTo(w, r, b, p)] = w[p]
        /\ \A p \in Heads(WithBody(w, r, b)) : \E h \in Heads(w) : p = MovedTo(w, r, b, h)
        /\ \A p, h \in Heads(w) : p < h => MovedTo(w, r, b, p) < MovedTo(w, r, b, h)
    BY <1>0, <1>1, <1>2, <1>3, WithBodyHeads
  <2>2. \A p \in Heads(w) : BodyOf(WithBody(w, r, b), MovedTo(w, r, b, p)) = IF p = r THEN Rendered(b) ELSE BodyOf(w, p)
    BY <1>0, <1>1, <1>2, <1>3, WithBodyBodies
  <2>. QED  BY <1>0, <1>3, <2>1, <2>2
<1>6. \A h \in heads : pos[h] \in H /\ to[h] = MovedTo(w, r, b, pos[h])
  BY <1>2
<1>. HIDE DEF to
<1>7. to \in [heads -> Heads(W)]
  BY <1>5, <1>6 DEF to
<1>8. \A h, k \in heads : h < k => to[h] < to[k]
  BY <1>2, <1>5, <1>6
<1>9. \A p \in Heads(W) : \E h \in heads : to[h] = p
  <2>. SUFFICES ASSUME NEW p \in Heads(W) PROVE \E h \in heads : to[h] = p
    OBVIOUS
  <2>1. PICK k \in H : p = MovedTo(w, r, b, k)
    BY <1>5
  <2>2. PICK h \in heads : pos[h] = k
    BY <1>2
  <2>. QED  BY <1>6, <2>1, <2>2
<1>10. \A h \in heads : W[to[h]] = m[h]
  BY <1>2, <1>5, <1>6
<1>11. \A h \in heads : h # r => pos[h] # r
  <2>. SUFFICES ASSUME NEW h \in heads, h # r PROVE pos[h] # r
    OBVIOUS
  <2>1. h < r => pos[h] < pos[r]
    BY <1>2, <1>3
  <2>2. r < h => pos[r] < pos[h]
    BY <1>2, <1>3
  <2>3. h \in Int /\ pos[h] \in Int
    BY <1>4, <1>6
  <2>. QED  BY <1>3, <2>1, <2>2, <2>3
<1>12. ASSUME NEW h \in heads
       PROVE  BodyOf(W, to[h]) = IF h \in done \union {r} THEN Rendered(Body("base64", New(m, h))) ELSE BodyOf(m, h)
  <2>1. CASE h = r
    <3>1. BodyOf(W, to[h]) = Rendered(b)
      BY <1>3, <1>5, <1>6, <2>1
    <3>. QED  BY <1>0, <2>1, <3>1
  <2>2. CASE h # r
    <3>1. BodyOf(W, to[h]) = BodyOf(w, pos[h])
      BY <1>5, <1>6, <1>11, <2>2
    <3>2. h \in done \union {r} <=> h \in done
      BY <2>2
    <3>. QED  BY <1>2, <3>1, <3>2
  <2>. QED  BY <2>1, <2>2
<1>13. Moved(m, W, to, done \union {r})
  BY <1>0, <1>5, <1>7, <1>8, <1>9, <1>10, <1>12 DEF Moved
<1>14. ASSUME NEW h \in heads, \A d \in done \union {r} : h < d
       PROVE  to[h] = h /\ EndOf(W, h) = EndOf(m, h)
  <2>1. h < r /\ h \in Int /\ \A d \in done : h < d
    BY <1>4, <1>14
  <2>2. pos[h] = h /\ EndOf(w, h) = EndOf(m, h)
    BY <1>0, <2>1 DEF Untouched
  <2>3. to[h] = h /\ MovedTo(w, r, b, h) = h /\ h \in H
    BY <1>3, <1>6, <2>1, <2>2 DEF MovedTo
  <2>4. EndOf(W, h) = EndOf(w, h)
    BY <1>0, <1>1, <1>2, <1>3, <2>1, <2>3, WithBodyEnds
  <2>. QED  BY <2>2, <2>3, <2>4
<1>15. Untouched(m, W, to, done \union {r})
  BY <1>0, <1>14 DEF Untouched
<1>. QED  BY <1>13, <1>15

(* Of the parts from the back, the first is the last in the mail.          *)
LEMMA NextPart ==
  ASSUME NEW parts, NEW m, NEW H, H \subseteq Nat, PartsBack(parts, m, H), parts # <<>>
  PROVE  LET r == parts[1].offset_body IN
         /\ r \in H /\ parts[1] = PartAt(m, r) /\ \A h \in H \ {r} : h < r
         /\ PartsBack(Tail(parts), m, H \ {r})
<1>. DEFINE S == {PartAt(m, i) : i \in H}
<1>0. parts \in Seq(S)
  BY DEF PartsBack
<1>. HIDE DEF S
<1>. PICK r, len, rest : r = parts[1].offset_body /\ len = Len(parts) /\ rest = Tail(parts)
  OBVIOUS
<1>1. len \in Nat /\ len >= 1 /\ DOMAIN parts = 1 .. len /\ \A n \in 1 .. len : parts[n] \in S
  BY <1>0
<1>2. /\ rest \in Seq(S) /\ Len(rest) = len - 1 /\ DOMAIN rest = 1 .. len - 1
      /\ \A n \in 1 .. len - 1 : rest[n] = parts[n + 1]
  BY <1>0, <1>1
<1>3. /\ \A n \in 1 .. len : parts[n].offset_body \in H /\ parts[n] = PartAt(m, parts[n].offset_body)
      /\ \A k, n \in 1 .. len : k < n <=> parts[k].offset_body > parts[n].offset_body
      /\ \A i \in H : \E n \in 1 .. len : parts[n].offset_body = i
  BY <1>1 DEF PartsBack
<1>4. r \in H /\ parts[1] = PartAt(m, r) /\ r \in Int
  <2>1. 1 \in 1 .. len
    BY <1>1
  <2>2. parts[1].offset_body \in H /\ parts[1] = PartAt(m, parts[1].offset_body)
    BY <1>3, <2>1
  <2>3. r \in H /\ parts[1] = PartAt(m, r)
    BY <2>2
  <2>4. H \subseteq Int
    OBVIOUS
  <2>. QED  BY <2>3, <2>4
<1>5. \A n \in 1 .. len - 1 : n + 1 \in 1 .. len /\ 1 < n + 1 /\ 1 \in 1 .. len
  BY <1>1
<1>6. \A n \in 1 .. len - 1 : rest[n].offset_body \in H /\ rest[n].offset_body < r /\ rest[n] = PartAt(m, rest[n].offset_body)
  <2>. SUFFICES ASSUME NEW n \in 1 .. len - 1
                PROVE  rest[n].offset_body \in H /\ rest[n].offset_body < r /\ rest[n] = PartAt(m, rest[n].offset_body)
    OBVIOUS
  <2>1. n + 1 \in 1 .. len /\ 1 < n + 1 /\ 1 \in 1 .. len /\ rest[n] = parts[n + 1]
    BY <1>2, <1>5
  <2>2. parts[1].offset_body > parts[n + 1].offset_body /\ parts[n + 1].offset_body \in H
        /\ parts[n + 1] = PartAt(m, parts[n + 1].offset_body)
    BY <1>3, <2>1
  <2>. PICK x : x = parts[n + 1].offset_body
    OBVIOUS
  <2>3. x \in H /\ r > x
    BY <2>2
  <2>5. x \in Int
    BY <2>3
  <2>4. x < r
    BY <1>4, <2>3, <2>5
  <2>. QED  BY <2>1, <2>2, <2>4
<1>7. \A i \in H \ {r} : \E n \in 1 .. len - 1 : rest[n].offset_body = i
  <2>. SUFFICES ASSUME NEW i \in H \ {r} PROVE \E n \in 1 .. len - 1 : rest[n].offset_body = i
    OBVIOUS
  <2>1. PICK n \in 1 .. len : parts[n].offset_body = i
    BY <1>3
  <2>2. n # 1
    BY <2>1
  <2>. PICK k \in Int : k = n - 1
    BY <1>1
  <2>3. k \in 1 .. len - 1 /\ n = k + 1
    BY <1>1, <2>2
  <2>4. rest[k] = parts[n]
    BY <1>2, <2>3
  <2>. QED  BY <2>1, <2>3, <2>4
<1>8. \A h \in H \ {r} : h < r
  <2>. SUFFICES ASSUME NEW h \in H \ {r} PROVE h < r
    OBVIOUS
  <2>1. PICK n \in 1 .. len - 1 : rest[n].offset_body = h
    BY <1>7
  <2>2. rest[n].offset_body < r
    BY <1>6
  <2>. QED  BY <2>1, <2>2
<1>9. \A k, n \in 1 .. len - 1 : k < n <=> rest[k].offset_body > rest[n].offset_body
  <2>. SUFFICES ASSUME NEW k \in 1 .. len - 1, NEW n \in 1 .. len - 1
                PROVE  k < n <=> rest[k].offset_body > rest[n].offset_body
    OBVIOUS
  <2>1. k + 1 \in 1 .. len /\ n + 1 \in 1 .. len /\ rest[k] = parts[k + 1] /\ rest[n] = parts[n + 1]
    BY <1>2, <1>5
  <2>2. k + 1 < n + 1 <=> parts[k + 1].offset_body > parts[n + 1].offset_body
    BY <1>3, <2>1
  <2>3. k < n <=> k + 1 < n + 1
    BY <1>1
  <2>. QED  BY <2>1, <2>2, <2>3
<1>10. rest \in Seq({PartAt(m, i) : i \in H \ {r}})
  <2>. DEFINE T == {PartAt(m, i) : i \in H \ {r}}
  <2>1. \A n \in 1 .. len - 1 : rest[n] \in T
    <3>. SUFFICES ASSUME NEW n \in 1 .. len - 1 PROVE rest[n] \in T
      OBVIOUS
    <3>1. rest[n].offset_body \in H \ {r} /\ rest[n] = PartAt(m, rest[n].offset_body)
      BY <1>4, <1>6
    <3>. QED  BY <3>1
  <2>2. len - 1 \in Nat
    BY <1>1
  <2>. HIDE DEF T
  <2>. PICK max \in Nat : max = len - 1
    BY <2>2
  <2>8. rest \in [1 .. Len(rest) -> S]
    <3>1. \A s \in Seq(S) : s \in [1 .. Len(s) -> S]
      OBVIOUS
    <3>. QED  BY <1>2, <3>1
  <2>9. Len(rest) = max
    BY <1>2
  <2>3. rest = [n \in 1 .. max |-> rest[n]]
    BY <2>8, <2>9
  <2>4. \A n \in 1 .. max : rest[n] \in T
    BY <2>1
  <2>5. rest \in [1 .. max -> T]
    BY <2>3, <2>4
  <2>6. \A f \in [1 .. max -> T] : f \in Seq(T)
    OBVIOUS
  <2>7. rest \in Seq(T)
    BY <2>5, <2>6
  <2>. QED  BY <2>7 DEF T
<1>11. PartsBack(rest, m, H \ {r})
  <2>1. \A n \in 1 .. len - 1 : rest[n].offset_body \in H \ {r}
    BY <1>4, <1>6
  <2>. QED  BY <1>2, <1>6, <1>7, <1>9, <1>10, <2>1 DEF PartsBack
<1>. QED  BY <1>4, <1>8, <1>11

Pkcs7Heads(m) == {i \in Heads(m) : IsPkcs7(m[i].of)}

(* What of the parts is done is behind what is still to be done.           *)
RewriteInv ==
  /\ stage = "rewrite" =>
       \E pos, done :
         /\ done \subseteq Pkcs7Heads(mail) /\ \A h \in done : New(mail, h) # None
         /\ Moved(mail, work, pos, done) /\ Untouched(mail, work, pos, done)
         /\ PartsBack(todo, mail, Pkcs7Heads(mail) \ done)
         /\ \A h \in Pkcs7Heads(mail) \ done, d \in done : h < d
  /\ Rewritten =>
       /\ mail \in Mail /\ \A h \in Pkcs7Heads(mail) : New(mail, h) # None
       /\ \E pos : Moved(mail, disk[job.output], pos, Pkcs7Heads(mail))

(* At the beginning, everything is in its place.                           *)
LEMMA NothingMoved ==
  ASSUME NEW m, Tokens(m)
  PROVE  \E pos : Moved(m, m, pos, {}) /\ Untouched(m, m, pos, {})
<1>. DEFINE pos == [h \in Heads(m) |-> h]
<1>1. Moved(m, m, pos, {})
  BY DEF Moved
<1>2. Untouched(m, m, pos, {})
  BY DEF Untouched
<1>. QED  BY <1>1, <1>2

(* The steps of ber-to-der keep the invariant.                             *)
LEMMA BeginRewriteMoves == ModifyTypeOK /\ BeginRewrite => RewriteInv'
<1>. SUFFICES ASSUME ModifyTypeOK, BeginRewrite PROVE RewriteInv'
  OBVIOUS
<1>1. CASE Fail
  BY <1>1 DEF Fail, RewriteInv, Rewritten
<1>2. CASE ~Fail
  <2>1. /\ stage' = "rewrite" /\ work' = mail /\ Tokens(mail) /\ mail' = mail
        /\ PartsBack(todo', mail, Pkcs7Heads(mail))
    BY <1>2, BeginRewriteIs DEF Pkcs7Heads
  <2>2. PICK pos : Moved(mail, mail, pos, {}) /\ Untouched(mail, mail, pos, {})
    BY <2>1, NothingMoved
  <2>3. Pkcs7Heads(mail) \ {} = Pkcs7Heads(mail)
    OBVIOUS
  <2>4. \E done : /\ done \subseteq Pkcs7Heads(mail) /\ \A h \in done : New(mail, h) # None
                  /\ Moved(mail, mail, pos, done) /\ Untouched(mail, mail, pos, done)
                  /\ PartsBack(todo', mail, Pkcs7Heads(mail) \ done)
                  /\ \A h \in Pkcs7Heads(mail) \ done, d \in done : h < d
    <3>. WITNESS {}
    <3>. QED  BY <2>1, <2>2, <2>3
  <2>. QED  BY <2>1, <2>4 DEF RewriteInv, Rewritten
<1>. QED  BY <1>1, <1>2

LEMMA RewritePartMoves == ModifyTypeOK /\ RewriteInv /\ RewritePart => RewriteInv'
<1>. SUFFICES ASSUME ModifyTypeOK, RewriteInv, RewritePart PROVE RewriteInv'
  OBVIOUS
<1>1. CASE Fail
  BY <1>1 DEF Fail, RewriteInv, Rewritten
<1>2. CASE ~Fail
  <2>. DEFINE H == Pkcs7Heads(mail)
  <2>0. /\ stage = "rewrite" /\ stage' = stage /\ todo # <<>> /\ todo' = Tail(todo) /\ mail' = mail
        /\ DerOfCms(Contents(mail, todo[1])) # None
        /\ work' = Spliced(work, todo[1], Body("base64", DerOfCms(Contents(mail, todo[1]))))
    BY <1>2 DEF RewritePart
  <2>1. Tokens(mail) /\ H \subseteq Nat /\ H \subseteq Heads(mail)
    BY <2>0, MailTokens, HeadsOf DEF ModifyTypeOK, Pkcs7Heads
  <2>2. PICK pos, done :
          /\ done \subseteq H /\ \A h \in done : New(mail, h) # None
          /\ Moved(mail, work, pos, done) /\ Untouched(mail, work, pos, done)
          /\ PartsBack(todo, mail, H \ done)
          /\ \A h \in H \ done, d \in done : h < d
    BY <2>0 DEF RewriteInv
  <2>. PICK r : r = todo[1].offset_body
    OBVIOUS
  <2>. HIDE DEF H
  <2>3. /\ r \in H \ done /\ todo[1] = PartAt(mail, r) /\ \A h \in (H \ done) \ {r} : h < r
        /\ PartsBack(todo', mail, (H \ done) \ {r})
    BY <2>0, <2>1, <2>2, NextPart
  <2>4. r \in Heads(mail) /\ \A d \in done : r < d
    BY <2>1, <2>2, <2>3
  <2>5. New(mail, r) # None /\ work' = Spliced(work, PartAt(mail, r), Body("base64", New(mail, r)))
    BY <2>0, <2>3 DEF New
  <2>6. work' = WithBody(work, r, Body("base64", New(mail, r)))
    <3>1. EndOf(work, r) = EndOf(mail, r)
      BY <2>2, <2>4 DEF Untouched
    <3>2. PartAt(mail, r).offset_body = r /\ PartAt(mail, r).offset_end = EndOf(work, r)
      BY <3>1 DEF EndOf, PartAt
    <3>. QED  BY <2>5, <3>2 DEF Spliced, WithBody, Splice
  <2>7. PICK to : Moved(mail, work', to, done \union {r}) /\ Untouched(mail, work', to, done \union {r})
    <3>1. done \subseteq Heads(mail)
      BY <2>1, <2>2
    <3>. QED  BY <2>1, <2>2, <2>4, <2>5, <2>6, <3>1, OneMoreMoved
  <2>. DEFINE all == done \union {r}
  <2>8. /\ all \subseteq H /\ \A h \in all : New(mail, h) # None
        /\ PartsBack(todo', mail, H \ all)
        /\ \A h \in H \ all, d \in all : h < d
    <3>1. H \ all = (H \ done) \ {r}
      OBVIOUS
    <3>. QED  BY <2>2, <2>3, <2>5, <3>1
  <2>9. \E p, d : /\ d \subseteq H /\ \A h \in d : New(mail, h) # None
                  /\ Moved(mail, work', p, d) /\ Untouched(mail, work', p, d)
                  /\ PartsBack(todo', mail, H \ d)
                  /\ \A h \in H \ d, e \in d : h < e
    <3>. HIDE DEF all
    <3>. WITNESS to, all
    <3>. QED  BY <2>7, <2>8 DEF all
  <2>. QED  BY <2>0, <2>9 DEF RewriteInv, Rewritten, H
<1>. QED  BY <1>1, <1>2

LEMMA WriteRewrittenMoves == ModifyTypeOK /\ Disk /\ RewriteInv /\ WriteRewritten => RewriteInv'
<1>. SUFFICES ASSUME ModifyTypeOK, Disk, RewriteInv, WriteRewritten PROVE RewriteInv'
  OBVIOUS
<1>1. CASE Fail
  BY <1>1 DEF Fail, RewriteInv, Rewritten
<1>2. CASE ~Fail
  <2>. DEFINE H == Pkcs7Heads(mail)
  <2>1. /\ stage = "rewrite" /\ todo = <<>> /\ stage' = "ok" /\ UNCHANGED <<job, mail>>
        /\ disk' = [disk EXCEPT ![job.output] = work]
    BY <1>2 DEF WriteRewritten, Finish, Written
  <2>2. mail \in Mail /\ job.output \in Path
    BY <2>1 DEF ModifyTypeOK, ModifyCall
  <2>3. disk'[job.output] = work
    BY <2>1, <2>2 DEF Disk
  <2>4. PICK pos, done :
          /\ done \subseteq H /\ \A h \in done : New(mail, h) # None
          /\ Moved(mail, work, pos, done)
          /\ PartsBack(todo, mail, H \ done)
    BY <2>1 DEF RewriteInv
  <2>5. done = H
    <3>. HIDE DEF H
    <3>1. \A i \in H \ done : \E n \in DOMAIN todo : todo[n].offset_body = i
      BY <2>4 DEF PartsBack
    <3>2. DOMAIN todo = {}
      BY <2>1
    <3>. QED  BY <2>4, <3>1, <3>2
  <2>. QED  BY <2>1, <2>2, <2>3, <2>4, <2>5 DEF RewriteInv
<1>. QED  BY <1>1, <1>2

(* Every step of every program keeps the invariant.                        *)
LEMMA RewriteInvSteps == ToolsInv /\ RewriteInv /\ [Next]_vars => RewriteInv'
<1>. SUFFICES ASSUME ToolsInv, RewriteInv, [Next]_vars PROVE RewriteInv'
  OBVIOUS
<1>0. ModifyTypeOK /\ Disk
  BY DEF ToolsInv, Counted
<1>1. ASSUME stage' # "rewrite", ~Rewritten' PROVE RewriteInv'
  BY <1>1 DEF RewriteInv
<1>2. CASE Modifying
  <2>1. CASE ParseSigned \/ AddCertificates \/ AskNextUrl \/ AddCrl \/ AddOcspResponse
    <3>1. stage' \notin {"rewrite", "ok"}
      BY <2>1 DEF ParseSigned, AddCertificates, AskNextUrl, AddCrl, AddOcspResponse, Fail
    <3>. QED  BY <1>1, <3>1 DEF Rewritten
  <2>2. CASE WriteModified
    <3>1. stage = "write" /\ stage' \in {"ok", "failed"} /\ job' = job
      BY <2>2 DEF WriteModified, Finish, Fail
    <3>2. job.tool = "modify"
      BY <1>0, <3>1 DEF ModifyTypeOK
    <3>. QED  BY <1>1, <3>1, <3>2 DEF Rewritten
  <2>. QED
    BY <1>0, <1>2, <2>1, <2>2, BeginRewriteMoves, RewritePartMoves, WriteRewrittenMoves DEF Modifying, ModifyStep
<1>3. CASE Running
  <2>1. phase \notin {"idle", "exited"} /\ UNCHANGED modifyVars
    BY <1>3 DEF Running, CommandStep, ResolveTrust, ReadEml, ReadKey, ExtractKey, TakeKey, GatherKeys, Run, WriteOutput
  <2>2. stage' = "idle"
    BY <2>1 DEF ToolsInv, OneAtATime, modifyVars
  <2>. QED  BY <1>1, <2>2 DEF Rewritten
<1>4. CASE BeginModifyCms
  BY <1>1, <1>4 DEF BeginModifyCms, StartModifyCms, Rewritten
<1>5. CASE BeginSmime
  BY <1>1, <1>5 DEF BeginSmime, Rewritten
<1>6. CASE BeginWeb \/ Extracting \/ UNCHANGED vars
  <2>1. UNCHANGED <<job, mail, work, todo, stage, disk>>
    BY <1>6 DEF BeginWeb, Extracting, vars, modifyVars
  <2>. QED  BY <2>1 DEF RewriteInv, Rewritten
<1>. QED  BY <1>2, <1>3, <1>4, <1>5, <1>6 DEF Next, Work, Over

-----------------------------------------------------------------------------
(* What ber-to-der writes.                                                 *)

(* A set of numbers in ascending order.                                    *)
Ascending(a, N, S) ==
  /\ \A n \in 1 .. N : a[n] \in S
  /\ \A k, n \in 1 .. N : k < n <=> a[k] < a[n]
  /\ \A x \in S : \E n \in 1 .. N : a[n] = x

(* There is only one such order.                                           *)
LEMMA SameOrder ==
  ASSUME NEW N \in Nat, NEW S, S \subseteq Int, NEW a, NEW c, Ascending(a, N, S), Ascending(c, N, S)
  PROVE  \A n \in 1 .. N : a[n] = c[n]
<1>0. /\ \A n \in 1 .. N : a[n] \in S /\ c[n] \in S
      /\ \A k, n \in 1 .. N : k < n <=> a[k] < a[n]
      /\ \A k, n \in 1 .. N : k < n <=> c[k] < c[n]
      /\ \A x \in S : (\E n \in 1 .. N : a[n] = x) /\ (\E n \in 1 .. N : c[n] = x)
  BY DEF Ascending
<1>. DEFINE T == {n \in 1 .. N : a[n] # c[n]}
<1>. SUFFICES ASSUME T # {} PROVE FALSE
  OBVIOUS
<1>1. T \subseteq Nat
  OBVIOUS
<1>. PICK n : n = Min(T)
  OBVIOUS
<1>2. n \in T /\ \A k \in T : n <= k
  BY <1>1, LeastExists
<1>3. n \in 1 .. N /\ a[n] # c[n] /\ \A k \in 1 .. N : k < n => a[k] = c[k]
  BY <1>1, <1>2
<1>. HIDE DEF T
<1>4. ASSUME NEW f, NEW g,
             \A k \in 1 .. N : f[k] \in Int /\ g[k] \in Int /\ (k < n => f[k] = g[k]),
             \A k, l \in 1 .. N : k < l <=> f[k] < f[l],
             \A k, l \in 1 .. N : k < l <=> g[k] < g[l],
             f[n] < g[n], NEW k \in 1 .. N, g[k] = f[n]
      PROVE  FALSE
  <2>1. k \in Int /\ n \in Int /\ f[k] \in Int /\ g[k] \in Int /\ f[n] \in Int /\ g[n] \in Int
    BY <1>3, <1>4
  <2>2. g[k] < g[n]
    BY <1>4, <2>1
  <2>3. k < n
    BY <1>3, <1>4, <2>2
  <2>4. f[k] = f[n] /\ f[k] < f[n]
    BY <1>3, <1>4, <2>3
  <2>. QED  BY <2>1, <2>4
<1>5. \A k \in 1 .. N : a[k] \in Int /\ c[k] \in Int
  BY <1>0
<1>6. a[n] < c[n] \/ c[n] < a[n]
  <2>1. a[n] \in Int /\ c[n] \in Int
    BY <1>3, <1>5
  <2>. QED  BY <1>3, <2>1
<1>7. CASE a[n] < c[n]
  <2>1. PICK k \in 1 .. N : c[k] = a[n]
    BY <1>0, <1>3
  <2>. QED  BY <1>0, <1>3, <1>4, <1>5, <1>7, <2>1
<1>8. CASE c[n] < a[n]
  <2>1. PICK k \in 1 .. N : a[k] = c[n]
    BY <1>0, <1>3
  <2>. QED  BY <1>0, <1>3, <1>4, <1>5, <1>8, <2>1
<1>. QED  BY <1>6, <1>7, <1>8

(* What is read from a body behind a header with an encoding.              *)
Reading(body, encoding) ==
  IF body # <<>> /\ body = Rendered(body[1].of) /\ body[1].of.text = encoding THEN body[1].of.content ELSE Junk

(* What is read from a part depends on its body and its encoding only.     *)
LEMMA ContentsRead ==
  ASSUME NEW m, NEW h
  PROVE  Contents(m, PartAt(m, h)) = Reading(BodyOf(m, h), m[h].of.encoding)
BY DEF Contents, Reading, BodyOf, EndOf, PartAt

(* What was rendered reads as it was.                                      *)
LEMMA RenderedReads ==
  ASSUME NEW b \in MailBody
  PROVE  Reading(Rendered(b), b.text) = b.content
<1>1. 1 \in 1 .. Size(b) /\ Len(Rendered(b)) = Size(b) /\ Rendered(b)[1] = [of |-> b, at |-> 1]
  BY RenderedIs
<1>2. Rendered(b)[1].of = b /\ Rendered(b) # <<>>
  BY <1>1
<1>. QED  BY <1>2 DEF Reading


(* The parts of the mail that was read and of the one written are          *)
(* numbered alike.                                                         *)
LEMMA SameNumbers ==
  ASSUME NEW m, Tokens(m), NEW w, NEW pos, NEW done, Moved(m, w, pos, done)
  PROVE  /\ Len(Parts(w)) = Len(Parts(m)) /\ DOMAIN Parts(m) = 1 .. Len(Parts(m))
         /\ \A n \in DOMAIN Parts(m) : \E h \in Heads(m) :
              Parts(m)[n] = PartAt(m, h) /\ Parts(w)[n] = PartAt(w, pos[h])
<1>1. /\ Tokens(w) /\ pos \in [Heads(m) -> Heads(w)]
      /\ \A h, k \in Heads(m) : h < k => pos[h] < pos[k]
      /\ \A p \in Heads(w) : \E h \in Heads(m) : pos[h] = p
  BY DEF Moved
<1>2. Heads(m) \subseteq Nat /\ IsFiniteSet(Heads(m)) /\ Heads(w) \subseteq Nat
  BY <1>1, HeadsOf
<1>3. \A h, k \in Heads(m) : h # k => pos[h] # pos[k]
  <2>. SUFFICES ASSUME NEW h \in Heads(m), NEW k \in Heads(m), h # k PROVE pos[h] # pos[k]
    OBVIOUS
  <2>1. h \in Int /\ k \in Int /\ pos[h] \in Int /\ pos[k] \in Int
    BY <1>1, <1>2
  <2>2. h < k \/ k < h
    BY <2>1
  <2>3. pos[h] < pos[k] \/ pos[k] < pos[h]
    BY <1>1, <2>2
  <2>. QED  BY <2>1, <2>3
<1>4. Cardinality(Heads(w)) = Cardinality(Heads(m))
  <2>1. pos \in Bijection(Heads(m), Heads(w))
    BY <1>1, <1>3 DEF Bijection, Injection, Surjection, IsInjective
  <2>. QED  BY <1>2, <2>1, FS_Bijection DEF ExistsBijection
<1>. PICK P, Q : P = Parts(m) /\ Q = Parts(w)
  OBVIOUS
<1>5. PartsFrom(P, m, Heads(m)) /\ PartsFrom(Q, w, Heads(w))
  BY <1>1, PartsWithAre
<1>6. /\ Len(P) = Cardinality(Heads(m)) /\ Len(Q) = Cardinality(Heads(m))
      /\ P \in Seq({PartAt(m, i) : i \in Heads(m)}) /\ Q \in Seq({PartAt(w, i) : i \in Heads(w)})
  BY <1>4, <1>5 DEF PartsFrom
<1>. DEFINE N == Cardinality(Heads(m))
<1>7. N \in Nat /\ DOMAIN P = 1 .. N /\ DOMAIN Q = 1 .. N
  BY <1>6
<1>. HIDE DEF N
<1>8. /\ \A n \in 1 .. N : P[n].offset_body \in Heads(m) /\ P[n] = PartAt(m, P[n].offset_body)
      /\ \A k, n \in 1 .. N : k < n <=> P[k].offset_body < P[n].offset_body
      /\ \A h \in Heads(m) : \E n \in 1 .. N : P[n].offset_body = h
  BY <1>5, <1>7 DEF PartsFrom
<1>9. /\ \A n \in 1 .. N : Q[n].offset_body \in Heads(w) /\ Q[n] = PartAt(w, Q[n].offset_body)
      /\ \A k, n \in 1 .. N : k < n <=> Q[k].offset_body < Q[n].offset_body
      /\ \A p \in Heads(w) : \E n \in 1 .. N : Q[n].offset_body = p
  BY <1>5, <1>7 DEF PartsFrom
<1>. DEFINE a == [n \in 1 .. N |-> Q[n].offset_body]
<1>. DEFINE b == [n \in 1 .. N |-> P[n].offset_body]
<1>. DEFINE c == [n \in 1 .. N |-> pos[b[n]]]
<1>10. /\ \A n \in 1 .. N : a[n] \in Heads(w)
       /\ \A k, n \in 1 .. N : k < n <=> a[k] < a[n]
       /\ \A p \in Heads(w) : \E n \in 1 .. N : a[n] = p
  BY <1>9
<1>11. /\ \A n \in 1 .. N : b[n] \in Heads(m)
       /\ \A k, n \in 1 .. N : k < n <=> b[k] < b[n]
       /\ \A h \in Heads(m) : \E n \in 1 .. N : b[n] = h
  BY <1>8
<1>12. \A n \in 1 .. N : c[n] = pos[b[n]]
  OBVIOUS
<1>. HIDE DEF a, b, c
<1>13. \A n \in 1 .. N : c[n] \in Heads(w)
  BY <1>1, <1>11, <1>12
<1>14. \A k, n \in 1 .. N : k < n <=> c[k] < c[n]
  <2>. SUFFICES ASSUME NEW k \in 1 .. N, NEW n \in 1 .. N PROVE k < n <=> c[k] < c[n]
    OBVIOUS
  <2>1. k \in Int /\ n \in Int /\ c[k] \in Int /\ c[n] \in Int
    BY <1>2, <1>7, <1>13
  <2>2. ASSUME NEW i \in 1 .. N, NEW j \in 1 .. N, i < j PROVE c[i] < c[j]
    BY <1>1, <1>11, <1>12, <2>2
  <2>3. k < n \/ k = n \/ n < k
    BY <2>1
  <2>. QED  BY <2>1, <2>2, <2>3
<1>15. \A p \in Heads(w) : \E n \in 1 .. N : c[n] = p
  <2>. SUFFICES ASSUME NEW p \in Heads(w) PROVE \E n \in 1 .. N : c[n] = p
    OBVIOUS
  <2>1. PICK h \in Heads(m) : pos[h] = p
    BY <1>1
  <2>2. PICK n \in 1 .. N : b[n] = h
    BY <1>11
  <2>. QED  BY <1>12, <2>1, <2>2
<1>16. \A n \in 1 .. N : a[n] = c[n]
  <2>. PICK S : S = Heads(w)
    OBVIOUS
  <2>1. S \subseteq Int
    BY <1>2
  <2>2. Ascending(a, N, S)
    BY <1>10 DEF Ascending
  <2>3. Ascending(c, N, S)
    BY <1>13, <1>14, <1>15 DEF Ascending
  <2>. QED  BY <1>7, <2>1, <2>2, <2>3, SameOrder
<1>17. \A n \in 1 .. N : b[n] \in Heads(m) /\ P[n] = PartAt(m, b[n]) /\ Q[n] = PartAt(w, pos[b[n]])
  <2>1. \A n \in 1 .. N : Q[n] = PartAt(w, a[n]) /\ P[n] = PartAt(m, b[n])
    BY <1>8, <1>9 DEF a, b
  <2>. QED  BY <1>11, <1>12, <1>16, <2>1
<1>. QED  BY <1>6, <1>7, <1>17 DEF N

(* What is at the place of a part.                                         *)
LEMMA MovedReads ==
  ASSUME NEW m, Tokens(m), NEW w, NEW pos, NEW done, Moved(m, w, pos, done), NEW h \in Heads(m),
         h \in done => New(m, h) # None
  PROVE  /\ pos[h] \in Heads(w) /\ w[pos[h]] = m[h]
         /\ h \in done /\ m[h].of.encoding = "base64" => Contents(w, PartAt(w, pos[h])) = New(m, h)
         /\ h \notin done => Contents(w, PartAt(w, pos[h])) = Contents(m, PartAt(m, h))
<1>1. /\ pos[h] \in Heads(w) /\ w[pos[h]] = m[h]
      /\ BodyOf(w, pos[h]) = IF h \in done THEN Rendered(Body("base64", New(m, h))) ELSE BodyOf(m, h)
  BY DEF Moved
<1>2. Contents(w, PartAt(w, pos[h])) = Reading(BodyOf(w, pos[h]), m[h].of.encoding)
  BY <1>1, ContentsRead
<1>3. CASE h \in done
  <2>. DEFINE b == Body("base64", New(m, h))
  <2>1. b \in MailBody
    BY <1>3, NewBody
  <2>2. b.text = "base64" /\ b.content = New(m, h)
    BY DEF Body
  <2>. HIDE DEF b
  <2>3. Reading(Rendered(b), "base64") = New(m, h)
    BY <2>1, <2>2, RenderedReads
  <2>. QED  BY <1>1, <1>2, <1>3, <2>3 DEF b
<1>4. CASE h \notin done
  BY <1>1, <1>2, <1>4, ContentsRead
<1>. QED  BY <1>1, <1>3, <1>4

(* Each part is where it was among the others, and reads as the DER of     *)
(* what it was or as it did.                                               *)
LEMMA InPlace == RewriteInv => RewrittenInPlace
<1>. SUFFICES ASSUME RewriteInv, Rewritten
              PROVE  LET before == Parts(mail)
                         after == Parts(disk[job.output])
                     IN /\ Len(after) = Len(before)
                        /\ \A i \in DOMAIN before :
                             /\ after[i].header = before[i].header
                             /\ before[i].header.encoding = "base64" \/ ~IsPkcs7(before[i].header) =>
                                  Contents(disk[job.output], after[i]) =
                                    IF IsPkcs7(before[i].header) THEN DerOfCms(Contents(mail, before[i]))
                                    ELSE Contents(mail, before[i])
  BY DEF RewrittenInPlace
<1>. PICK w : w = disk[job.output]
  OBVIOUS
<1>1. mail \in Mail /\ \A h \in Pkcs7Heads(mail) : New(mail, h) # None
  BY DEF RewriteInv
<1>2. PICK pos : Moved(mail, w, pos, Pkcs7Heads(mail))
  BY DEF RewriteInv
<1>3. Tokens(mail)
  BY <1>1, MailTokens
<1>4. Len(Parts(w)) = Len(Parts(mail))
  BY <1>2, <1>3, SameNumbers
<1>5. ASSUME NEW i \in DOMAIN Parts(mail)
      PROVE  /\ Parts(w)[i].header = Parts(mail)[i].header
             /\ Parts(mail)[i].header.encoding = "base64" \/ ~IsPkcs7(Parts(mail)[i].header) =>
                  Contents(w, Parts(w)[i]) =
                    IF IsPkcs7(Parts(mail)[i].header) THEN DerOfCms(Contents(mail, Parts(mail)[i]))
                    ELSE Contents(mail, Parts(mail)[i])
  <2>1. PICK h \in Heads(mail) : Parts(mail)[i] = PartAt(mail, h) /\ Parts(w)[i] = PartAt(w, pos[h])
    BY <1>2, <1>3, <1>5, SameNumbers
  <2>2. h \in Pkcs7Heads(mail) <=> IsPkcs7(mail[h].of)
    BY DEF Pkcs7Heads
  <2>3. /\ w[pos[h]] = mail[h]
        /\ h \in Pkcs7Heads(mail) /\ mail[h].of.encoding = "base64" => Contents(w, PartAt(w, pos[h])) = New(mail, h)
        /\ h \notin Pkcs7Heads(mail) => Contents(w, PartAt(w, pos[h])) = Contents(mail, PartAt(mail, h))
    BY <1>1, <1>2, <1>3, MovedReads
  <2>4. PartAt(mail, h).header = mail[h].of /\ PartAt(w, pos[h]).header = mail[h].of
    BY <2>3 DEF PartAt
  <2>. QED  BY <2>1, <2>2, <2>3, <2>4 DEF New
<1>. QED  BY <1>4, <1>5

-----------------------------------------------------------------------------
(* What verify makes of it.                                                *)

(* A token as from_utf8_lossy leaves it.                                   *)
Cleaned(token) == IF token.at > 0 /\ token.of.text = "binary" THEN [token EXCEPT !.of.content = Junk] ELSE token
CleanedBody(body) == [i \in DOMAIN body |-> Cleaned(body[i])]

(* It is still a token, with the same place in the same text.              *)
LEMMA CleanedIs ==
  ASSUME NEW token \in Token
  PROVE  /\ Cleaned(token) \in Token /\ Cleaned(token).at = token.at
         /\ token.at = 0 => Cleaned(token) = token
         /\ token.at # 0 => Cleaned(token).of.text = token.of.text
         /\ token.at # 0 /\ Cleaned(token) # token => token.of.text = "binary"
<1>1. CASE token.at > 0 /\ token.of.text = "binary"
  <2>1. token.of \in MailBody /\ token.at \in 1 .. 3 /\ token = [of |-> token.of, at |-> token.at]
    BY <1>1 DEF Token
  <2>. PICK b, at : b = token.of /\ at = token.at
    OBVIOUS
  <2>2. Cleaned(token) = [of |-> [b EXCEPT !.content = Junk], at |-> at]
    BY <1>1, <2>1 DEF Cleaned
  <2>3. [b EXCEPT !.content = Junk] \in MailBody /\ [b EXCEPT !.content = Junk].text = b.text
    BY <2>1 DEF MailBody, Content
  <2>. PICK c : c = [b EXCEPT !.content = Junk]
    OBVIOUS
  <2>4. Cleaned(token) = [of |-> c, at |-> at] /\ c \in MailBody /\ c.text = b.text
    BY <2>2, <2>3
  <2>5. [of |-> c, at |-> at] \in Token
    BY <2>1, <2>4 DEF Token
  <2>6. Cleaned(token).of = c /\ Cleaned(token).at = at /\ at # 0
    BY <2>1, <2>4
  <2>. QED  BY <1>1, <2>4, <2>5, <2>6
<1>2. CASE ~(token.at > 0 /\ token.of.text = "binary")
  BY <1>2 DEF Cleaned
<1>. QED  BY <1>1, <1>2

(* What is read from the tokens of a mail loses the content in binary, and *)
(* nothing else.                                                           *)
LEMMA LossyIs ==
  ASSUME NEW m \in Mail, NEW L, L = Lossy(m)
  PROVE  /\ L \in Mail /\ Tokens(L) /\ L # Junk /\ Len(L) = Len(m) /\ Heads(L) = Heads(m)
         /\ \A h \in Heads(m) : L[h] = m[h] /\ EndOf(L, h) = EndOf(m, h) /\ BodyOf(L, h) = CleanedBody(BodyOf(m, h))
<1>1. Tokens(m) /\ m \in Seq(Token) /\ m # <<>> /\ m[1].at = 0 /\ m # Junk
  BY MailAssumption DEF Mail, Tokens
<1>2. L = [i \in DOMAIN m |-> Cleaned(m[i])]
  BY <1>1 DEF Lossy, Cleaned
<1>3. /\ Len(m) \in Nat /\ DOMAIN m = 1 .. Len(m) /\ 1 \in Heads(m) /\ Heads(m) \subseteq 1 .. Len(m)
      /\ \A i \in DOMAIN m : m[i] \in Token
  BY <1>1, HeadsOf
<1>4. /\ DOMAIN L = 1 .. Len(m)
      /\ \A i \in 1 .. Len(m) : L[i] = Cleaned(m[i]) /\ L[i] \in Token /\ L[i].at = m[i].at /\ (m[i].at = 0 => L[i] = m[i])
  BY <1>2, <1>3, CleanedIs
<1>5. L \in Seq(Token) /\ Len(L) = Len(m)
  <2>. PICK len \in Nat : len = Len(m)
    BY <1>3
  <2>1. L = [i \in 1 .. len |-> Cleaned(m[i])] /\ \A i \in 1 .. len : Cleaned(m[i]) \in Token
    BY <1>2, <1>3, CleanedIs
  <2>. QED  BY <2>1
<1>6. Heads(L) = Heads(m)
  BY <1>3, <1>4 DEF Heads
<1>7. \A h \in Heads(m) : L[h] = m[h]
  BY <1>3, <1>4 DEF Heads
<1>8. L # <<>> /\ L[1].at = 0
  BY <1>1, <1>3, <1>4, <1>5
<1>9. L \in Mail
  BY <1>3, <1>5, <1>6, <1>7, <1>8 DEF Mail
<1>10. ASSUME NEW h \in Heads(m) PROVE EndOf(L, h) = EndOf(m, h) /\ BodyOf(L, h) = CleanedBody(BodyOf(m, h))
  <2>1. EndOf(L, h) = EndOf(m, h)
    BY <1>5, <1>6 DEF EndOf, PartAt
  <2>. PICK e : e = EndOf(m, h)
    OBVIOUS
  <2>2. e \in h .. Len(m) /\ h \in 1 .. Len(m)
    BY <1>1, EndType
  <2>. DEFINE size == e - h
  <2>3. size \in Nat /\ e - (h + 1) + 1 = size /\ \A k \in 1 .. size : h + 1 + k - 1 = h + k /\ h + k \in 1 .. Len(m)
    BY <1>3, <2>2
  <2>4. SubSeq(m, h + 1, e) = [k \in 1 .. size |-> m[h + k]]
    <3>1. SubSeq(m, h + 1, e) = [k \in 1 .. e - (h + 1) + 1 |-> m[h + 1 + k - 1]]
      BY <1>1, <1>3, <2>2
    <3>. HIDE DEF size
    <3>. QED  BY <2>3, <3>1
  <2>5. SubSeq(L, h + 1, e) = [k \in 1 .. size |-> L[h + k]]
    <3>1. SubSeq(L, h + 1, e) = [k \in 1 .. e - (h + 1) + 1 |-> L[h + 1 + k - 1]]
      BY <1>3, <1>5, <2>2
    <3>. HIDE DEF size
    <3>. QED  BY <2>3, <3>1
  <2>. HIDE DEF size
  <2>6. \A k \in 1 .. size : L[h + k] = Cleaned(m[h + k])
    BY <1>4, <2>3
  <2>. PICK a : a = SubSeq(m, h + 1, e)
    OBVIOUS
  <2>7. DOMAIN a = 1 .. size /\ \A k \in 1 .. size : a[k] = m[h + k]
    BY <2>4
  <2>8. CleanedBody(a) = [k \in 1 .. size |-> Cleaned(a[k])]
    BY <2>7 DEF CleanedBody
  <2>9. SubSeq(L, h + 1, e) = CleanedBody(a)
    <3>1. \A k \in 1 .. size : L[h + k] = Cleaned(a[k])
      BY <2>6, <2>7
    <3>. QED  BY <2>5, <2>8, <3>1
  <2>10. BodyOf(L, h) = SubSeq(L, h + 1, e) /\ BodyOf(m, h) = a
    BY <2>1 DEF BodyOf
  <2>. QED  BY <2>1, <2>9, <2>10
<1>. QED  BY <1>5, <1>6, <1>7, <1>8, <1>9, <1>10, MailAssumption DEF Tokens

(* What is in base64 is not lost.                                          *)
LEMMA CleanedReads ==
  ASSUME NEW body \in Seq(Token)
  PROVE  Reading(CleanedBody(body), "base64") = Reading(body, "base64")
<1>. PICK c : c = CleanedBody(body)
  OBVIOUS
<1>. DEFINE n == Len(body)
<1>1. /\ n \in Nat /\ DOMAIN body = 1 .. n /\ DOMAIN c = 1 .. n
      /\ \A i \in 1 .. n : c[i] = Cleaned(body[i]) /\ body[i] \in Token
      /\ body = [i \in 1 .. n |-> body[i]] /\ c = [i \in 1 .. n |-> c[i]]
  BY DEF CleanedBody
<1>2. body = <<>> <=> n = 0
  OBVIOUS
<1>3. c = <<>> <=> n = 0
  BY <1>1
<1>. HIDE DEF n
<1>4. ASSUME NEW b, b = Rendered(b[1].of), b # <<>>, b[1].of.text = "base64",
             NEW a, DOMAIN a = 1 .. n, DOMAIN b = 1 .. n,
             b = [i \in 1 .. n |-> b[i]], a = [i \in 1 .. n |-> a[i]],
             \A i \in 1 .. n : a[i] \in Token /\ b[i] \in Token /\ (a[i] = Cleaned(b[i]) \/ b[i] = Cleaned(a[i]))
      PROVE  a = b
  <2>. PICK of : of = b[1].of
    OBVIOUS
  <2>1. b = [i \in 1 .. Size(of) |-> [of |-> of, at |-> i]] /\ of.text = "base64"
    BY <1>4 DEF Rendered
  <2>2. 1 .. Size(of) = 1 .. n
    BY <1>4, <2>1
  <2>3. \A i \in 1 .. n : b[i] = [of |-> of, at |-> i]
    BY <2>1, <2>2
  <2>4. \A i \in 1 .. n : b[i].of = of /\ b[i].at = i /\ i # 0
    <3>. SUFFICES ASSUME NEW i \in 1 .. n PROVE b[i].of = of /\ b[i].at = i /\ i # 0
      OBVIOUS
    <3>. PICK token : token = b[i]
      OBVIOUS
    <3>1. token = [of |-> of, at |-> i] /\ i # 0
      BY <1>1, <2>3
    <3>2. token.of = of /\ token.at = i
      BY <3>1
    <3>. QED  BY <3>1, <3>2
  <2>5. \A i \in 1 .. n : a[i] = b[i]
    <3>. SUFFICES ASSUME NEW i \in 1 .. n PROVE a[i] = b[i]
      OBVIOUS
    <3>1. b[i].of.text = "base64" /\ b[i].at # 0
      BY <2>1, <2>4
    <3>2. CASE a[i] = Cleaned(b[i])
      BY <3>1, <3>2 DEF Cleaned
    <3>3. CASE b[i] = Cleaned(a[i])
      <4>1. a[i].at = b[i].at /\ (a[i] # b[i] => a[i].of.text = "binary") /\ b[i].of.text = a[i].of.text
        BY <1>4, <3>1, <3>3, CleanedIs
      <4>. QED  BY <3>1, <4>1
    <3>. QED  BY <1>4, <3>2, <3>3
  <2>. QED  BY <1>4, <2>5
<1>5. \A i \in 1 .. n : c[i] \in Token
  BY <1>1, CleanedIs
<1>6. ASSUME body # <<>>, body = Rendered(body[1].of), body[1].of.text = "base64" PROVE c = body
  BY <1>1, <1>4, <1>5, <1>6
<1>7. ASSUME c # <<>>, c = Rendered(c[1].of), c[1].of.text = "base64" PROVE c = body
  BY SMTT(30), <1>1, <1>4, <1>5, <1>7
<1>. QED  BY <1>6, <1>7 DEF Reading

(* The same part of two mails, its header and its body.                    *)
PartOfMail(m, i) == SubSeq(m, i, EndOf(m, i))

(* Parts with the same header and the same body are the same text.         *)
LEMMA SamePart ==
  ASSUME NEW u, Tokens(u), NEW v, Tokens(v), NEW i \in Heads(u), NEW j \in Heads(v),
         u[i] = v[j], BodyOf(u, i) = BodyOf(v, j)
  PROVE  PartOfMail(u, i) = PartOfMail(v, j)
<1>1. ASSUME NEW m, Tokens(m), NEW h \in Heads(m)
      PROVE  PartOfMail(m, h) = [k \in 1 .. Len(BodyOf(m, h)) + 1 |-> IF k = 1 THEN m[h] ELSE BodyOf(m, h)[k - 1]]
  <2>. PICK e : e = EndOf(m, h)
    OBVIOUS
  <2>1. e \in h .. Len(m) /\ h \in 1 .. Len(m) /\ Len(m) \in Nat /\ m \in Seq(Token)
    BY <1>1, EndType DEF Tokens
  <2>. DEFINE size == e - h
  <2>2. /\ size \in Nat /\ e - (h + 1) + 1 = size /\ e - h + 1 = size + 1
        /\ \A k \in 1 .. size : h + 1 + k - 1 = h + k
        /\ \A k \in 1 .. size + 1 : k = 1 => h + k - 1 = h
        /\ \A k \in 1 .. size + 1 : k # 1 => k - 1 \in 1 .. size /\ h + k - 1 = h + (k - 1)
    BY <2>1
  <2>3. SubSeq(m, h + 1, e) = [k \in 1 .. size |-> m[h + k]]
    <3>1. SubSeq(m, h + 1, e) = [k \in 1 .. e - (h + 1) + 1 |-> m[h + 1 + k - 1]]
      BY <2>1
    <3>. HIDE DEF size
    <3>. QED  BY <2>2, <3>1
  <2>4. SubSeq(m, h, e) = [k \in 1 .. size + 1 |-> m[h + k - 1]]
    <3>1. SubSeq(m, h, e) = [k \in 1 .. e - h + 1 |-> m[h + k - 1]]
      BY <2>1
    <3>. HIDE DEF size
    <3>. QED  BY <2>2, <3>1
  <2>. HIDE DEF size
  <2>. PICK a : a = SubSeq(m, h + 1, e)
    OBVIOUS
  <2>5. Len(a) = size /\ \A k \in 1 .. size : a[k] = m[h + k]
    <3>1. a = [k \in 1 .. size |-> m[h + k]] /\ size \in Nat
      BY <2>2, <2>3
    <3>. QED  BY ONLY <3>1
  <2>6. \A k \in 1 .. size + 1 : m[h + k - 1] = IF k = 1 THEN m[h] ELSE a[k - 1]
    BY <2>2, <2>5
  <2>7. SubSeq(m, h, e) = [k \in 1 .. Len(a) + 1 |-> IF k = 1 THEN m[h] ELSE a[k - 1]]
    BY <2>4, <2>5, <2>6
  <2>8. PartOfMail(m, h) = SubSeq(m, h, e) /\ BodyOf(m, h) = a
    BY DEF PartOfMail, BodyOf
  <2>. QED  BY <2>7, <2>8
<1>. QED  BY <1>1

(* Once in DER, another conversion changes no verdict.                     *)
LEMMA DerAgain ==
  ASSUME NEW content \in Content, NEW d, d = DerOfCms(content), d # None, NEW e, e = DerOfCms(d)
  PROVE  /\ e # None /\ e.type = d.type
         /\ d.type = "signed" =>
              /\ e.payload = d.payload
              /\ \A from, signed, t : VerifySignedData(e, from, signed, t) = VerifySignedData(d, from, signed, t)
<1>1. d \in SignedData \union EnvelopedData
  BY DerOfContent
<1>2. None \notin SignedData \union EnvelopedData
  BY MailAssumption
<1>3. CASE d \in SignedData
  <2>1. e \in SignedData /\ ToSet(e.certs) = ToSet(d.certs) /\ e = [d EXCEPT !.form = "DER", !.certs = InDer(@)]
    BY <1>3, DerOfSigned
  <2>2. /\ e.version = d.version /\ e.crls = d.crls /\ e.keyIdentified = d.keyIdentified /\ e.signer = d.signer
        /\ e.features = d.features /\ e.payload = d.payload /\ e.type = "signed" /\ d.type = "signed"
    BY <1>3, <2>1 DEF SignedData
  <2>3. Conformant(e) = Conformant(d)
    <3>1. Features(e) = Features(d)
      BY <2>1, <2>2, SameFeatures
    <3>. QED  BY <2>2, <3>1 DEF Conformant
  <2>4. ASSUME NEW anchors PROVE Trusted(e.signer, e, anchors) = Trusted(d.signer, d, anchors)
    <3>1. Trusted(d.signer, e, anchors) = Trusted(d.signer, d, anchors)
      BY <2>1 DEF Trusted
    <3>. QED  BY <2>2, <3>1
  <2>5. \A from, signed, t : SignedWell(e, from, signed, t) = SignedWell(d, from, signed, t)
    BY <2>2, <2>3, <2>4 DEF SignedWell, IsData
  <2>. QED  BY <1>2, <2>1, <2>2, <2>5 DEF VerifySignedData, IsData
<1>4. CASE d \notin SignedData
  <2>1. d \in EnvelopedData /\ e = [d EXCEPT !.form = "DER"]
    BY <1>1, <1>4 DEF DerOfCms
  <2>2. e \in EnvelopedData /\ e.type = "enveloped" /\ d.type = "enveloped"
    BY <2>1 DEF EnvelopedData, Form
  <2>. QED  BY <1>2, <2>2
<1>. QED  BY <1>3, <1>4

(* The least of some headers is the least after they have moved.           *)
LEMMA LeastMoves ==
  ASSUME NEW m, Tokens(m), NEW w, NEW pos, NEW done, Moved(m, w, pos, done),
         NEW H, H \subseteq Heads(m), H # {}
  PROVE  Min(H) \in H /\ Min({pos[h] : h \in H}) = pos[Min(H)]
<1>1. /\ Tokens(w) /\ pos \in [Heads(m) -> Heads(w)]
      /\ \A h, k \in Heads(m) : h < k => pos[h] < pos[k]
  BY DEF Moved
<1>2. Heads(m) \subseteq Nat /\ Heads(w) \subseteq Nat
  BY <1>1, HeadsOf
<1>. PICK least : least = Min(H)
  OBVIOUS
<1>3. least \in H /\ \A h \in H : least <= h
  BY <1>2, LeastExists
<1>4. \A h \in H : pos[least] <= pos[h]
  <2>. SUFFICES ASSUME NEW h \in H PROVE pos[least] <= pos[h]
    OBVIOUS
  <2>1. least \in Int /\ h \in Int /\ pos[h] \in Int /\ pos[least] \in Int /\ least <= h
    BY <1>1, <1>2, <1>3
  <2>2. least = h \/ least < h
    BY <2>1
  <2>3. least = h \/ pos[least] < pos[h]
    BY <1>1, <1>3, <2>2
  <2>. QED  BY <2>1, <2>3
<1>. PICK K : K = {pos[h] : h \in H}
  OBVIOUS
<1>5. K \subseteq Nat /\ pos[least] \in K /\ \A p \in K : pos[least] <= p
  BY <1>1, <1>2, <1>3, <1>4
<1>. QED  BY <1>3, <1>5, LeastIs

(* What is at a header in base64 reads the same after from_utf8_lossy.     *)
LEMMA LossyReads ==
  ASSUME NEW m \in Mail, NEW h \in Heads(m), m[h].of.encoding = "base64"
  PROVE  Contents(Lossy(m), PartAt(Lossy(m), h)) = Contents(m, PartAt(m, h))
<1>. PICK L : L = Lossy(m)
  OBVIOUS
<1>1. Tokens(m) /\ Len(m) \in Nat /\ m \in Seq(Token)
  BY MailTokens DEF Tokens, Mail
<1>2. L[h] = m[h] /\ BodyOf(L, h) = CleanedBody(BodyOf(m, h))
  BY LossyIs
<1>3. BodyOf(m, h) \in Seq(Token)
  <2>1. EndOf(m, h) \in h .. Len(m) /\ h \in 1 .. Len(m)
    BY <1>1, EndType
  <2>. QED  BY <1>1, <2>1 DEF BodyOf
<1>4. Contents(L, PartAt(L, h)) = Reading(CleanedBody(BodyOf(m, h)), "base64")
  BY <1>2, ContentsRead
<1>5. Contents(m, PartAt(m, h)) = Reading(BodyOf(m, h), "base64")
  BY ContentsRead
<1>. QED  BY <1>3, <1>4, <1>5, CleanedReads

(* What ber-to-der has made of a mail when it is done.                     *)
Converted(m, w, pos) ==
  /\ m \in Mail /\ w \in Mail /\ Moved(m, w, pos, Pkcs7Heads(m)) /\ pos[1] = 1
  /\ \A h \in Pkcs7Heads(m) : New(m, h) # None

(* Its first header is still the first, so that it is a mail again.        *)
LEMMA ConvertedIs ==
  ASSUME NEW m \in Mail, NEW w, NEW pos, Moved(m, w, pos, Pkcs7Heads(m)), \A h \in Pkcs7Heads(m) : New(m, h) # None
  PROVE  Converted(m, w, pos)
<1>1. Tokens(m) /\ (~IsMultipart(m[1].of) => Heads(m) = {1})
  BY MailTokens DEF Mail
<1>2. /\ Tokens(w) /\ pos \in [Heads(m) -> Heads(w)]
      /\ \A h, k \in Heads(m) : h < k => pos[h] < pos[k]
      /\ \A p \in Heads(w) : \E h \in Heads(m) : pos[h] = p
      /\ \A h \in Heads(m) : w[pos[h]] = m[h]
  BY DEF Moved
<1>3. 1 \in Heads(m) /\ 1 \in Heads(w) /\ Heads(m) \subseteq 1 .. Len(m) /\ Heads(w) \subseteq 1 .. Len(w)
  BY <1>1, <1>2, HeadsOf
<1>4. \A h \in Heads(m) : h \in Nat /\ pos[h] \in Nat /\ h >= 1 /\ pos[h] >= 1
  BY <1>2, <1>3
<1>5. pos[1] = 1
  <2>1. PICK h \in Heads(m) : pos[h] = 1
    BY <1>2, <1>3
  <2>2. h = 1 \/ 1 < h
    BY <1>4
  <2>3. h = 1 \/ pos[1] < pos[h]
    BY <1>2, <1>3, <2>2
  <2>. QED  BY <1>3, <1>4, <2>1, <2>3
<1>6. w \in Mail
  <2>1. w[1] = m[1]
    BY <1>2, <1>3, <1>5
  <2>2. Heads(m) = {1} => Heads(w) = {1}
    BY <1>2, <1>3, <1>5
  <2>. QED  BY <1>1, <1>2, <2>1, <2>2 DEF Mail, Tokens
<1>. QED  BY <1>5, <1>6 DEF Converted

(* A part in base64 that was converted, as verify reads it.                *)
LEMMA ConvertedReads ==
  ASSUME NEW m, NEW w, NEW pos, Converted(m, w, pos), NEW h \in Pkcs7Heads(m), m[h].of.encoding = "base64",
         NEW d, d = DerOfCms(Contents(Lossy(m), PartAt(Lossy(m), h))),
         NEW e, e = DerOfCms(Contents(Lossy(w), PartAt(Lossy(w), pos[h])))
  PROVE  /\ d # None /\ e # None /\ e.type = d.type
         /\ d.type = "signed" =>
              /\ e.payload = d.payload
              /\ \A from, signed, t : VerifySignedData(e, from, signed, t) = VerifySignedData(d, from, signed, t)
<1>1. m \in Mail /\ w \in Mail /\ h \in Heads(m) /\ New(m, h) # None /\ Moved(m, w, pos, Pkcs7Heads(m)) /\ Tokens(m)
  BY MailTokens DEF Converted, Pkcs7Heads
<1>2. d = New(m, h)
  BY <1>1, LossyReads DEF New
<1>3. pos[h] \in Heads(w) /\ w[pos[h]] = m[h] /\ Contents(w, PartAt(w, pos[h])) = New(m, h)
  BY <1>1, MovedReads
<1>4. e = DerOfCms(New(m, h))
  BY <1>1, <1>3, LossyReads
<1>5. Contents(m, PartAt(m, h)) \in Content
  BY <1>1, ContentsAre
<1>. QED  BY <1>1, <1>2, <1>4, <1>5, DerAgain DEF New

(* An opaque mail is read from its first part.                             *)
LEMMA OpaqueAt ==
  ASSUME NEW m, Tokens(m), RootOf(m).kind = "pkcs7-mime"
  PROVE  OpaqueCms(m) = DerOfCms(Contents(m, PartAt(m, 1)))
<1>1. FirstPart(m, LAMBDA h : h.kind = "pkcs7-mime") = PartAt(m, 1)
  <2>. PICK T : T = {i \in Heads(m) : m[i].of.kind = "pkcs7-mime"}
    OBVIOUS
  <2>1. 1 \in Heads(m) /\ Heads(m) \subseteq 1 .. Len(m) /\ Len(m) \in Nat
    BY HeadsOf
  <2>2. 1 \in T /\ T \subseteq Nat /\ \A i \in T : 1 <= i
    BY <2>1 DEF RootOf
  <2>3. Min(T) = 1 /\ T # {}
    BY <2>2, LeastIs
  <2>. QED  BY <2>3 DEF FirstPart
<1>. QED  BY <1>1 DEF OpaqueCms

(* An opaque message in base64 is judged as before.                        *)
LEMMA OpaqueAlike ==
  ASSUME NEW m, NEW w, NEW pos, Converted(m, w, pos), RootOf(m).kind = "pkcs7-mime",
         m[1].of.encoding = "base64", NEW t
  PROVE  Verify(Lossy(w), t) = Verify(Lossy(m), t)
<1>. PICK u, v : u = Lossy(m) /\ v = Lossy(w)
  OBVIOUS
<1>1. m \in Mail /\ w \in Mail /\ Tokens(m) /\ Moved(m, w, pos, Pkcs7Heads(m)) /\ pos[1] = 1
  BY MailTokens DEF Converted
<1>2. 1 \in Heads(m) /\ 1 \in Heads(w) /\ w[1] = m[1]
  BY <1>1, HeadsOf DEF Moved
<1>3. Tokens(u) /\ u # Junk /\ u[1] = m[1] /\ Tokens(v) /\ v # Junk /\ v[1] = m[1]
  BY <1>1, <1>2, LossyIs
<1>4. RootOf(u) = RootOf(m) /\ RootOf(v) = RootOf(m)
  BY <1>3 DEF RootOf
<1>5. 1 \in Pkcs7Heads(m)
  BY <1>2 DEF Pkcs7Heads, IsPkcs7, RootOf
<1>. PICK d, e : d = OpaqueCms(u) /\ e = OpaqueCms(v)
  OBVIOUS
<1>6. d = DerOfCms(Contents(u, PartAt(u, 1))) /\ e = DerOfCms(Contents(v, PartAt(v, pos[1])))
  BY <1>1, <1>3, <1>4, OpaqueAt
<1>7. /\ d # None /\ e # None /\ e.type = d.type
      /\ d.type = "signed" =>
           /\ e.payload = d.payload
           /\ \A from, signed : VerifySignedData(e, from, signed, t) = VerifySignedData(d, from, signed, t)
  BY <1>5, <1>6, ConvertedReads
<1>8. Verify(u, t) = IF d.type # "signed" THEN NothingVerified ELSE VerifySignedData(d, RootOf(m).from, d.payload, t)
  BY <1>3, <1>4, <1>7 DEF Verify
<1>9. Verify(v, t) = IF e.type # "signed" THEN NothingVerified ELSE VerifySignedData(e, RootOf(m).from, e.payload, t)
  BY <1>3, <1>4, <1>7 DEF Verify
<1>. QED  BY <1>7, <1>8, <1>9

(* The part whose signature is next to it is not one that was converted.   *)
LEMMA ClearSignedAlike ==
  ASSUME NEW m, NEW w, NEW pos, Converted(m, w, pos),
         \A i \in Pkcs7Heads(m) : m[i].of.encoding = "base64",
         \A i, j \in Pkcs7Heads(m) : i = j, NEW from, NEW t
  PROVE  VerifyClearSigned(Lossy(w), from, t) = VerifyClearSigned(Lossy(m), from, t)
<1>. PICK u, v : u = Lossy(m) /\ v = Lossy(w)
  OBVIOUS
<1>1. m \in Mail /\ w \in Mail /\ Tokens(m) /\ Tokens(w) /\ Moved(m, w, pos, Pkcs7Heads(m)) /\ pos[1] = 1
  BY MailTokens DEF Converted
<1>2. /\ pos \in [Heads(m) -> Heads(w)]
      /\ \A h, k \in Heads(m) : h < k => pos[h] < pos[k]
      /\ \A p \in Heads(w) : \E h \in Heads(m) : pos[h] = p
      /\ \A h \in Heads(m) : w[pos[h]] = m[h]
      /\ \A h \in Heads(m) \ Pkcs7Heads(m) : BodyOf(w, pos[h]) = BodyOf(m, h)
  BY <1>1 DEF Moved
<1>3. /\ Tokens(u) /\ Heads(u) = Heads(m) /\ \A h \in Heads(m) : u[h] = m[h] /\ BodyOf(u, h) = CleanedBody(BodyOf(m, h))
      /\ Tokens(v) /\ Heads(v) = Heads(w) /\ \A h \in Heads(w) : v[h] = w[h] /\ BodyOf(v, h) = CleanedBody(BodyOf(w, h))
  BY <1>1, LossyIs
<1>. DEFINE S == {i \in Heads(m) : m[i].of.kind = "pkcs7-signature"}
<1>. DEFINE C == Heads(m) \ {1}
<1>. DEFINE Image(H) == {pos[h] : h \in H}
<1>4. S \subseteq Pkcs7Heads(m) /\ S \subseteq Heads(m) /\ C \subseteq Heads(m)
  BY DEF Pkcs7Heads, IsPkcs7
<1>5. {i \in Heads(u) : u[i].of.kind = "pkcs7-signature"} = S /\ Heads(u) \ {1} = C
  BY <1>3
<1>6. {i \in Heads(v) : v[i].of.kind = "pkcs7-signature"} = Image(S)
  BY <1>2, <1>3
<1>7. \A h, k \in Heads(m) : h # k => pos[h] # pos[k]
  <2>. SUFFICES ASSUME NEW h \in Heads(m), NEW k \in Heads(m), h # k PROVE pos[h] # pos[k]
    OBVIOUS
  <2>1. Heads(m) \subseteq Nat /\ Heads(w) \subseteq Nat
    BY <1>1, HeadsOf
  <2>2. h \in Int /\ k \in Int /\ pos[h] \in Int /\ pos[k] \in Int
    BY <1>2, <2>1
  <2>3. h < k \/ k < h
    BY <2>2
  <2>4. pos[h] < pos[k] \/ pos[k] < pos[h]
    BY <1>2, <2>3
  <2>. QED  BY <2>2, <2>4
<1>8. 1 \in Heads(m)
  BY <1>1, HeadsOf
<1>9. ASSUME NEW H, H \subseteq Heads(m), NEW h \in Heads(m) PROVE Image(H \ {h}) = Image(H) \ {pos[h]}
  BY <1>7, <1>9
<1>10. Image(Heads(m)) = Heads(w)
  BY <1>2
<1>11. Heads(v) \ {1} = Image(C)
  BY <1>1, <1>3, <1>8, <1>9, <1>10
<1>. HIDE DEF S, C
<1>12. CASE S = {}
  <2>1. Image(S) = {}
    BY <1>12
  <2>2. VerifyClearSigned(u, from, t) = NothingVerified
    BY <1>5, <1>12 DEF VerifyClearSigned
  <2>3. VerifyClearSigned(v, from, t) = NothingVerified
    BY <1>6, <2>1 DEF VerifyClearSigned
  <2>. QED  BY <2>2, <2>3
<1>13. CASE S # {}
  <2>. PICK s : s = Min(S)
    OBVIOUS
  <2>1. s \in S /\ Min(Image(S)) = pos[s] /\ s \in Heads(m) /\ s \in Pkcs7Heads(m)
    BY <1>1, <1>4, <1>13, LeastMoves
  <2>2. Image(S) # {}
    BY <2>1
  <2>. DEFINE R == C \ {s}
  <2>3. Image(C) \ {pos[s]} = Image(R) /\ R \subseteq Heads(m)
    BY <1>4, <1>9, <2>1
  <2>. PICK cu, cv : cu = DerOfCms(Contents(u, PartAt(u, s))) /\ cv = DerOfCms(Contents(v, PartAt(v, pos[s])))
    OBVIOUS
  <2>4. /\ cu # None /\ cv # None /\ cv.type = cu.type
        /\ cu.type = "signed" =>
             \A signed : VerifySignedData(cv, from, signed, t) = VerifySignedData(cu, from, signed, t)
    BY <2>1, ConvertedReads
  <2>. HIDE DEF Image
  <2>5. CASE R = {}
    <3>1. Image(R) = {}
      BY <2>5 DEF Image
    <3>2. VerifyClearSigned(u, from, t) = NothingVerified
      BY <1>5, <2>5 DEF VerifyClearSigned
    <3>3. VerifyClearSigned(v, from, t) = NothingVerified
      BY <1>6, <1>11, <2>1, <2>3, <3>1 DEF VerifyClearSigned
    <3>. QED  BY <3>2, <3>3
  <2>6. CASE R # {}
    <3>. PICK p : p = Min(R)
      OBVIOUS
    <3>1. p \in R /\ Min(Image(R)) = pos[p] /\ p \in Heads(m) /\ p # s
      BY <1>1, <2>3, <2>6, LeastMoves DEF Image
    <3>2. Image(R) # {}
      BY <3>1 DEF Image
    <3>3. p \notin Pkcs7Heads(m)
      BY <2>1, <3>1
    <3>4. PartOfMail(u, p) = PartOfMail(v, pos[p])
      <4>1. pos[p] \in Heads(w) /\ w[pos[p]] = m[p] /\ BodyOf(w, pos[p]) = BodyOf(m, p)
        BY <1>2, <3>1, <3>3
      <4>2. u[p] = v[pos[p]] /\ BodyOf(u, p) = BodyOf(v, pos[p]) /\ p \in Heads(u) /\ pos[p] \in Heads(v)
        BY <1>3, <3>1, <4>1
      <4>. QED  BY <1>3, <4>2, SamePart
    <3>5. PartAt(u, p).offset_body = p /\ PartAt(v, pos[p]).offset_body = pos[p]
      BY DEF PartAt
    <3>6. VerifyClearSigned(u, from, t) =
            IF cu.type # "signed" THEN NothingVerified ELSE VerifySignedData(cu, from, PartOfMail(u, p), t)
      BY <1>5, <1>13, <2>4, <2>6, <3>5 DEF VerifyClearSigned, PartOfMail, EndOf
    <3>7. VerifyClearSigned(v, from, t) =
            IF cv.type # "signed" THEN NothingVerified ELSE VerifySignedData(cv, from, PartOfMail(v, pos[p]), t)
      <4>. PICK T, D, sv, pv : /\ T = {i \in Heads(v) : v[i].of.kind = "pkcs7-signature"}
                               /\ D = Heads(v) \ {1} /\ sv = pos[s] /\ pv = pos[p]
        OBVIOUS
      <4>1. T # {} /\ Min(T) = sv /\ D \ {sv} # {} /\ Min(D \ {sv}) = pv
        BY <1>6, <1>11, <2>1, <2>2, <2>3, <3>1, <3>2
      <4>2. cv = DerOfCms(Contents(v, PartAt(v, sv))) /\ cv # None /\ PartAt(v, pv).offset_body = pv
        BY <2>4, <3>5
      <4>3. VerifyClearSigned(v, from, t) =
              IF cv.type # "signed" THEN NothingVerified
              ELSE VerifySignedData(cv, from, SubSeq(v, pv, PartAt(v, pv).offset_end), t)
        BY <4>1, <4>2 DEF VerifyClearSigned
      <4>. QED  BY <4>3 DEF PartOfMail, EndOf
    <3>. QED  BY <2>4, <3>4, <3>6, <3>7
  <2>. QED  BY <2>5, <2>6
<1>. QED  BY <1>12, <1>13

(* Whatever the mail is, verify says of what was written what it says of   *)
(* the mail.                                                               *)
LEMMA Alike == RewriteInv => RewrittenVerifiesAlike
<1>. SUFFICES ASSUME RewriteInv, Rewritten,
                     \A i \in Pkcs7Heads(mail) : mail[i].of.encoding = "base64",
                     RootOf(mail).kind = "multipart/signed" => \A i, j \in Pkcs7Heads(mail) : i = j,
                     NEW t \in Trusts
              PROVE  Verify(Lossy(disk[job.output]), t) = Verify(Lossy(mail), t)
  BY DEF RewrittenVerifiesAlike, Pkcs7Heads
<1>. PICK m, w : m = mail /\ w = disk[job.output]
  OBVIOUS
<1>1. PICK pos : Converted(m, w, pos)
  <2>1. m \in Mail /\ \A h \in Pkcs7Heads(m) : New(m, h) # None
    BY DEF RewriteInv
  <2>2. PICK pos : Moved(m, w, pos, Pkcs7Heads(m))
    BY DEF RewriteInv
  <2>. QED  BY <2>1, <2>2, ConvertedIs
<1>2. m \in Mail /\ w \in Mail /\ Tokens(m) /\ Moved(m, w, pos, Pkcs7Heads(m)) /\ pos[1] = 1
  BY <1>1, MailTokens DEF Converted
<1>3. 1 \in Heads(m) /\ 1 \in Heads(w) /\ w[1] = m[1]
  BY <1>2, HeadsOf DEF Moved
<1>4. Lossy(m)[1] = m[1] /\ Lossy(w)[1] = m[1] /\ Lossy(m) # Junk /\ Lossy(w) # Junk
  BY <1>2, <1>3, LossyIs
<1>5. RootOf(Lossy(m)) = RootOf(m) /\ RootOf(Lossy(w)) = RootOf(m)
  BY <1>4 DEF RootOf
<1>6. CASE RootOf(m).kind = "pkcs7-mime"
  <2>1. m[1].of.encoding = "base64"
    BY <1>3, <1>6 DEF Pkcs7Heads, IsPkcs7, RootOf
  <2>. QED  BY <1>1, <1>6, <2>1, OpaqueAlike
<1>7. CASE RootOf(m).kind = "multipart/signed"
  <2>1. VerifyClearSigned(Lossy(w), RootOf(m).from, t) = VerifyClearSigned(Lossy(m), RootOf(m).from, t)
    BY <1>1, <1>7, ClearSignedAlike
  <2>. QED  BY <1>4, <1>5, <1>7, <2>1 DEF Verify
<1>8. CASE RootOf(m).kind \notin {"pkcs7-mime", "multipart/signed"}
  BY <1>4, <1>5, <1>8 DEF Verify
<1>. QED  BY <1>6, <1>7, <1>8

(* ber-to-der, which splices from the back with the offsets of the mail as *)
(* it was read, changes nothing but the PKCS#7 contents, each into its own *)
(* DER, and no verdict of verify.                                          *)
THEOREM RewritingSound == Spec => []RewritingIsSound
<1>1. Init => RewriteInv
  BY DEF Init, ModifyInit, RewriteInv, Rewritten
<1>2. RewriteInv => RewritingIsSound
  BY InPlace, Alike DEF RewritingIsSound
<1>. QED  BY <1>1, <1>2, RewriteInvSteps, Always, PTL DEF Spec

-----------------------------------------------------------------------------
(* What verify and decrypt give out, one layer.                            *)

(* A signature that holds, whoever made it, and one a signer made whom     *)
(* anchors vouch for; and what k opens.                                    *)
SignedBy(cms, anchors) ==
  /\ cms \in SignedData /\ Conformant(cms)
  /\ Trusted(cms.signer, cms, anchors) /\ "OcspRevoked" \notin ToSet(cms.crls)
OpenedBy(cms, k) == cms \in EnvelopedData /\ CanOpen(cms, k)

(* What is read as DER is about the same as what is in the mail.           *)
LEMMA ReadAsDer ==
  ASSUME NEW content \in Content, NEW d, d = DerOfCms(content), d # None
  PROVE  /\ content \in SignedData \union EnvelopedData /\ d.payload = content.payload /\ d.payload \in Payload
         /\ d.type = "signed" => content \in SignedData /\ IsData(d) = IsData(content)
         /\ d.type # "signed" => content \in EnvelopedData
         /\ \A from, signed, t : d.type = "signed" /\ SignedWell(d, from, signed, t) =>
              SignedBy(content, AnchorsOf(t)) /\ content.payload = signed
         /\ \A k : d.type # "signed" /\ CanOpen(d, k) <=> content \in EnvelopedData /\ CanOpen(content, k)
<1>1. CASE content \in SignedData
  <2>1. d \in SignedData /\ ToSet(d.certs) = ToSet(content.certs) /\ d = [content EXCEPT !.form = "DER", !.certs = InDer(@)]
    BY <1>1, DerOfSigned
  <2>2. /\ d.version = content.version /\ d.crls = content.crls /\ d.keyIdentified = content.keyIdentified
        /\ d.signer = content.signer /\ d.features = content.features /\ d.payload = content.payload
        /\ d.type = "signed" /\ content.type = "signed" /\ d.payload \in Payload
    BY <1>1, <2>1 DEF SignedData
  <2>3. Conformant(d) = Conformant(content)
    <3>1. Features(d) = Features(content)
      BY <2>1, <2>2, SameFeatures
    <3>. QED  BY <2>2, <3>1 DEF Conformant
  <2>4. \A anchors : Trusted(d.signer, d, anchors) = Trusted(content.signer, content, anchors)
    <3>. SUFFICES ASSUME NEW anchors PROVE Trusted(d.signer, d, anchors) = Trusted(content.signer, content, anchors)
      OBVIOUS
    <3>1. Trusted(content.signer, d, anchors) = Trusted(content.signer, content, anchors)
      BY <2>1 DEF Trusted
    <3>. QED  BY <2>2, <3>1
  <2>5. \A from, signed, t : SignedWell(d, from, signed, t) => SignedBy(content, AnchorsOf(t)) /\ content.payload = signed
    BY <1>1, <2>2, <2>3, <2>4 DEF SignedWell, SignedBy
  <2>6. content \notin EnvelopedData
    BY <2>2 DEF EnvelopedData
  <2>7. IsData(d) = IsData(content)
    BY <2>2 DEF IsData
  <2>. QED  BY <1>1, <2>2, <2>5, <2>6, <2>7
<1>2. CASE content \notin SignedData
  <2>1. content \in EnvelopedData /\ d = [content EXCEPT !.form = "DER"]
    BY <1>2 DEF DerOfCms
  <2>2. d.type = "enveloped" /\ d.payload = content.payload /\ d.recipients = content.recipients /\ d.payload \in Payload
    BY <2>1 DEF EnvelopedData
  <2>3. \A k : CanOpen(d, k) = CanOpen(content, k)
    BY <2>2 DEF CanOpen
  <2>. QED  BY <1>2, <2>1, <2>2, <2>3
<1>. QED  BY <1>1, <1>2

(* What is read as CMS is there once it is converted.                      *)
LEMMA IsRead ==
  ASSUME NEW content, content \in SignedData \union EnvelopedData
  PROVE  DerOfCms(content) # None
<1>1. CASE content \in SignedData
  BY <1>1, DerOfSigned, MailAssumption
<1>2. CASE content \notin SignedData
  <2>1. DerOfCms(content) \in EnvelopedData
    BY <1>2 DEF DerOfCms, EnvelopedData, Form
  <2>. QED  BY <2>1, MailAssumption
<1>. QED  BY <1>1, <1>2

(* A part by itself is mail.                                               *)
LEMMA PartIsMail ==
  ASSUME NEW m, Tokens(m), NEW i \in Heads(m)
  PROVE  PartOfMail(m, i) \in Mail
<1>. PICK e : e = EndOf(m, i)
  OBVIOUS
<1>1. /\ e \in i .. Len(m) /\ i \in 1 .. Len(m) /\ Len(m) \in Nat /\ m \in Seq(Token)
      /\ \A j \in Heads(m) : j > i => j > e
  BY EndType DEF Tokens
<1>. DEFINE size == e - i + 1
<1>. DEFINE part == PartOfMail(m, i)
<1>2. size \in Nat /\ size >= 1 /\ \A n \in 1 .. size : i + n - 1 \in i .. e /\ i + n - 1 \in 1 .. Len(m)
  BY <1>1
<1>3. part = SubSeq(m, i, e)
  BY DEF PartOfMail
<1>4. part \in Seq(Token) /\ part = [n \in 1 .. size |-> m[i + n - 1]]
  BY <1>1, <1>3
<1>. HIDE DEF part
<1>5. DOMAIN part = 1 .. size /\ part # <<>> /\ part[1] = m[i]
  <2>. HIDE DEF size
  <2>1. 1 \in 1 .. size /\ i + 1 - 1 = i
    BY <1>1, <1>2
  <2>2. DOMAIN part = 1 .. size /\ part[1] = m[i + 1 - 1]
    BY <1>4, <2>1
  <2>3. part # <<>>
    <3>1. DOMAIN <<>> = {}
      OBVIOUS
    <3>. QED  BY <2>1, <2>2, <3>1
  <2>4. part[1] = m[i]
    BY <2>1, <2>2
  <2>. QED  BY <2>2, <2>3, <2>4
<1>6. part[1].at = 0
  BY <1>5, HeadsOf
<1>7. Heads(part) = {1}
  <2>1. ASSUME NEW n \in 1 .. size, n # 1 PROVE part[n].at # 0
    <3>1. part[n] = m[i + n - 1]
      BY <1>4
    <3>2. i + n - 1 > i /\ ~(i + n - 1 > e) /\ i + n - 1 \in DOMAIN m
      BY <1>1, <1>2, <2>1
    <3>3. i + n - 1 \notin Heads(m)
      BY <1>1, <3>2
    <3>. QED  BY <3>1, <3>2, <3>3 DEF Heads
  <2>2. 1 \in 1 .. size
    BY <1>2
  <2>. QED  BY <1>5, <1>6, <2>1, <2>2 DEF Heads
<1>. QED  BY <1>4, <1>5, <1>6, <1>7 DEF Mail, part

(* What of a mail a signer vouches for, and what of it k opens.            *)
VouchedIn(content, m, anchors) == \E cms \in SmimeIn(m) : SignedBy(cms, anchors) /\ cms.payload = content
OpenedIn(content, m, k) == \E cms \in SmimeIn(m) : OpenedBy(cms, k) /\ cms.payload = content

(* What may be in a mail is mail.                                          *)
LEMMA InsideIsMail ==
  ASSUME NEW m \in Mail
  PROVE  ContentsOf(m) \subseteq Mail
<1>1. Tokens(m)
  BY MailTokens
<1>2. CASE RootOf(m).kind = "pkcs7-mime"
  <2>1. \A cms \in SignedData \union EnvelopedData : cms.payload \in Payload
    BY DEF SignedData, EnvelopedData
  <2>. QED  BY <1>2, <2>1, MailAssumption DEF ContentsOf
<1>3. CASE RootOf(m).kind # "pkcs7-mime"
  <2>1. ContentsOf(m) = {PartOfMail(m, i) : i \in Heads(m) \ {1}}
    BY <1>3 DEF ContentsOf, PartOfMail, EndOf
  <2>. QED  BY <1>1, <2>1, PartIsMail
<1>. QED  BY <1>2, <1>3

(* An opaque mail has one CMS object.                                      *)
LEMMA OpaqueIs ==
  ASSUME NEW m \in Mail, RootOf(m).kind = "pkcs7-mime"
  PROVE  \E cms \in Content : SmimeIn(m) = {cms} /\ OpaqueCms(m) = DerOfCms(cms)
<1>1. Tokens(m) /\ Heads(m) = {1}
  BY MailTokens DEF Mail, RootOf, IsMultipart
<1>2. {j \in Heads(m) : m[j].of.kind \in {"pkcs7-mime", "pkcs7-signature"}} = {1}
  BY <1>1 DEF RootOf
<1>3. SmimeIn(m) = {Contents(m, PartAt(m, 1))}
  BY <1>2 DEF SmimeIn
<1>4. Contents(m, PartAt(m, 1)) \in Content
  BY <1>1, ContentsAre
<1>. QED  BY <1>1, <1>3, <1>4, OpaqueAt

(* What comes of a message that is signed.                                 *)
LEMMA SignedResult ==
  ASSUME NEW d, NEW from, NEW signed, NEW t, NEW r, r = VerifySignedData(d, from, signed, t)
  PROVE  /\ r.signed_content = IF IsData(d) THEN signed ELSE None
         /\ r.failures = ~SignedWell(d, from, signed, t)
         /\ ~r.failures => r.signed_content = signed
BY DEF VerifySignedData, SignedWell

(* A message signed in clear gives one of its parts, vouched for if there  *)
(* are no failures; it does so whenever its signatures can be read.        *)
LEMMA ClearIs ==
  ASSUME NEW m \in Mail, RootOf(m).kind = "multipart/signed", NEW from, NEW t, NEW r, r = VerifyClearSigned(m, from, t)
  PROVE  /\ r.signed_content \in ContentsOf(m) \union {None}
         /\ ~r.failures => VouchedIn(r.signed_content, m, AnchorsOf(t))
         /\ \A k : Whole(m, k) => r.signed_content \in ContentsOf(m)
<1>. PICK signatures, children :
       /\ signatures = {i \in Heads(m) : m[i].of.kind = "pkcs7-signature"}
       /\ children = Heads(m) \ {1}
  OBVIOUS
<1>1. Tokens(m) /\ Heads(m) \subseteq Nat /\ 1 \in Heads(m) /\ 1 \notin signatures
  BY MailTokens, HeadsOf DEF RootOf
<1>2. ContentsOf(m) = {SubSeq(m, i, PartAt(m, i).offset_end) : i \in children}
  BY DEF ContentsOf
<1>3. NothingVerified.failures /\ NothingVerified.signed_content = None
  BY DEF NothingVerified
<1>4. CASE signatures = {} \/ children \ {Min(signatures)} = {}
  <2>1. r = NothingVerified
    BY <1>4 DEF VerifyClearSigned
  <2>2. ASSUME NEW k, Whole(m, k) PROVE FALSE
    <3>1. signatures # {} /\ Heads(m) \ ({1} \union signatures) # {}
      BY <2>2 DEF Whole
    <3>2. Min(signatures) \in signatures
      BY <1>1, <3>1, LeastExists
    <3>. QED  BY <1>4, <3>1, <3>2
  <2>. QED  BY <1>3, <2>1, <2>2
<1>5. CASE ~(signatures = {} \/ children \ {Min(signatures)} = {})
  <2>. PICK s, i : s = Min(signatures) /\ i = Min(children \ {s})
    OBVIOUS
  <2>1. s \in signatures /\ i \in children /\ i \in Heads(m) /\ s \in Heads(m)
    <3>1. s \in signatures
      BY <1>1, <1>5, LeastExists
    <3>2. children \ {s} \subseteq Nat /\ children \ {s} # {}
      BY <1>1, <1>5
    <3>3. i \in children \ {s}
      BY <3>2, LeastExists
    <3>. QED  BY <3>1, <3>3
  <2>. PICK cms, d, part, signed :
         /\ cms = Contents(m, PartAt(m, s)) /\ d = DerOfCms(cms)
         /\ part = PartAt(m, i) /\ signed = SubSeq(m, part.offset_body, part.offset_end)
    OBVIOUS
  <2>2. r = IF d = None THEN NothingVerified ELSE IF d.type # "signed" THEN NothingVerified
            ELSE VerifySignedData(d, from, signed, t)
    BY <1>5 DEF VerifyClearSigned
  <2>3. signed \in ContentsOf(m)
    <3>1. part.offset_body = i
      BY DEF PartAt
    <3>. QED  BY <1>2, <2>1, <3>1
  <2>4. cms \in SmimeIn(m) /\ cms \in Content
    BY <1>1, <2>1, ContentsAre DEF SmimeIn
  <2>5. CASE d # None /\ d.type = "signed"
    <3>1. /\ r.signed_content = IF IsData(d) THEN signed ELSE None
          /\ r.failures = ~SignedWell(d, from, signed, t)
          /\ ~r.failures => r.signed_content = signed
      <4>1. r = VerifySignedData(d, from, signed, t)
        BY <2>2, <2>5
      <4>. QED  BY ONLY <4>1, SignedResult
    <3>2. /\ SignedWell(d, from, signed, t) => SignedBy(cms, AnchorsOf(t)) /\ cms.payload = signed
          /\ IsData(d) = IsData(cms)
      <4>1. cms \in Content /\ d = DerOfCms(cms) /\ d # None /\ d.type = "signed"
        BY <2>4, <2>5
      <4>. QED  BY ONLY <4>1, ReadAsDer
    <3>3. ASSUME NEW k, Whole(m, k) PROVE IsData(cms)
      BY <2>1, <3>3 DEF Whole
    <3>4. r.signed_content \in ContentsOf(m) \union {None} /\ \A k : Whole(m, k) => r.signed_content \in ContentsOf(m)
      BY <2>3, <3>1, <3>2, <3>3
    <3>5. ~r.failures => VouchedIn(r.signed_content, m, AnchorsOf(t))
      BY <2>4, <3>1, <3>2 DEF VouchedIn
    <3>. QED  BY <3>4, <3>5
  <2>6. CASE ~(d # None /\ d.type = "signed")
    <3>1. r = NothingVerified
      BY <2>2, <2>6
    <3>2. ASSUME NEW k, Whole(m, k) PROVE FALSE
      <4>1. cms \in SignedData
        BY <2>1, <3>2 DEF Whole
      <4>2. d \in SignedData
        BY <4>1, DerOfSigned
      <4>. QED  BY <2>6, <4>2, SignedDataFields, MailAssumption
    <3>. QED  BY <1>3, <3>1, <3>2
  <2>. QED  BY <2>5, <2>6
<1>. QED  BY <1>4, <1>5

(* What verify gives out is in the mail, and vouched for if there are no   *)
(* failures.                                                               *)
LEMMA VerifyIs ==
  ASSUME NEW m \in Mail, NEW t, NEW r, r = Verify(m, t)
  PROVE  /\ r.signed_content \in ContentsOf(m) \union {None}
         /\ ~r.failures => VouchedIn(r.signed_content, m, AnchorsOf(t))
         /\ \A k : RootOf(m).kind = "multipart/signed" /\ Whole(m, k) => r.signed_content \in ContentsOf(m)
<1>0. m # Junk
  BY MailAssumption
<1>1. NothingVerified.failures /\ NothingVerified.signed_content = None
  BY DEF NothingVerified
<1>2. CASE RootOf(m).kind = "multipart/signed"
  <2>1. r = VerifyClearSigned(m, RootOf(m).from, t)
    BY <1>0, <1>2 DEF Verify
  <2>. QED  BY <1>2, <2>1, ClearIs
<1>3. CASE RootOf(m).kind = "pkcs7-mime"
  <2>1. PICK cms \in Content : SmimeIn(m) = {cms} /\ OpaqueCms(m) = DerOfCms(cms)
    BY <1>3, OpaqueIs
  <2>. PICK d : d = OpaqueCms(m)
    OBVIOUS
  <2>2. r = IF d = None THEN NothingVerified ELSE IF d.type # "signed" THEN NothingVerified
            ELSE VerifySignedData(d, RootOf(m).from, d.payload, t)
    BY <1>0, <1>3 DEF Verify
  <2>3. CASE d # None /\ d.type = "signed"
    <3>1. /\ r.signed_content \in {d.payload, None}
          /\ r.failures = ~SignedWell(d, RootOf(m).from, d.payload, t)
          /\ ~r.failures => r.signed_content = d.payload
      <4>1. r = VerifySignedData(d, RootOf(m).from, d.payload, t)
        BY <2>2, <2>3
      <4>. QED  BY <4>1, SignedResult
    <3>2. /\ cms \in SignedData /\ cms.payload = d.payload
          /\ SignedWell(d, RootOf(m).from, d.payload, t) => SignedBy(cms, AnchorsOf(t))
      BY <2>1, <2>3, ReadAsDer
    <3>3. cms.payload \in ContentsOf(m)
      BY <1>3, <2>1, <3>2 DEF ContentsOf
    <3>. QED  BY <1>3, <2>1, <3>1, <3>2, <3>3 DEF VouchedIn
  <2>4. CASE ~(d # None /\ d.type = "signed")
    BY <1>1, <1>3, <2>2, <2>4
  <2>. QED  BY <2>3, <2>4
<1>4. CASE RootOf(m).kind \notin {"multipart/signed", "pkcs7-mime"}
  <2>1. r = NothingVerified
    BY <1>0, <1>4 DEF Verify
  <2>. QED  BY <1>1, <1>4, <2>1
<1>. QED  BY <1>2, <1>3, <1>4

(* So it is with a layer for decrypt, which may be opened as well; and a   *)
(* layer that is whole gives something.                                    *)
LEMMA LayerIs ==
  ASSUME NEW m \in Mail, NEW from, NEW k, NEW t, NEW r, r = DecryptLayer(m, from, k, t)
  PROVE  /\ r.signed_content \in ContentsOf(m) \union {None}
         /\ ~r.failures => VouchedIn(r.signed_content, m, AnchorsOf(t)) \/ OpenedIn(r.signed_content, m, k)
         /\ SmimeRoot(m) /\ Whole(m, k) => r.signed_content \in ContentsOf(m)
<1>0. m # Junk
  BY MailAssumption
<1>1. CASE RootOf(m).kind # "pkcs7-mime"
  <2>1. r = Verify(m, t)
    BY <1>0, <1>1 DEF DecryptLayer
  <2>2. SmimeRoot(m) => RootOf(m).kind = "multipart/signed"
    BY <1>1 DEF SmimeRoot
  <2>. QED  BY <2>1, <2>2, VerifyIs
<1>2. CASE RootOf(m).kind = "pkcs7-mime"
  <2>1. PICK cms \in Content : SmimeIn(m) = {cms} /\ OpaqueCms(m) = DerOfCms(cms)
    BY <1>2, OpaqueIs
  <2>. PICK d, sender : d = OpaqueCms(m) /\ sender = IF RootOf(m).from = None THEN from ELSE RootOf(m).from
    OBVIOUS
  <2>2. r = IF d = None THEN NothingVerified
            ELSE IF d.type = "signed" THEN VerifySignedData(d, sender, d.payload, t)
            ELSE IF CanOpen(d, k) THEN [failures |-> FALSE, signed_content |-> d.payload]
            ELSE NothingVerified
    BY <1>0, <1>2 DEF DecryptLayer
  <2>3. NothingVerified.failures /\ NothingVerified.signed_content = None
    BY DEF NothingVerified
  <2>4. Whole(m, k) => (cms \in SignedData /\ IsData(cms)) \/ (cms \in EnvelopedData /\ CanOpen(cms, k))
    BY <1>2, <2>1 DEF Whole
  <2>5. cms \in SignedData \union EnvelopedData => cms.payload \in ContentsOf(m)
    BY <1>2, <2>1 DEF ContentsOf
  <2>6. CASE d = None
    <3>1. cms \notin SignedData \union EnvelopedData
      BY <2>1, <2>6, IsRead
    <3>. QED  BY <2>2, <2>3, <2>4, <2>6, <3>1
  <2>7. CASE d # None /\ d.type = "signed"
    <3>1. /\ r.signed_content = IF IsData(d) THEN d.payload ELSE None
          /\ r.failures = ~SignedWell(d, sender, d.payload, t)
          /\ ~r.failures => r.signed_content = d.payload
      <4>1. r = VerifySignedData(d, sender, d.payload, t)
        BY <2>2, <2>7
      <4>. QED  BY <4>1, SignedResult
    <3>2. /\ cms \in SignedData /\ cms.payload = d.payload /\ IsData(d) = IsData(cms)
          /\ SignedWell(d, sender, d.payload, t) => SignedBy(cms, AnchorsOf(t))
      BY <2>1, <2>7, ReadAsDer
    <3>3. Whole(m, k) => IsData(cms)
      <4>1. cms \notin EnvelopedData
        BY <3>2 DEF SignedData, EnvelopedData
      <4>. QED  BY <2>4, <4>1
    <3>. QED  BY <2>1, <2>5, <3>1, <3>2, <3>3 DEF VouchedIn
  <2>8. CASE d # None /\ d.type # "signed"
    <3>1. cms \in EnvelopedData /\ cms.payload = d.payload /\ (CanOpen(d, k) <=> CanOpen(cms, k))
      BY <2>1, <2>8, ReadAsDer
    <3>2. CASE CanOpen(d, k)
      <4>1. r.signed_content = d.payload
        BY <2>2, <2>8, <3>2
      <4>. QED  BY <2>1, <2>5, <3>1, <3>2, <4>1 DEF OpenedIn, OpenedBy
    <3>3. CASE ~CanOpen(d, k)
      <4>1. r = NothingVerified /\ cms \notin SignedData
        BY <2>2, <2>8, <3>1, <3>3 DEF SignedData, EnvelopedData
      <4>. QED  BY <2>3, <2>4, <3>1, <3>3, <4>1
    <3>. QED  BY <3>2, <3>3
  <2>. QED  BY <2>6, <2>7, <2>8
<1>. QED  BY <1>1, <1>2

(* One of the layers accounts for a result without failures.               *)
Earned(r, layers, k, anchors) ==
  ~r.failures => \E m \in layers : VouchedIn(r.signed_content, m, anchors) \/ OpenedIn(r.signed_content, m, k)

(* How far a result has come: to what is in S, and to something at all if  *)
(* the layers are intact.                                                  *)
Reached(r, S, layers, all, k, anchors, intact) ==
  /\ S \subseteq Mail /\ (IsSmime(r.signed_content) => r.signed_content \in S)
  /\ Earned(r, layers, k, anchors)
  /\ intact => r.signed_content \in all

(* A turn of the loop goes from what is at one depth to what is at the     *)
(* next, and gives something there if the layer is whole.                  *)
LEMMA InwardIs ==
  ASSUME NEW S, NEW layers, {c \in S : IsSmime(c)} \subseteq layers, NEW all, Beneath(S) \subseteq all,
         NEW from, NEW k, NEW t, NEW intact \in BOOLEAN, intact => \A m \in layers : Whole(m, k),
         NEW r, Reached(r, S, layers, all, k, AnchorsOf(t), intact), NEW next, next = Inward(r, from, k, t)
  PROVE  Reached(next, Beneath(S), layers, all, k, AnchorsOf(t), intact)
<1>0. /\ S \subseteq Mail /\ (IsSmime(r.signed_content) => r.signed_content \in S)
      /\ Earned(r, layers, k, AnchorsOf(t)) /\ (intact => r.signed_content \in all)
  BY DEF Reached
<1>1. \A c \in S : IsSmime(c) => ContentsOf(c) \subseteq Mail /\ ContentsOf(c) \subseteq Beneath(S)
  BY <1>0, InsideIsMail DEF Beneath
<1>2. Beneath(S) \subseteq Mail
  BY <1>1 DEF Beneath
<1>3. CASE IsSmime(r.signed_content)
  <2>. PICK c : c = r.signed_content
    OBVIOUS
  <2>1. c \in S /\ c \in Mail /\ c \in layers /\ SmimeRoot(c) /\ next = DecryptLayer(c, from, k, t)
    BY <1>0, <1>3 DEF Inward, IsSmime
  <2>2. /\ next.signed_content \in ContentsOf(c) \union {None}
        /\ ~next.failures =>
             VouchedIn(next.signed_content, c, AnchorsOf(t)) \/ OpenedIn(next.signed_content, c, k)
        /\ Whole(c, k) => next.signed_content \in ContentsOf(c)
    BY <2>1, LayerIs
  <2>3. ContentsOf(c) \subseteq Beneath(S)
    BY <1>1, <1>3, <2>1
  <2>4. next.signed_content # None => next.signed_content \in Beneath(S)
    BY <2>2, <2>3
  <2>5. IsSmime(next.signed_content) => next.signed_content # None
    BY DEF IsSmime
  <2>6. Earned(next, layers, k, AnchorsOf(t))
    BY <2>1, <2>2 DEF Earned
  <2>7. intact => next.signed_content \in all
    BY <2>1, <2>2, <2>3
  <2>. QED  BY <1>2, <2>4, <2>5, <2>6, <2>7 DEF Reached
<1>4. CASE ~IsSmime(r.signed_content)
  <2>1. next = r
    BY <1>4 DEF Inward
  <2>. QED  BY <1>0, <1>2, <1>4, <2>1 DEF Reached
<1>. QED  BY <1>3, <1>4

(* What decrypt gives out without failures is accounted for, and is no     *)
(* S/MIME; if all layers are whole and there are not too many of them, it  *)
(* is something that is in one.                                            *)
LEMMA DecryptIs ==
  ASSUME NEW m \in Mail, NEW k, NEW t, NEW r, r = Decrypt(m, k, t)
  PROVE  /\ Earned(r, Layers(m), k, AnchorsOf(t))
         /\ ~r.failures => ~IsSmime(r.signed_content)
         /\ SmimeRoot(m) /\ (\A x \in Layers(m) : Whole(x, k)) /\ (\A x \in Insides(m)[4] : ~IsSmime(x)) =>
              r.signed_content \in UNION {Insides(m)[n] : n \in 1 .. 4} /\ ~IsSmime(r.signed_content)
<1>. PICK one, two, three, four, layers, all, sender :
       /\ one = ContentsOf(m) /\ two = Beneath(one) /\ three = Beneath(two) /\ four = Beneath(three)
       /\ layers = Layers(m) /\ all = UNION {Insides(m)[n] : n \in 1 .. 4} /\ sender = RootOf(m).from
  OBVIOUS
<1>. PICK first, second, third, fourth :
       /\ first = DecryptLayer(m, None, k, t) /\ second = Inward(first, sender, k, t)
       /\ third = Inward(second, sender, k, t) /\ fourth = Inward(third, sender, k, t)
  OBVIOUS
<1>1. Insides(m) = <<one, two, three, four>>
  BY DEF Insides
<1>2. /\ one \subseteq all /\ two \subseteq all /\ three \subseteq all /\ four \subseteq all /\ Insides(m)[4] = four
  BY <1>1
<1>3. m \in layers /\ \A c \in one \union two \union three : IsSmime(c) => c \in layers
  <2>1. one \union two \union three = UNION {Insides(m)[n] : n \in 1 .. 3}
    BY <1>1
  <2>. QED  BY <2>1 DEF Layers
<1>4. r = IF IsSmime(fourth.signed_content) THEN NothingVerified ELSE fourth
  BY Unrolled
<1>. PICK intact \in BOOLEAN : intact <=> SmimeRoot(m) /\ \A x \in layers : Whole(x, k)
  OBVIOUS
<1>5. Reached(first, one, layers, all, k, AnchorsOf(t), intact)
  <2>1. one \subseteq Mail
    BY InsideIsMail
  <2>2. /\ first.signed_content \in one \union {None}
        /\ ~first.failures =>
             VouchedIn(first.signed_content, m, AnchorsOf(t)) \/ OpenedIn(first.signed_content, m, k)
        /\ SmimeRoot(m) /\ Whole(m, k) => first.signed_content \in one
    BY LayerIs
  <2>. QED  BY <1>2, <1>3, <2>1, <2>2 DEF Earned, IsSmime, Reached
<1>6. Reached(second, two, layers, all, k, AnchorsOf(t), intact)
  <2>1. {c \in one : IsSmime(c)} \subseteq layers
    BY <1>3
  <2>. QED  BY <1>2, <1>5, <2>1, InwardIs
<1>7. Reached(third, three, layers, all, k, AnchorsOf(t), intact)
  <2>1. {c \in two : IsSmime(c)} \subseteq layers
    BY <1>3
  <2>. QED  BY <1>2, <1>6, <2>1, InwardIs
<1>8. Reached(fourth, four, layers, all, k, AnchorsOf(t), intact)
  <2>1. {c \in three : IsSmime(c)} \subseteq layers
    BY <1>3
  <2>. QED  BY <1>2, <1>7, <2>1, InwardIs
<1>9. Earned(r, layers, k, AnchorsOf(t)) /\ (~r.failures => ~IsSmime(r.signed_content))
  <2>1. NothingVerified.failures
    BY DEF NothingVerified
  <2>. QED  BY <1>4, <1>8, <2>1 DEF Earned, Reached
<1>10. SmimeRoot(m) /\ (\A x \in layers : Whole(x, k)) /\ (\A x \in four : ~IsSmime(x)) => r.signed_content \in all /\ ~IsSmime(r.signed_content)
  BY <1>4, <1>8 DEF Reached
<1>. QED  BY <1>2, <1>9, <1>10

-----------------------------------------------------------------------------
(* A command, from its arguments to its exit code.                         *)

(* What the arguments and the files say is to be trusted, and whether the  *)
(* keys are what they say.                                                 *)
TrustMeant ==
  [stores |-> (IF call.caFile = None THEN {"Builtin"} ELSE {}) \union (IF call.debug THEN {"Debug"} ELSE {}),
   ca_file_pem |-> IF call.caFile = None THEN None ELSE disk[call.caFile]]
TrustedAsMeant == trust = TrustMeant /\ (call.caFile # None => disk[call.caFile] # None)
AsMeant ==
  /\ TrustedAsMeant
  /\ call.command = "decrypt" => \A key \in KeyMeant : keys = KeysMeant(key)

(* The result is that of the mail that was read.                           *)
Answered ==
  /\ result = IF call.command = "verify" THEN Verify(eml, trust) ELSE Decrypt(eml, keys, trust)
  /\ eml \in Mail \union {Junk}

(* A reason for exit code 2.                                               *)
Excused ==
  \/ disk[call.file] = None
  \/ call.caFile # None /\ disk[call.caFile] = None
  \/ call.command = "decrypt" /\ (KeyMeant = {} \/ disk[call.cert] = None)
  \/ call.command = "decrypt" /\ call.kek # None /\ KekOf(call.kek) = None
  \/ call.out \in ReadOnly
  \/ call.out # None /\ result.signed_content = None

(* On the way: what was gathered so far is what is in the files.           *)
OnTheWay ==
  /\ phase \in {"trust", "eml", "key", "p12", "cert", "run"} => result = None
  /\ phase \in {"eml", "key", "p12", "cert"} => TrustedAsMeant
  /\ phase \in {"key", "p12", "cert", "run"} => eml \in Mail \union {Junk}
  /\ phase = "p12" =>
       /\ file = PfxIn(disk[call.inkey]) /\ password = call.passin /\ want = "key"
       /\ call.inkey \in P12Path
  /\ phase = "cert" => \A key \in KeyMeant : keys.private_key = key
  /\ phase \in {"run", "output"} => AsMeant
  /\ phase = "output" => Answered

(* In the end: the result is that of the mail, for what was meant unless   *)
(* the output has replaced it; and the exit code goes with it.             *)
InTheEnd ==
  Exited =>
    /\ result # None \/ exit # ExitError => Answered /\ (SourcesKept => AsMeant)
    /\ exit = ExitSuccess => ~result.failures /\ (call.out # None => disk[call.out] = result.signed_content)
    /\ exit = ExitError => Excused

CommandInv == OnTheWay /\ InTheEnd

(* It is about files and arguments.                                        *)
LEMMA CommandInvStays ==
  ASSUME CommandInv, UNCHANGED <<disk, callVars>>, phase = "p12" => UNCHANGED <<file, password, want>>
  PROVE  CommandInv'
<1>. USE DEF callVars
<1>1. /\ TrustMeant' = TrustMeant /\ KeyMeant' = KeyMeant /\ SourcesKept' = SourcesKept
  BY DEF TrustMeant, KeyMeant, SourcesKept
<1>2. \A key : KeysMeant(key)' = KeysMeant(key)
  BY DEF KeysMeant, KekOf
<1>3. AsMeant' = AsMeant
  BY <1>1, <1>2 DEF AsMeant, TrustedAsMeant
<1>4. Answered' = Answered
  BY DEF Answered
<1>5. Excused' = Excused
  BY <1>1 DEF Excused, KekOf
<1>6. OnTheWay'
  BY <1>1, <1>3, <1>4 DEF CommandInv, OnTheWay, TrustedAsMeant
<1>7. InTheEnd'
  BY <1>1, <1>3, <1>4, <1>5 DEF CommandInv, InTheEnd, Exited
<1>. QED  BY <1>6, <1>7 DEF CommandInv

(* Between commands there is nothing to say.                               *)
LEMMA NoCommand == phase = "idle" => CommandInv
BY DEF CommandInv, OnTheWay, InTheEnd, Exited

(* Exit code 2 has a reason.                                               *)
LEMMA StopIsExcused ==
  ASSUME CommandInv, phase \in {"trust", "eml", "key", "p12", "cert", "output"}, Stop, Excused
  PROVE  CommandInv'
<1>. USE DEF Stop, Exit
<1>1. TrustMeant' = TrustMeant /\ KeyMeant' = KeyMeant
  BY DEF TrustMeant, KeyMeant
<1>2. \A key : KeysMeant(key)' = KeysMeant(key)
  BY DEF KeysMeant, KekOf
<1>3. AsMeant' = AsMeant /\ Answered' = Answered
  BY <1>1, <1>2 DEF AsMeant, TrustedAsMeant, Answered
<1>4. Excused'
  BY <1>1 DEF Excused, KekOf
<1>5. result # None => phase = "output"
  BY DEF CommandInv, OnTheWay
<1>6. phase = "output" => Answered /\ AsMeant
  BY DEF CommandInv, OnTheWay
<1>7. phase' = "exited" /\ exit' = ExitError /\ result' = result /\ ExitError # ExitSuccess
  BY DEF ExitError, ExitSuccess
<1>8. InTheEnd'
  BY <1>3, <1>4, <1>5, <1>6, <1>7 DEF InTheEnd
<1>9. OnTheWay'
  BY <1>7 DEF OnTheWay
<1>. QED  BY <1>8, <1>9 DEF CommandInv

(* What is read of a file with mail in it.                                 *)
LEMMA LossyMail == \A content : Lossy(MailIn(content)) \in Mail \union {Junk}
<1>. SUFFICES ASSUME NEW content PROVE Lossy(MailIn(content)) \in Mail \union {Junk}
  OBVIOUS
<1>1. CASE content \in Mail
  BY <1>1, LossyIs DEF MailIn
<1>2. CASE content \notin Mail
  BY <1>2 DEF MailIn, Lossy
<1>. QED  BY <1>1, <1>2

(* The key of a sound file is the one that is meant.                       *)
LEMMA KeyTaken ==
  ASSUME Pkcs12Inv, CommandInv, phase = "p12", step = "done"
  PROVE  /\ answer.kind = "Ok" => \A key \in KeyMeant : answer.value = key
         /\ answer.kind # "Ok" => KeyMeant = {}
<1>1. /\ file = PfxIn(disk[call.inkey]) /\ password = call.passin /\ want = "key" /\ call.inkey \in P12Path
  BY DEF CommandInv, OnTheWay
<1>2. KeyMeant = IF Sound(file, password) THEN FirstIn(file, IsKey) ELSE {}
  BY <1>1 DEF KeyMeant
<1>3. Sound(file, password) =>
        IF FirstIn(file, IsKey) = {} THEN answer = NothingFound("key")
        ELSE \E value \in FirstIn(file, IsKey) : answer = [kind |-> "Ok", value |-> value]
  BY <1>1 DEF Pkcs12Inv, SoundFilesAreRead, Done
<1>4. \A v, w \in FirstIn(file, IsKey) : v = w
  BY DEF FirstIn
<1>5. NothingFound("key").kind # "Ok"
  BY DEF NothingFound
<1>. QED  BY <1>2, <1>3, <1>4, <1>5

(* Each step of smime keeps the invariant.                                 *)
LEMMA CommandInvSteps ==
  ASSUME CommandTypeOK, Pkcs12Inv, Disk, CommandInv, CommandStep
  PROVE  CommandInv'
<1>1. CASE ResolveTrust
  <2>1. phase = "trust" /\ OnTheWay
    BY <1>1 DEF ResolveTrust, CommandInv
  <2>2. CASE call.caFile # None /\ disk[call.caFile] = None
    <3>1. Stop /\ Excused
      BY <1>1, <2>2 DEF ResolveTrust, Excused
    <3>. QED  BY <2>1, <3>1, StopIsExcused
  <2>3. CASE ~(call.caFile # None /\ disk[call.caFile] = None)
    <3>1. trust' = TrustMeant /\ phase' = "eml" /\ UNCHANGED <<call, result, disk>>
      BY <1>1, <2>3 DEF ResolveTrust, TrustMeant
    <3>2. TrustedAsMeant' /\ result' = None
      BY <2>1, <2>3, <3>1 DEF TrustedAsMeant, TrustMeant, OnTheWay
    <3>. QED  BY <3>1, <3>2 DEF CommandInv, OnTheWay, InTheEnd, Exited
  <2>. QED  BY <2>2, <2>3
<1>2. CASE ReadEml
  <2>1. phase = "eml" /\ OnTheWay
    BY <1>2 DEF ReadEml, CommandInv
  <2>2. CASE disk[call.file] = None
    <3>1. Stop /\ Excused
      BY <1>2, <2>2 DEF ReadEml, Excused
    <3>. QED  BY <2>1, <3>1, StopIsExcused
  <2>3. CASE disk[call.file] # None
    <3>1. /\ eml' = Lossy(MailIn(disk[call.file])) /\ phase' = (IF call.command = "verify" THEN "run" ELSE "key")
          /\ UNCHANGED <<call, trust, keys, result, disk>>
      BY <1>2, <2>3 DEF ReadEml
    <3>2. eml' \in Mail \union {Junk} /\ result' = None /\ TrustedAsMeant'
      BY <2>1, <3>1, LossyMail DEF OnTheWay, TrustMeant, TrustedAsMeant
    <3>3. phase' = "run" => AsMeant'
      <4>1. call.command = "verify" => call'.command # "decrypt"
        BY <3>1
      <4>. QED  BY <3>1, <3>2, <4>1 DEF AsMeant
    <3>. QED  BY <3>1, <3>2, <3>3 DEF CommandInv, OnTheWay, InTheEnd, Exited
  <2>. QED  BY <2>2, <2>3
<1>3. CASE ReadKey
  <2>1. phase = "key" /\ OnTheWay /\ call.command = "decrypt"
    BY <1>3 DEF ReadKey, CommandInv, CommandTypeOK
  <2>2. CASE None \in {disk[call.inkey], disk[call.cert]}
    <3>1. disk[call.inkey] = None => KeyMeant = {}
      <4>1. PfxIn(None) = NoPfx
        BY CommandAssumption DEF PfxIn
      <4>2. ~Sound(NoPfx, call.passin)
        BY DEF Sound, NoPfx
      <4>. QED  BY <4>1, <4>2, CommandAssumption DEF KeyMeant
    <3>2. Stop /\ Excused
      BY <1>3, <2>1, <2>2, <3>1 DEF ReadKey, Excused
    <3>. QED  BY <2>1, <3>2, StopIsExcused
  <2>3. CASE None \notin {disk[call.inkey], disk[call.cert]} /\ call.inkey \in P12Path
    <3>1. /\ Extract(disk[call.inkey], call.passin, "key") /\ phase' = "p12"
          /\ UNCHANGED <<call, trust, eml, keys, result, disk>>
      BY <1>3, <2>3 DEF ReadKey
    <3>2. TrustedAsMeant' /\ eml' \in Mail \union {Junk} /\ result' = None
      BY <2>1, <3>1 DEF OnTheWay, TrustMeant, TrustedAsMeant
    <3>3. file' = PfxIn(disk'[call'.inkey]) /\ password' = call'.passin /\ want' = "key" /\ call'.inkey \in P12Path
      BY <2>3, <3>1 DEF Extract
    <3>. QED  BY <3>1, <3>2, <3>3 DEF CommandInv, OnTheWay, InTheEnd, Exited
  <2>4. CASE /\ None \notin {disk[call.inkey], disk[call.cert]} /\ call.inkey \notin P12Path
             /\ disk[call.inkey] \notin Pem
    <3>1. Stop /\ Excused
      BY <1>3, <2>1, <2>4 DEF ReadKey, Excused, KeyMeant
    <3>. QED  BY <2>1, <3>1, StopIsExcused
  <2>5. CASE /\ None \notin {disk[call.inkey], disk[call.cert]} /\ call.inkey \notin P12Path
             /\ disk[call.inkey] \in Pem
    <3>1. /\ keys' = [private_key |-> disk[call.inkey]] /\ phase' = "cert"
          /\ UNCHANGED <<call, trust, eml, result, disk>>
      BY <1>3, <2>5 DEF ReadKey
    <3>2. TrustedAsMeant' /\ eml' \in Mail \union {Junk} /\ result' = None
      BY <2>1, <3>1 DEF OnTheWay, TrustMeant, TrustedAsMeant
    <3>3. KeyMeant' = {disk[call.inkey]}
      BY <2>5, <3>1 DEF KeyMeant
    <3>. QED  BY <3>1, <3>2, <3>3 DEF CommandInv, OnTheWay, InTheEnd, Exited
  <2>. QED  BY <2>2, <2>3, <2>4, <2>5
<1>4. CASE ExtractKey
  <2>1. Pkcs12Step /\ UNCHANGED <<callVars, disk>>
    BY <1>4 DEF ExtractKey
  <2>2. UNCHANGED <<file, password, want>>
    BY <2>1 DEF Pkcs12Step, Open, OpenEntry, Opened, Search, GiveUp
  <2>. QED  BY <2>1, <2>2, CommandInvStays
<1>5. CASE TakeKey
  <2>1. phase = "p12" /\ step = "done" /\ OnTheWay /\ call.command = "decrypt"
    BY <1>5 DEF TakeKey, CommandInv, CommandTypeOK
  <2>2. CASE answer.kind # "Ok"
    <3>1. Stop /\ Excused
      BY <1>5, <2>1, <2>2, KeyTaken DEF TakeKey, Excused
    <3>. QED  BY <2>1, <3>1, StopIsExcused
  <2>3. CASE answer.kind = "Ok"
    <3>1. /\ keys' = [private_key |-> answer.value] /\ phase' = "cert"
          /\ UNCHANGED <<call, trust, eml, result, disk>>
      BY <1>5, <2>3 DEF TakeKey
    <3>2. TrustedAsMeant' /\ eml' \in Mail \union {Junk} /\ result' = None
      BY <2>1, <3>1 DEF OnTheWay, TrustMeant, TrustedAsMeant
    <3>3. \A key \in KeyMeant : answer.value = key
      BY <2>1, <2>3, KeyTaken
    <3>4. KeyMeant' = KeyMeant
      BY <3>1 DEF KeyMeant
    <3>. QED  BY <3>1, <3>2, <3>3, <3>4 DEF CommandInv, OnTheWay, InTheEnd, Exited
  <2>. QED  BY <2>2, <2>3
<1>6. CASE GatherKeys
  <2>1. phase = "cert" /\ OnTheWay /\ call.command = "decrypt"
    BY <1>6 DEF GatherKeys, CommandInv, CommandTypeOK
  <2>2. CASE call.kek # None /\ KekOf(call.kek) = None
    <3>1. Stop /\ Excused
      BY <1>6, <2>1, <2>2 DEF GatherKeys, Excused
    <3>. QED  BY <2>1, <3>1, StopIsExcused
  <2>3. CASE ~(call.kek # None /\ KekOf(call.kek) = None)
    <3>1. /\ keys' = KeysMeant(keys.private_key) /\ phase' = "run"
          /\ UNCHANGED <<call, trust, eml, result, disk>>
      BY <1>6, <2>3 DEF GatherKeys, KeysMeant
    <3>2. TrustedAsMeant' /\ eml' \in Mail \union {Junk} /\ result' = None
      BY <2>1, <3>1 DEF OnTheWay, TrustMeant, TrustedAsMeant
    <3>3. \A key \in KeyMeant : keys.private_key = key
      BY <2>1 DEF OnTheWay
    <3>4. KeyMeant' = KeyMeant /\ \A key : KeysMeant(key)' = KeysMeant(key)
      BY <3>1 DEF KeyMeant, KeysMeant, KekOf
    <3>5. AsMeant'
      BY <3>1, <3>2, <3>3, <3>4 DEF AsMeant
    <3>. QED  BY <3>1, <3>2, <3>5 DEF CommandInv, OnTheWay, InTheEnd, Exited
  <2>. QED  BY <2>2, <2>3
<1>7. CASE Run
  <2>1. /\ phase = "run" /\ OnTheWay /\ phase' = "output"
        /\ result' = IF call.command = "verify" THEN Verify(eml, trust) ELSE Decrypt(eml, keys, trust)
        /\ UNCHANGED <<call, trust, eml, keys, exit, disk>>
    BY <1>7 DEF Run, CommandInv
  <2>2. KeyMeant' = KeyMeant /\ TrustedAsMeant' = TrustedAsMeant /\ \A key : KeysMeant(key)' = KeysMeant(key)
    BY <2>1 DEF KeyMeant, KeysMeant, KekOf, TrustMeant, TrustedAsMeant
  <2>3. AsMeant'
    BY <2>1, <2>2 DEF OnTheWay, AsMeant
  <2>4. Answered'
    BY <2>1 DEF OnTheWay, Answered
  <2>. QED  BY <2>1, <2>3, <2>4 DEF CommandInv, OnTheWay, InTheEnd, Exited
<1>8. CASE WriteOutput
  <2>1. phase = "output" /\ AsMeant /\ Answered
    BY <1>8 DEF WriteOutput, CommandInv, OnTheWay
  <2>2. CASE call.out # None /\ (result.signed_content = None \/ call.out \in ReadOnly)
    <3>1. Stop /\ Excused
      BY <1>8, <2>2 DEF WriteOutput, Excused
    <3>. QED  BY <2>1, <3>1, StopIsExcused
  <2>3. CASE ~(call.out # None /\ (result.signed_content = None \/ call.out \in ReadOnly))
    <3>1. /\ phase' = "exited" /\ exit' = ExitOf /\ UNCHANGED <<call, trust, eml, keys, result>>
          /\ IF call.out = None THEN disk' = disk ELSE disk' = [disk EXCEPT ![call.out] = result.signed_content]
      BY <1>8, <2>3 DEF WriteOutput, Exit, Written
    <3>2. call \in SmimeCall /\ DOMAIN disk = Path
      BY <2>1 DEF CommandTypeOK, Disk
    <3>3. \A p \in Path : p # call.out \/ call.out = None => disk'[p] = disk[p]
      BY <3>1, <3>2
    <3>4. SourcesKept => TrustedAsMeant' = TrustedAsMeant /\ KeyMeant' = KeyMeant /\ \A key : KeysMeant(key)' = KeysMeant(key)
      <4>. SUFFICES ASSUME SourcesKept
                    PROVE  TrustedAsMeant' = TrustedAsMeant /\ KeyMeant' = KeyMeant /\ \A key : KeysMeant(key)' = KeysMeant(key)
        OBVIOUS
      <4>1. call.inkey \in Path /\ call.cert \in Path /\ call.caFile \in Path \union {None}
            /\ call.kek \in Path \union DOMAIN HexOf \union {None}
        BY <3>2 DEF SmimeCall
      <4>2. /\ disk'[call.inkey] = disk[call.inkey] /\ disk'[call.cert] = disk[call.cert]
            /\ (call.caFile # None => disk'[call.caFile] = disk[call.caFile])
            /\ (call.kek # None /\ call.kek \notin DOMAIN HexOf => disk'[call.kek] = disk[call.kek])
        BY <3>3, <4>1 DEF SourcesKept
      <4>3. TrustedAsMeant' = TrustedAsMeant
        BY <3>1, <4>2 DEF TrustMeant, TrustedAsMeant
      <4>4. KeyMeant' = KeyMeant
        BY <3>1, <4>2 DEF KeyMeant
      <4>5. \A key : KeysMeant(key)' = KeysMeant(key)
        BY <3>1, <4>2 DEF KeysMeant, KekOf
      <4>. QED  BY <4>3, <4>4, <4>5
    <3>5. Answered' /\ SourcesKept' = SourcesKept
      BY <2>1, <3>1 DEF Answered, SourcesKept
    <3>6. SourcesKept' => AsMeant'
      BY <2>1, <3>1, <3>4, <3>5 DEF AsMeant
    <3>7. exit' # ExitError /\ (exit' = ExitSuccess => ~result'.failures)
      BY <3>1 DEF ExitOf, ExitError, ExitSuccess, ExitFailure
    <3>8. call'.out # None => disk'[call'.out] = result'.signed_content
      <4>1. call.out # None => call.out \in Path
        BY <3>2 DEF SmimeCall
      <4>. QED  BY <3>1, <3>2, <4>1
    <3>. QED  BY <3>1, <3>5, <3>6, <3>7, <3>8 DEF CommandInv, OnTheWay, InTheEnd
  <2>. QED  BY <2>2, <2>3
<1>. QED
  BY <1>1, <1>2, <1>3, <1>4, <1>5, <1>6, <1>7, <1>8 DEF CommandStep

(* And so does every step, whichever program is at work.                   *)
LEMMA EachKeepsCommandInv == ToolsInv /\ CommandInv /\ [Next]_vars => CommandInv'
<1>. SUFFICES ASSUME ToolsInv, CommandInv, [Next]_vars PROVE CommandInv'
  OBVIOUS
<1>0. CommandTypeOK /\ Pkcs12Inv /\ Disk /\ OneAtATime
  BY DEF ToolsInv, Counted
<1>1. CASE BeginModifyCms
  <2>1. phase' = "idle"
    BY <1>1 DEF BeginModifyCms
  <2>. QED  BY <2>1 DEF CommandInv, OnTheWay, InTheEnd, Exited
<1>2. CASE BeginSmime
  <2>1. phase' = "trust" /\ result' = None
    BY <1>2 DEF BeginSmime, StartSmime
  <2>. QED  BY <2>1 DEF CommandInv, OnTheWay, InTheEnd, Exited
<1>3. CASE BeginWeb
  <2>1. UNCHANGED <<disk, callVars>> /\ phase # "p12"
    BY <1>3 DEF BeginWeb, Begin, Quiet
  <2>. QED  BY <2>1, CommandInvStays
<1>4. CASE Modifying
  <2>1. ModifyStep /\ UNCHANGED callVars
    BY <1>4 DEF Modifying
  <2>2. stage # "idle"
    BY <2>1 DEF ModifyStep, ParseSigned, AddCertificates, AskNextUrl, AddCrl, AddOcspResponse, WriteModified,
                BeginRewrite, RewritePart, WriteRewritten
  <2>3. phase' = "idle"
    BY <1>0, <2>1, <2>2 DEF OneAtATime, callVars
  <2>. QED  BY <2>3 DEF CommandInv, OnTheWay, InTheEnd, Exited
<1>5. CASE Running
  BY <1>0, <1>5, CommandInvSteps DEF Running
<1>6. CASE Extracting
  <2>1. UNCHANGED <<disk, callVars>> /\ phase # "p12"
    BY <1>6 DEF Extracting
  <2>. QED  BY <2>1, CommandInvStays
<1>7. CASE UNCHANGED vars
  <2>1. UNCHANGED <<disk, callVars, file, password, want>>
    BY <1>7 DEF vars, p12Vars
  <2>. QED  BY <2>1, CommandInvStays
<1>. QED
  BY <1>1, <1>2, <1>3, <1>4, <1>5, <1>6, <1>7 DEF Next, Work, Over

-----------------------------------------------------------------------------
(* What the exit code says.                                                *)

(* The anchors are those the arguments name.                               *)
LEMMA AnchorsAsMeant == TrustedAsMeant => AnchorsOf(trust) = AnchorsMeant
<1>. SUFFICES ASSUME TrustedAsMeant PROVE AnchorsOf(trust) = AnchorsMeant
  OBVIOUS
<1>1. /\ trust.stores = (IF call.caFile = None THEN {"Builtin"} ELSE {}) \union (IF call.debug THEN {"Debug"} ELSE {})
      /\ trust.ca_file_pem = IF call.caFile = None THEN None ELSE disk[call.caFile]
  BY DEF TrustedAsMeant, TrustMeant
<1>2. (IF trust.ca_file_pem = None THEN {} ELSE trust.ca_file_pem) = IF call.caFile = None THEN {} ELSE disk[call.caFile]
  BY <1>1 DEF TrustedAsMeant
<1>3. (UNION {Anchors[s] : s \in trust.stores}) =
        (IF call.caFile = None THEN Anchors["Builtin"] ELSE {}) \union (IF call.debug THEN Anchors["Debug"] ELSE {})
  BY <1>1
<1>. QED  BY <1>2, <1>3 DEF AnchorsOf, AnchorsMeant

(* What is no mail is a failure.                                           *)
LEMMA JunkFails == \A k, t : Verify(Junk, t).failures /\ Decrypt(Junk, k, t).failures
<1>. SUFFICES ASSUME NEW k, NEW t PROVE Verify(Junk, t).failures /\ Decrypt(Junk, k, t).failures
  OBVIOUS
<1>1. NothingVerified.failures /\ ~IsSmime(NothingVerified.signed_content)
  BY DEF NothingVerified, IsSmime
<1>2. DecryptLayer(Junk, None, k, t) = NothingVerified
  BY DEF DecryptLayer
<1>3. Inward(NothingVerified, RootOf(Junk).from, k, t) = NothingVerified
  BY <1>1 DEF Inward
<1>4. Decrypt(Junk, k, t) = NothingVerified
  BY <1>1, <1>2, <1>3, Unrolled
<1>5. ASSUME NEW m, m = Junk PROVE Verify(m, t) = NothingVerified
  BY SMT, <1>5 DEF Verify
<1>. QED  BY <1>1, <1>4, <1>5

(* The same as CommandLine says it.                                        *)
LEMMA InWords ==
  ASSUME NEW content, NEW m
  PROVE  /\ VouchedIn(content, m, AnchorsMeant) => VouchedFor(content, m)
         /\ OpenedIn(content, m, keys) => OpenedFor(content, m)
<1>1. VouchedIn(content, m, AnchorsMeant) => VouchedFor(content, m)
  BY DEF VouchedIn, VouchedFor, SignedBy
<1>2. OpenedIn(content, m, keys) => OpenedFor(content, m)
  BY DEF OpenedIn, OpenedFor, OpenedBy
<1>. QED  BY <1>1, <1>2

(* Without failures, what is given out is accounted for.                   *)
LEMMA SuccessEarned == CommandInv => SuccessIsEarned
<1>. SUFFICES ASSUME CommandInv, Exited, exit = ExitSuccess,
                     NEW given, given = result.signed_content
              PROVE  /\ SourcesKept =>
                          IF call.command = "verify" THEN VouchedFor(given, eml)
                          ELSE ~IsSmime(given) /\ \E m \in Layers(eml) : VouchedFor(given, m) \/ OpenedFor(given, m)
                     /\ call.out # None => disk[call.out] = given
  BY DEF SuccessIsEarned
<1>1. Answered /\ ~result.failures /\ (SourcesKept => AsMeant) /\ (call.out # None => disk[call.out] = given)
  BY DEF CommandInv, InTheEnd, ExitSuccess, ExitError
<1>2. eml \in Mail
  BY <1>1, JunkFails DEF Answered
<1>. SUFFICES ASSUME SourcesKept
              PROVE  IF call.command = "verify" THEN VouchedFor(given, eml)
                     ELSE ~IsSmime(given) /\ \E m \in Layers(eml) : VouchedFor(given, m) \/ OpenedFor(given, m)
  BY <1>1
<1>3. AnchorsOf(trust) = AnchorsMeant
  BY <1>1, AnchorsAsMeant DEF AsMeant
<1>4. \A m : VouchedIn(given, m, AnchorsMeant) => VouchedFor(given, m)
  BY InWords
<1>5. \A m : OpenedIn(given, m, keys) => OpenedFor(given, m)
  BY InWords
<1>6. CASE call.command = "verify"
  <2>1. result = Verify(eml, trust)
    BY <1>1, <1>6 DEF Answered
  <2>2. VouchedIn(given, eml, AnchorsOf(trust))
    BY <1>1, <1>2, <2>1, VerifyIs
  <2>. QED  BY <1>3, <1>4, <1>6, <2>2
<1>7. CASE call.command # "verify"
  <2>1. result = Decrypt(eml, keys, trust)
    BY <1>1, <1>7 DEF Answered
  <2>2. Earned(result, Layers(eml), keys, AnchorsOf(trust)) /\ ~IsSmime(given)
    BY <1>1, <1>2, <2>1, DecryptIs
  <2>. QED  BY <1>1, <1>3, <1>4, <1>5, <1>7, <2>2 DEF Earned
<1>. QED  BY <1>6, <1>7

(* Exit code 2 has one of the reasons there are.                           *)
LEMMA ErrorCaused == CommandInv => NoErrorWithoutCause
BY DEF CommandInv, InTheEnd, NoErrorWithoutCause, Excused

(* Whoever has the keys gets the innermost content.                        *)
LEMMA OwnMailRead == CommandInv => OwnMailIsRead
<1>. SUFFICES ASSUME CommandInv, Exited, call.command = "decrypt", result # None, SourcesKept, eml # Junk,
                     NEW key \in KeyMeant, SmimeRoot(eml), \A m \in Layers(eml) : Whole(m, KeysMeant(key)),
                     \A m \in Insides(eml)[4] : ~IsSmime(m)
              PROVE  /\ result.signed_content \in UNION {Insides(eml)[n] : n \in 1 .. 4}
                     /\ ~IsSmime(result.signed_content)
  BY DEF OwnMailIsRead
<1>1. Answered /\ AsMeant
  BY DEF CommandInv, InTheEnd
<1>2. eml \in Mail /\ result = Decrypt(eml, keys, trust) /\ keys = KeysMeant(key)
  BY <1>1 DEF Answered, AsMeant
<1>. QED  BY <1>2, DecryptIs

(* What is known of smime holds throughout.                                *)
LEMMA CommandAlways == Spec => []CommandInv
<1>1. Init => CommandInv
  BY NoCommand DEF Init, CommandInit
<1>. QED  BY <1>1, EachKeepsCommandInv, Always, PTL DEF Spec

(* Exit code 0 vouches for the content that is given out, whatever mail,   *)
(* keys and CAs there are and however deep the content was: a signer whom  *)
(* the CAs named by the arguments vouch for signed it, or it was encrypted *)
(* and has nothing left to verify.  Exit code 2 always has a cause outside *)
(* of the mail or is about the output.                                     *)
THEOREM ExitCodeTrue == Spec => []ExitCodeIsTrue
<1>1. CommandInv => ExitCodeIsTrue
  BY SuccessEarned, ErrorCaused DEF ExitCodeIsTrue
<1>. QED  BY <1>1, CommandAlways, PTL

(* Mail whose layers can all be opened, four of them at most, is read by   *)
(* whoever has the key, in PKCS#12 or not, and whoever signed what.        *)
THEOREM OwnMailAlwaysRead == Spec => []OwnMailIsRead
BY OwnMailRead, CommandAlways, PTL

=============================================================================
