---------------------------- MODULE BerToDer_proofs ----------------------------
(***************************************************************************)
(* Theorems about BerToDer, for inputs of any length and any MaxBerDepth.  *)
(*                                                                         *)
(*   NothingOutOfBounds   Spec => []LimitsNested                           *)
(*   RecursionBounded     Spec => []DepthBounded                           *)
(*   DescentInBounds      Spec => []DescentStaysInBounds                   *)
(*   ConversionEnds       Spec => EveryStepAdvances                        *)
(*                                                                         *)
(* What is between a header and the end it announces lies within the       *)
(* element around it (HeaderWithin); the rest is an induction over the     *)
(* stack.  Nothing is said of what the children of a call are: that they   *)
(* are octets is the part of TypeOK that goes through recursive functions. *)
(***************************************************************************)
EXTENDS BerToDer, TLAPS, WellFoundedInduction, SequenceTheorems

LEMMA LeastOf ==
  ASSUME NEW T, T \subseteq Nat, T # {}
  PROVE  Min(T) \in T /\ \A y \in T : Min(T) <= y
<1>. DEFINE R == {ss \in Nat \X Nat : ss[1] < ss[2]}
<1>1. IsWellFoundedOn(R, Nat)
  BY NatLessThanWellFounded DEF OpToRel
<1>2. \E x \in T : \A y \in T : <<y, x>> \notin R
  <2>. HIDE DEF R
  <2>. QED  BY <1>1, WFMin
<1>3. \A x, y \in Nat : <<y, x>> \notin R => x <= y
  OBVIOUS
<1>4. \E x \in T : \A y \in T : x <= y
  BY <1>2, <1>3
<1>. QED  BY <1>4 DEF Min

LEMMA TagWithin ==
  ASSUME NEW d \in Seq(Octet), NEW p \in Nat, NEW lim \in Nat, p < lim
  PROVE  TagEnd(d, p, lim) \in Nat /\ p + 1 <= TagEnd(d, p, lim)
<1>. DEFINE later == {lim} \union {i \in p + 2 .. lim : d[i] < 128}
<1>1. later \subseteq Nat /\ later # {} /\ \A i \in later : p + 1 <= i
  OBVIOUS
<1>2. TagEnd(d, p, lim) = IF d[p + 1] % 32 # 31 THEN p + 1 ELSE Min(later)
  BY DEF TagEnd
<1>3. Min(later) \in later
  <2>. HIDE DEF later
  <2>. QED  BY <1>1, LeastOf
<1>4. Min(later) \in Nat /\ p + 1 <= Min(later)
  <2>. HIDE DEF later
  <2>. QED  BY <1>1, <1>3
<1>5. p + 1 \in Nat /\ p + 1 <= p + 1
  OBVIOUS
<1>. QED
  <2>. HIDE DEF later
  <2>. QED  BY Zenon, <1>2, <1>4, <1>5

(* A header that is accepted lies within the input it was read from, with  *)
(* the content it announces.                                               *)
LEMMA HeaderWithin ==
  ASSUME NEW d \in Seq(Octet), NEW p \in Nat, NEW lim \in Nat, lim <= Len(d),
         HeaderAt(d, p, lim) # None
  PROVE  LET h == HeaderAt(d, p, lim) IN
         /\ h = [tag |-> h.tag, indefinite |-> h.indefinite, body |-> h.body, end |-> h.end]
         /\ h.indefinite \in BOOLEAN
         /\ h.body \in Nat /\ h.end \in Nat
         /\ p + 2 <= h.body /\ h.body <= h.end /\ h.end <= lim
<1>. DEFINE tagEnd == TagEnd(d, p, lim)
            tag == SubSeq(d, p + 1, tagEnd)
            first == d[tagEnd + 1]
            h == HeaderAt(d, p, lim)
            WithEnd(indefinite, body, end) ==
              h = [tag |-> tag, indefinite |-> indefinite, body |-> body, end |-> end]
<1>1. p < lim /\ tagEnd < lim /\ h = LengthAt(d, tag, first, tagEnd + 1, lim)
  <2>1. ~(p >= lim) /\ h = AfterTag(d, p, tagEnd, lim)
    BY Zenon DEF HeaderAt
  <2>2. tagEnd \in Nat
    BY <2>1, TagWithin
  <2>3. ~(tagEnd >= lim) /\ h = LengthAt(d, tag, first, tagEnd + 1, lim)
    BY Zenon, <2>1 DEF AfterTag
  <2>. HIDE DEF tagEnd, h, tag, first
  <2>. QED  BY <2>1, <2>2, <2>3
<1>2. tagEnd \in Nat /\ p + 1 <= tagEnd
  BY <1>1, TagWithin
<1>. HIDE DEF tagEnd, tag, h
<1>3. first \in Nat
  <2>1. tagEnd + 1 \in 1 .. Len(d)
    BY <1>1, <1>2
  <2>2. first \in Octet
    BY <2>1
  <2>. HIDE DEF first
  <2>. QED  BY <2>2 DEF Octet
<1>. HIDE DEF first, WithEnd
<1>4. ASSUME NEW body \in Nat, tagEnd + 1 <= body, NEW len, h = Definite(tag, body, len, lim)
      PROVE  \E end \in Nat : body <= end /\ end <= lim /\ WithEnd(FALSE, body, end)
  <2>1. len \in 0 .. MaxUsize /\ ~(body + len > lim)
    BY <1>4 DEF Definite, h
  <2>2. WithEnd(FALSE, body, body + len)
    BY Zenon, <1>4, <2>1 DEF Definite, WithEnd
  <2>3. body + len \in Nat /\ body <= body + len /\ body + len <= lim
    BY <1>4, <2>1, BerAssumption
  <2>. QED  BY <2>2, <2>3
<1>5. \E indefinite \in BOOLEAN, body, end \in Nat :
        tagEnd + 1 <= body /\ body <= end /\ end <= lim /\ WithEnd(indefinite, body, end)
  <2>1. CASE first < 128
    <3>1. h = Definite(tag, tagEnd + 1, first, lim)
      BY <1>1, <2>1 DEF LengthAt
    <3>2. tagEnd + 1 \in Nat /\ tagEnd + 1 <= tagEnd + 1
      BY <1>2
    <3>. QED  BY <1>4, <3>1, <3>2
  <2>2. CASE first = 128
    <3>1. h = Indefinite(tag, tagEnd + 1, lim)
      BY <1>1, <2>2 DEF LengthAt
    <3>2. WithEnd(TRUE, tagEnd + 1, lim)
      BY Zenon, <3>1 DEF Indefinite, h, WithEnd
    <3>. DEFINE body == tagEnd + 1
    <3>3. body \in Nat /\ tagEnd + 1 <= body /\ body <= lim /\ lim <= lim
      BY <1>1, <1>2
    <3>4. WithEnd(TRUE, body, lim)
      BY Zenon, <3>2
    <3>. HIDE DEF body
    <3>. QED  BY Zenon, <3>3, <3>4
  <2>3. CASE first > 128
    <3>. DEFINE body == tagEnd + 1 + first - 128
    <3>1. h = Definite(tag, body, LongLength(d, tagEnd + 1, first - 128), lim)
      BY <1>1, <1>3, <2>3 DEF LengthAt, h
    <3>2. body \in Nat /\ tagEnd + 1 <= body
      BY <1>2, <1>3, <2>3
    <3>. HIDE DEF body
    <3>. QED  BY <1>4, <3>1, <3>2
  <2>. QED  BY <1>3, <2>1, <2>2, <2>3
<1>. QED
  BY <1>2, <1>5 DEF h, WithEnd

-----------------------------------------------------------------------------
(* The stack.  A call is a record with a limit; what its children are is   *)
(* left open.                                                              *)
IsCall(f) ==
  \E tag, children : \E indefinite \in BOOLEAN, lim \in Nat :
    f = [tag |-> tag, indefinite |-> indefinite, limit |-> lim, children |-> children]

Calls(s) == \E S : s \in Seq(S) /\ \A f \in S : IsCall(f)

(* One call more, one less, and one child more.                            *)
LEMMA CallEntered ==
  ASSUME NEW s, Calls(s), NEW f, IsCall(f)
  PROVE  /\ Calls(Append(s, f)) /\ Len(Append(s, f)) = Len(s) + 1
         /\ \A i \in 1 .. Len(s) : Append(s, f)[i] = s[i]
         /\ Append(s, f)[Len(s) + 1] = f
         /\ Len(s) \in Nat
<1>1. PICK S : s \in Seq(S) /\ \A g \in S : IsCall(g)
  BY DEF Calls
<1>2. s \in Seq(S \union {f}) /\ \A g \in S \union {f} : IsCall(g)
  <2>. HIDE DEF IsCall
  <2>. QED  BY <1>1
<1>3. Append(s, f) \in Seq(S \union {f})
  BY <1>2
<1>. QED  BY <1>1, <1>2, <1>3 DEF Calls

LEMMA CallLeft ==
  ASSUME NEW s, Calls(s), s # <<>>
  PROVE  /\ Calls(Front(s)) /\ Len(Front(s)) = Len(s) - 1
         /\ \A i \in 1 .. Len(s) - 1 : Front(s)[i] = s[i]
         /\ Len(s) \in Nat \ {0} /\ IsCall(s[Len(s)])
<1>1. PICK S : s \in Seq(S) /\ \A g \in S : IsCall(g)
  BY DEF Calls
<1>2. Front(s) \in Seq(S) /\ Len(Front(s)) = Len(s) - 1 /\ \A i \in 1 .. Len(s) - 1 : Front(s)[i] = s[i]
  <2>. DEFINE m == Len(s) - 1
  <2>1. m \in Nat /\ \A i \in 1 .. m : s[i] \in S
    BY <1>1
  <2>2. /\ SubSeq(s, 1, m) \in Seq(S)
        /\ Len(SubSeq(s, 1, m)) = IF 1 <= m THEN m - 1 + 1 ELSE 0
        /\ \A i \in 1 .. m - 1 + 1 : SubSeq(s, 1, m)[i] = s[1 + i - 1]
    <3>. HIDE DEF m
    <3>. QED  BY <2>1, SubSeqProperties, SMT
  <2>3. Len(SubSeq(s, 1, m)) = m /\ \A i \in 1 .. m : SubSeq(s, 1, m)[i] = s[i]
    <3>. HIDE DEF m
    <3>. QED  BY <2>1, <2>2
  <2>. QED  BY <2>2, <2>3 DEF Front
<1>3. Len(s) \in Nat \ {0} /\ s[Len(s)] \in S
  BY <1>1
<1>4. IsCall(s[Len(s)])
  BY Zenon, <1>1, <1>3
<1>5. Calls(Front(s))
  BY Zenon, <1>1, <1>2 DEF Calls
<1>. QED  BY <1>2, <1>3, <1>4, <1>5

LEMMA ChildDelivered ==
  ASSUME NEW s, Calls(s), s # <<>>, NEW der, Deliver(der, s)
  PROVE  /\ Calls(stack') /\ Len(stack') = Len(s)
         /\ \A i \in 1 .. Len(s) : stack'[i].limit = s[i].limit
<1>. DEFINE n == Len(s)
            last == [s[n] EXCEPT !.children = Append(@, der)]
            t == [s EXCEPT ![n] = last]
<1>1. PICK S : s \in Seq(S) /\ \A g \in S : IsCall(g)
  BY DEF Calls
<1>2. n \in Nat /\ n \in 1 .. n /\ IsCall(s[n])
  <2>1. n \in Nat /\ n \in 1 .. n /\ s[n] \in S
    BY <1>1
  <2>. QED  BY Zenon, <1>1, <2>1
<1>3. IsCall(last) /\ last.limit = s[n].limit
  <2>0. PICK tag, children : \E indefinite \in BOOLEAN, lim \in Nat :
          s[n] = [tag |-> tag, indefinite |-> indefinite, limit |-> lim, children |-> children]
    BY <1>2 DEF IsCall
  <2>1. PICK indefinite \in BOOLEAN, lim \in Nat :
          s[n] = [tag |-> tag, indefinite |-> indefinite, limit |-> lim, children |-> children]
    BY <2>0
  <2>2. last = [tag |-> tag, indefinite |-> indefinite, limit |-> lim,
                children |-> Append(children, der)]
    <3>. DEFINE c == Append(children, der)
    <3>1. Append(s[n].children, der) = c
      BY <2>1
    <3>2. last = [s[n] EXCEPT !.children = c]
      BY Zenon, <3>1
    <3>3. [[tag |-> tag, indefinite |-> indefinite, limit |-> lim, children |-> children]
            EXCEPT !.children = c]
          = [tag |-> tag, indefinite |-> indefinite, limit |-> lim, children |-> c]
      <4>. HIDE DEF c
      <4>. QED  OBVIOUS
    <3>. HIDE DEF last, n
    <3>. QED  BY Zenon, <2>1, <3>2, <3>3
  <2>3. IsCall(last)
    <3>. HIDE DEF last, n
    <3>. QED  BY <2>2, <2>1 DEF IsCall
  <2>4. last.limit = lim /\ s[n].limit = lim
    <3>. HIDE DEF last, n
    <3>. QED  BY <2>1, <2>2
  <2>. QED  BY <2>3, <2>4
<1>4. /\ t \in Seq(S \union {last}) /\ Len(t) = n
      /\ \A i \in 1 .. n : t[i] = IF i = n THEN last ELSE s[i]
  <2>. HIDE DEF last
  <2>. QED  BY <1>1, <1>2
<1>5. Calls(t)
  <2>1. \A g \in S \union {last} : IsCall(g)
    <3>. HIDE DEF last, IsCall
    <3>. QED  BY <1>1, <1>3
  <2>. QED
    <3>. HIDE DEF last, t, IsCall
    <3>. QED  BY <1>4, <2>1 DEF Calls
<1>6. \A i \in 1 .. n : t[i].limit = s[i].limit
  <2>. HIDE DEF last, t
  <2>. QED  BY <1>3, <1>4
<1>7. stack' = t
  BY DEF Deliver
<1>. HIDE DEF t, n
<1>. QED  BY <1>4, <1>5, <1>6, <1>7 DEF n

-----------------------------------------------------------------------------
(* The inductive invariant.                                                *)

Limit(s, n) == IF s = <<>> THEN n ELSE s[Len(s)].limit

Nested(s, n) ==
  /\ Calls(s) /\ Len(s) <= MaxBerDepth + 1
  /\ \A i \in 1 .. Len(s) :
       s[i].limit \in Nat /\ s[i].limit <= n /\ (i > 1 => s[i].limit <= s[i - 1].limit)

Inv ==
  /\ input \in Seq(Octet) /\ pos \in Nat
  /\ Nested(stack, Len(input))
  /\ pos <= Limit(stack, Len(input))

LEMMA LimitIsWithin ==
  ASSUME NEW s, NEW n \in Nat, Nested(s, n)
  PROVE  /\ Limit(s, n) \in Nat /\ Limit(s, n) <= n
         /\ Len(s) \in Nat /\ DOMAIN s = 1 .. Len(s)
         /\ s = <<>> <=> Len(s) = 0
<1>1. PICK S : s \in Seq(S)
  BY DEF Nested, Calls
<1>2. Len(s) \in Nat /\ DOMAIN s = 1 .. Len(s) /\ (s = <<>> <=> Len(s) = 0)
  BY <1>1
<1>3. CASE s = <<>>
  BY <1>2, <1>3 DEF Limit
<1>4. CASE s # <<>>
  <2>1. Len(s) \in 1 .. Len(s)
    BY <1>2, <1>4
  <2>. QED  BY <1>2, <1>4, <2>1 DEF Limit, Nested
<1>. QED  BY <1>3, <1>4

LEMMA InvImpliesProperties == Inv => LimitsNested /\ DepthBounded
<1>. SUFFICES ASSUME Inv  PROVE LimitsNested /\ DepthBounded
  OBVIOUS
<1>1. Len(input) \in Nat
  BY DEF Inv
<1>2. DOMAIN stack = 1 .. Len(stack) /\ Len(stack) \in Nat
  BY <1>1, LimitIsWithin DEF Inv
<1>3. limit = Limit(stack, Len(input))
  BY DEF limit, top, Limit
<1>. QED  BY <1>1, <1>2, <1>3 DEF Inv, Nested, LimitsNested, DepthBounded

(* Calls with the limits of nested ones are nested.                        *)
LEMMA SameLimits ==
  ASSUME NEW s, NEW n, NEW t, Nested(s, n), Calls(t),
         Len(s) \in Nat, Len(t) \in Nat, Len(t) <= Len(s),
         \A i \in 1 .. Len(t) : t[i].limit = s[i].limit
  PROVE  Nested(t, n)
<1>1. ASSUME NEW i \in 1 .. Len(t)
      PROVE  t[i].limit \in Nat /\ t[i].limit <= n /\ (i > 1 => t[i].limit <= t[i - 1].limit)
  <2>1. i \in 1 .. Len(s) /\ t[i].limit = s[i].limit
    OBVIOUS
  <2>2. s[i].limit \in Nat /\ s[i].limit <= n /\ (i > 1 => s[i].limit <= s[i - 1].limit)
    BY <2>1 DEF Nested
  <2>3. i > 1 => i - 1 \in 1 .. Len(t)
    OBVIOUS
  <2>4. i > 1 => t[i - 1].limit = s[i - 1].limit
    BY <2>3
  <2>. QED  BY <2>1, <2>2, <2>4
<1>2. Len(t) <= MaxBerDepth + 1
  BY BerAssumption DEF Nested
<1>. QED  BY <1>1, <1>2 DEF Nested

(* Delivering a child to a call changes no limit.                          *)
LEMMA DeliverKeepsLimits ==
  ASSUME NEW c, NEW n \in Nat, Nested(c, n), NEW der, Deliver(der, c)
  PROVE  /\ Nested(stack', n) /\ Len(stack') = Len(c)
         /\ Limit(stack', n) = Limit(c, n)
<1>0. Len(c) \in Nat /\ (c = <<>> <=> Len(c) = 0)
  BY LimitIsWithin
<1>1. CASE c = <<>>
  BY <1>1 DEF Deliver
<1>2. CASE c # <<>>
  <2>2. /\ Calls(stack') /\ Len(stack') = Len(c)
        /\ \A i \in 1 .. Len(c) : stack'[i].limit = c[i].limit
    <3>1. Calls(c)
      BY DEF Nested
    <3>. QED  BY <1>2, <3>1, ChildDelivered
  <2>3. Nested(stack', n)
    BY <1>0, <2>2, SameLimits
  <2>4. stack' # <<>> /\ Len(c) \in 1 .. Len(c)
    BY <1>0, <1>2, <2>2, <2>3, LimitIsWithin
  <2>. QED  BY <1>2, <2>2, <2>3, <2>4 DEF Limit
<1>. QED  BY <1>1, <1>2

(* What each step that goes on does to the position and the stack.         *)
Moved(dp, dl) == pos + dp <= pos' /\ Len(stack') = Len(stack) + dl

LEMMA ReadPrimitiveMoves == Inv /\ ReadPrimitive => Inv' /\ Moved(2, 0)
<1>. SUFFICES ASSUME Inv, ReadPrimitive  PROVE Inv' /\ Moved(2, 0)
  OBVIOUS
<1>. DEFINE n == Len(input)
<1>1. n \in Nat /\ input' = input /\ limit = Limit(stack, n) /\ Nested(stack, n)
  BY DEF Inv, ReadPrimitive, limit, top, Limit
<1>2. Limit(stack, n) \in Nat /\ Limit(stack, n) <= n /\ Len(stack) \in Nat
  BY <1>1, LimitIsWithin
<1>3. header.end \in Nat /\ pos + 2 <= header.end /\ header.end <= limit
  <2>1. header # None
    BY DEF ReadPrimitive, AtElement
  <2>2. header.body \in Nat
    BY <1>1, <1>2, <2>1, HeaderWithin DEF header, Inv
  <2>. QED  BY <1>1, <1>2, <2>1, <2>2, HeaderWithin DEF header, Inv
<1>4. Nested(stack', n) /\ Len(stack') = Len(stack) /\ Limit(stack', n) = Limit(stack, n)
  <2>1. Deliver(Der(header.tag, SubSeq(input, header.body + 1, header.end)), stack)
    BY DEF ReadPrimitive
  <2>. QED  BY <1>1, <2>1, DeliverKeepsLimits
<1>5. pos' = header.end
  BY DEF ReadPrimitive
<1>. QED  BY <1>1, <1>2, <1>3, <1>4, <1>5 DEF Inv, Moved

LEMMA EnterConstructedMoves == Inv /\ EnterConstructed => Inv' /\ Moved(2, 1)
<1>. SUFFICES ASSUME Inv, EnterConstructed  PROVE Inv' /\ Moved(2, 1)
  OBVIOUS
<1>. DEFINE n == Len(input)
            f == [tag |-> header.tag, indefinite |-> header.indefinite,
                  limit |-> header.end, children |-> <<>>]
<1>1. n \in Nat /\ input' = input /\ limit = Limit(stack, n) /\ Nested(stack, n)
  BY DEF Inv, EnterConstructed, limit, top, Limit
<1>2. /\ Limit(stack, n) \in Nat /\ Limit(stack, n) <= n /\ Len(stack) \in Nat
      /\ stack = <<>> <=> Len(stack) = 0
  BY <1>1, LimitIsWithin
<1>3. /\ header.indefinite \in BOOLEAN /\ header.body \in Nat /\ header.end \in Nat
      /\ pos + 2 <= header.body /\ header.body <= header.end /\ header.end <= limit
  <2>1. header # None
    BY DEF EnterConstructed, AtElement
  <2>. QED  BY <1>1, <1>2, <2>1, HeaderWithin DEF header, Inv
<1>4. IsCall(f) /\ f.limit = header.end
  BY <1>3 DEF IsCall
<1>5. stack' = Append(stack, f) /\ pos' = header.body /\ Len(stack) <= MaxBerDepth
  BY DEF EnterConstructed, AtElement, DepthLeft
<1>. HIDE DEF f
<1>6. /\ Calls(stack') /\ Len(stack') = Len(stack) + 1
      /\ \A i \in 1 .. Len(stack) : stack'[i] = stack[i]
      /\ stack'[Len(stack) + 1] = f
  BY <1>1, <1>4, <1>5, CallEntered DEF Nested
<1>7. Nested(stack', n)
  <2>1. stack # <<>> => f.limit <= stack[Len(stack)].limit
    BY <1>1, <1>3, <1>4 DEF Limit
  <2>2. ASSUME NEW i \in 1 .. Len(stack')
        PROVE  /\ stack'[i].limit \in Nat /\ stack'[i].limit <= n
               /\ i > 1 => stack'[i].limit <= stack'[i - 1].limit
    <3>1. CASE i = Len(stack) + 1
      <4>1. stack'[i].limit = header.end /\ header.end <= n
        BY <1>1, <1>2, <1>3, <1>4, <1>6, <3>1
      <4>2. i > 1 => stack # <<>> /\ stack'[i - 1] = stack[Len(stack)]
        BY <1>2, <1>6, <3>1
      <4>. QED  BY <1>3, <1>4, <2>1, <4>1, <4>2
    <3>2. CASE i # Len(stack) + 1
      <4>1. i \in 1 .. Len(stack) /\ (i > 1 => i - 1 \in 1 .. Len(stack))
        BY <1>2, <1>6, <3>2
      <4>2. stack'[i] = stack[i] /\ (i > 1 => stack'[i - 1] = stack[i - 1])
        BY <1>6, <4>1
      <4>. QED  BY <1>1, <4>1, <4>2 DEF Nested
    <3>. QED  BY <3>1, <3>2
  <2>. QED  BY <1>2, <1>5, <1>6, <2>2, BerAssumption DEF Nested
<1>8. Limit(stack', n) = header.end
  BY <1>2, <1>4, <1>6, <1>7, LimitIsWithin DEF Limit
<1>. QED  BY <1>1, <1>2, <1>3, <1>5, <1>6, <1>7, <1>8 DEF Inv, Moved

LEMMA ReturnMoves == Inv /\ Return => Inv' /\ Moved(0, -1)
<1>. SUFFICES ASSUME Inv, Return  PROVE Inv' /\ Moved(0, -1)
  OBVIOUS
<1>. DEFINE n == Len(input)
            c == Front(stack)
<1>1. n \in Nat /\ input' = input /\ limit = Limit(stack, n) /\ Nested(stack, n) /\ stack # <<>>
  BY DEF Inv, Return, AtReturn, limit, top, Limit
<1>2. Limit(stack, n) \in Nat /\ Limit(stack, n) <= n
  BY <1>1, LimitIsWithin
<1>3. /\ Calls(c) /\ Len(c) = Len(stack) - 1
      /\ \A i \in 1 .. Len(stack) - 1 : c[i] = stack[i]
      /\ Len(stack) \in Nat \ {0}
  BY <1>1, CallLeft DEF Nested
<1>. HIDE DEF c
<1>4. Nested(c, n)
  BY <1>1, <1>3, SameLimits
<1>5. Limit(stack, n) <= Limit(c, n) /\ Limit(c, n) \in Nat
  <2>1. Limit(c, n) \in Nat /\ (c = <<>> <=> Len(c) = 0)
    BY <1>1, <1>4, LimitIsWithin
  <2>2. CASE c = <<>>
    BY <1>2, <2>1, <2>2 DEF Limit
  <2>3. CASE c # <<>>
    <3>1. Len(stack) > 1 /\ Len(c) \in 1 .. Len(stack) - 1
      BY <1>3, <2>1, <2>3
    <3>2. stack[Len(stack)].limit <= stack[Len(stack) - 1].limit
      BY <1>1, <1>3, <3>1 DEF Nested
    <3>3. c[Len(c)] = stack[Len(stack) - 1]
      BY <1>3, <3>1
    <3>. QED  BY <1>1, <2>1, <2>3, <3>2, <3>3 DEF Limit
  <2>. QED  BY <2>2, <2>3
<1>6. pos' \in Nat /\ pos <= pos' /\ pos' <= limit
  BY <1>1, <1>2 DEF Return, AtReturn, AtEndOfContents, Inv
<1>7. Nested(stack', n) /\ Len(stack') = Len(c) /\ Limit(stack', n) = Limit(c, n)
  <2>1. Deliver(Assembled(top), c)
    BY DEF Return, c
  <2>. QED  BY <1>1, <1>4, <2>1, DeliverKeepsLimits
<1>8. pos' <= Limit(stack', n)
  BY <1>1, <1>2, <1>5, <1>6, <1>7
<1>9. Inv'
  BY <1>1, <1>6, <1>7, <1>8 DEF Inv
<1>10. Moved(0, -1)
  <2>1. pos + 0 <= pos'
    <3>1. pos \in Nat
      BY DEF Inv
    <3>. QED  BY <1>6, <3>1
  <2>2. Len(stack') = Len(stack) - 1 /\ Len(stack) \in Nat
    BY <1>3, <1>7
  <2>3. Len(stack) - 1 = Len(stack) + (-1)
    BY <2>2
  <2>. QED  BY <2>1, <2>2, <2>3 DEF Moved
<1>. QED  BY <1>9, <1>10

LEMMA NoCalls == Calls(<<>>)
<1>. DEFINE none == <<>>
<1>1. none \in Seq({}) /\ \A f \in {} : IsCall(f)
  OBVIOUS
<1>2. Calls(none)
  <2>. HIDE DEF none
  <2>. QED  BY <1>1 DEF Calls
<1>. QED  BY <1>2

LEMMA InvInductive == Inv /\ [Next]_vars => Inv'
<1>. SUFFICES ASSUME Inv, [Next]_vars  PROVE Inv'
  OBVIOUS
<1>1. ASSUME NEW octets \in Seq(Octet), Convert(octets)  PROVE Inv'
  <2>1. Calls(<<>>)
    BY NoCalls
  <2>. QED  BY <1>1, <2>1, BerAssumption DEF Convert, Inv, Nested, Limit
<1>2. CASE ReadPrimitive
  BY <1>2, ReadPrimitiveMoves
<1>3. CASE EnterConstructed
  BY <1>3, EnterConstructedMoves
<1>4. CASE Return
  BY <1>4, ReturnMoves
<1>5. CASE UNCHANGED <<input, pos, stack>>
  BY <1>5 DEF Inv, Nested, Limit, Calls
<1>. QED  BY <1>1, <1>2, <1>3, <1>4, <1>5 DEF Next, Step, Finish, Reject, vars

LEMMA InvAlways == Spec => []Inv
<1>1. Init => Inv
  <2>1. Calls(<<>>)
    BY NoCalls
  <2>. QED  BY <2>1, BerAssumption DEF Init, Inv, Nested, Limit
<1>. QED  BY <1>1, InvInductive, PTL DEF Spec

-----------------------------------------------------------------------------
(* The theorems.                                                           *)

(* Whatever the octets, nothing is read beyond the element it belongs to:  *)
(* no slice taken by ber_tlv_to_der is out of bounds.                      *)
THEOREM NothingOutOfBounds == Spec => []LimitsNested
BY InvAlways, InvImpliesProperties, PTL

(* The recursion goes no deeper than MAX_BER_DEPTH, whatever that is.      *)
THEOREM RecursionBounded == Spec => []DepthBounded
BY InvAlways, InvImpliesProperties, PTL

(* Both together: no message makes ber_tlv_to_der panic or run out of      *)
(* stack.                                                                  *)
THEOREM DescentInBounds == Spec => []DescentStaysInBounds
BY NothingOutOfBounds, RecursionBounded, PTL DEF DescentStaysInBounds

(* A conversion cannot go on for ever: what remains to be done decreases   *)
(* with each step and is never negative.                                   *)
THEOREM ConversionEnds == Spec => EveryStepAdvances
<1>1. Inv /\ Inv' /\ [Next]_vars =>
        [pc = "parse" /\ pc' = "parse" => Remaining' < Remaining /\ Remaining' >= 0]_vars
  <2>. SUFFICES ASSUME Inv, Inv', Next, pc = "parse", pc' = "parse"
                PROVE  Remaining' < Remaining /\ Remaining' >= 0
    OBVIOUS
  <2>1. /\ Len(input) \in Nat /\ pos \in Nat /\ Len(stack) \in Nat
        /\ pos <= Len(input)
    <3>1. Len(input) \in Nat /\ pos \in Nat
      BY DEF Inv
    <3>2. Limit(stack, Len(input)) \in Nat /\ Limit(stack, Len(input)) <= Len(input) /\ Len(stack) \in Nat
      BY <3>1, LimitIsWithin DEF Inv
    <3>. QED  BY <3>1, <3>2 DEF Inv
  <2>2. /\ Len(input') \in Nat /\ pos' \in Nat /\ Len(stack') \in Nat
        /\ pos' <= Len(input')
    <3>1. Len(input') \in Nat /\ pos' \in Nat
      BY DEF Inv
    <3>2. /\ Limit(stack', Len(input')) \in Nat /\ Limit(stack', Len(input')) <= Len(input')
          /\ Len(stack') \in Nat
      BY <3>1, LimitIsWithin DEF Inv
    <3>. QED  BY <3>1, <3>2 DEF Inv
  <2>3. input' = input /\ out = None /\ (Moved(2, 0) \/ Moved(2, 1) \/ Moved(0, -1))
    BY ReadPrimitiveMoves, EnterConstructedMoves, ReturnMoves
       DEF Next, Step, Finish, Reject, Convert, ReadPrimitive, EnterConstructed, Return, AtElement, Parsing
  <2>4. CASE Moved(2, 0) \/ Moved(2, 1)
    BY <2>1, <2>2, <2>3, <2>4 DEF Remaining, Moved
  <2>5. CASE Moved(0, -1)
    <3>1. pos <= pos' /\ Len(stack') = Len(stack) - 1
      BY <2>1, <2>2, <2>5 DEF Moved
    <3>. QED  BY <2>1, <2>2, <2>3, <3>1 DEF Remaining
  <2>. QED  BY <2>3, <2>4, <2>5
<1>. QED  BY <1>1, InvAlways, PTL DEF Spec, EveryStepAdvances

=============================================================================
