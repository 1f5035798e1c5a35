---------------------------- MODULE Pkcs12_proofs ----------------------------
(***************************************************************************)
(* Proofs about Pkcs12, for files with any number of entries and bags: the *)
(* right password yields the first key or leaf certificate, a wrong one is *)
(* told, and garbage is explained.  Here are the invariant and its steps;  *)
(* the theorem is in Tools_proofs, where the extraction has a caller.      *)
(***************************************************************************)
EXTENDS Pkcs12, TLAPS, WellFoundedInduction

(* What the search is for.                                                 *)
Wanted(bag) == IF want = "key" THEN IsKey(bag) ELSE IsLeaf(bag)
HasNone(contents) == \A j \in DOMAIN contents : ~Wanted(contents[j])

(* contents[k] is what entry m[k] of f carries, for all entries up to n    *)
(* that carry anything, in their order.                                    *)
Placed(m, n, contents, f) ==
  /\ m \in [1 .. Len(contents) -> 1 .. n]
  /\ \A k \in 1 .. Len(contents) : Carries(f.entries[m[k]]) /\ contents[k] = f.entries[m[k]].contents
  /\ \A k, l \in 1 .. Len(contents) : k < l => m[k] < m[l]
  /\ \A i \in 1 .. n : Carries(f.entries[i]) => \E k \in 1 .. Len(contents) : m[k] = i

(* Of a sound file: what has been opened is all up to the entry that is    *)
(* next, and nothing wanted is in what was searched.                       *)
OpenedFully ==
  /\ step = "open" => opened = <<>>
  /\ step = "decrypt" => \E m : Placed(m, entry - 1, opened, file)
  /\ step = "search" =>
       /\ \E m : Placed(m, Len(file.entries), opened, file)
       /\ \A k \in 1 .. entry - 1 : HasNone(opened[k])

(* Entries are only opened behind a MAC that verified.                     *)
Unlocked ==
  /\ step \in {"decrypt", "search"} => Opens(file, password) = "Ok"
  /\ step = "done" /\ Opens(file, password) # "Ok" => answer = [kind |-> Opens(file, password), value |-> Absent]

(* A wrong password makes garbage of keys at most.                         *)
GarbageIsKey == answer.value = Garbage => want = "key"

(* The invariant: types, what the MAC has told, and what was opened.       *)
Pkcs12Inv ==
  /\ Pkcs12TypeOK /\ Unlocked /\ GarbageIsKey
  /\ Sound(file, password) => OpenedFully
  /\ SoundFilesAreRead

-----------------------------------------------------------------------------
(* A nonempty set of natural numbers has a least member.                   *)
LEMMA LeastExists ==
  ASSUME NEW T, T \subseteq Nat, T # {}
  PROVE  Min(T) \in T /\ \A y \in T : Min(T) <= y
<1>. DEFINE R == {ss \in Nat \X Nat : ss[1] < ss[2]}
<1>1. IsWellFoundedOn(R, Nat)
  BY NatLessThanWellFounded DEF OpToRel
<1>2. \E x \in T : \A y \in T : <<y, x>> \notin R
  <2>. HIDE DEF R
  <2>. QED  BY <1>1, WFMin
<1>3. \A x, y \in Nat : <<y, x>> \notin R => x <= y
  OBVIOUS
<1>4. \E x \in T : \A y \in T : x <= y
  BY <1>2, <1>3
<1>. QED  BY <1>4 DEF Min

(* There is only one.                                                      *)
LEMMA LeastIs ==
  ASSUME NEW T, T \subseteq Nat, NEW x \in T, \A y \in T : x <= y
  PROVE  Min(T) = x
<1>1. Min(T) \in T /\ Min(T) <= x
  BY LeastExists
<1>2. x <= Min(T) /\ x \in Nat /\ Min(T) \in Nat
  BY <1>1
<1>. HIDE DEF Min
<1>. QED  BY <1>1, <1>2

(* The bag that ends a search is the first of its kind.                    *)
LEMMA FirstKey ==
  ASSUME NEW bags \in Seq(SafeBag)
  PROVE  LET i == FirstBag(bags, IsKey) IN
         /\ i = 0 => \A j \in DOMAIN bags : ~IsKey(bags[j])
         /\ i # 0 => i \in DOMAIN bags /\ IsKey(bags[i]) /\ bags[i] \in SafeBag
<1>. DEFINE T == {i \in DOMAIN bags : IsKey(bags[i])}
<1>1. T \subseteq Nat /\ \A i \in DOMAIN bags : i # 0 /\ bags[i] \in SafeBag
  OBVIOUS
<1>2. T # {} => Min(T) \in T
  BY <1>1, LeastExists
<1>3. FirstBag(bags, IsKey) = IF T = {} THEN 0 ELSE Min(T)
  BY DEF FirstBag
<1>. QED  BY <1>1, <1>2, <1>3

LEMMA FirstLeafOrBroken ==
  ASSUME NEW bags \in Seq(SafeBag)
  PROVE  LET i == FirstBag(bags, IsLeafOrBroken) IN
         /\ i = 0 => \A j \in DOMAIN bags : ~IsLeafOrBroken(bags[j])
         /\ i # 0 => i \in DOMAIN bags /\ IsLeafOrBroken(bags[i]) /\ bags[i] \in SafeBag
<1>. DEFINE T == {i \in DOMAIN bags : IsLeafOrBroken(bags[i])}
<1>1. T \subseteq Nat /\ \A i \in DOMAIN bags : i # 0 /\ bags[i] \in SafeBag
  OBVIOUS
<1>2. T # {} => Min(T) \in T
  BY <1>1, LeastExists
<1>3. FirstBag(bags, IsLeafOrBroken) = IF T = {} THEN 0 ELSE Min(T)
  BY DEF FirstBag
<1>. QED  BY <1>1, <1>2, <1>3

LEMMA FirstLeaf ==
  ASSUME NEW bags \in Seq(SafeBag)
  PROVE  LET i == FirstBag(bags, IsLeaf) IN
         /\ i = 0 => \A j \in DOMAIN bags : ~IsLeaf(bags[j])
         /\ i # 0 => i \in DOMAIN bags /\ IsLeaf(bags[i]) /\ bags[i] \in SafeBag
<1>. DEFINE T == {i \in DOMAIN bags : IsLeaf(bags[i])}
<1>1. T \subseteq Nat /\ \A i \in DOMAIN bags : i # 0 /\ bags[i] \in SafeBag
  OBVIOUS
<1>2. T # {} => Min(T) \in T
  BY <1>1, LeastExists
<1>3. FirstBag(bags, IsLeaf) = IF T = {} THEN 0 ELSE Min(T)
  BY DEF FirstBag
<1>. QED  BY <1>1, <1>2, <1>3

(* Where every certificate parses, what ends the search is a leaf.         *)
LEMMA SameFirst ==
  ASSUME NEW bags \in Seq(SafeBag), \A j \in DOMAIN bags : bags[j].kind = "x509" => bags[j].parses
  PROVE  FirstBag(bags, IsLeafOrBroken) = FirstBag(bags, IsLeaf)
<1>1. {i \in DOMAIN bags : IsLeafOrBroken(bags[i])} = {i \in DOMAIN bags : IsLeaf(bags[i])}
  BY DEF IsLeafOrBroken, IsLeaf
<1>. QED  BY <1>1 DEF FirstBag

-----------------------------------------------------------------------------
(* What an opened file has told about the password.                        *)
LEMMA OpensTells ==
  ASSUME NEW f \in Pfx \union {NoPfx}, NEW pw \in Password
  PROVE  /\ Opens(f, pw) \in {"Ok", "Other", "WrongPassword"}
         /\ Opens(f, pw) = "Ok" => f \in Pfx
         /\ Sound(f, pw) => Opens(f, pw) = "Ok"
         /\ \A other \in Password :
              Sound(f, other) /\ f.mac # Absent /\ ~MacVerifies(f.mac, pw) => Opens(f, pw) = "WrongPassword"
<1>1. f = NoPfx => ~f.decodes
  BY DEF NoPfx
<1>2. \A other \in Password : Sound(f, other) => f.decodes /\ f.version = 3 /\ f.authSafe = "data" /\ f.entriesDecode
  BY DEF Sound
<1>3. \A other \in Password : Sound(f, other) /\ f.mac # Absent => MacParametersOk(f.mac)
  BY DEF Sound
<1>4. Sound(f, pw) /\ f.mac # Absent => MacVerifies(f.mac, pw)
  BY DEF Sound, MacVerifies
<1>. QED  BY <1>1, <1>2, <1>3, <1>4 DEF Opens

(* Only one password can be that of a sound file with a MAC.               *)
LEMMA OnePassword ==
  ASSUME NEW f \in Pfx, NEW pw \in Password, NEW other \in Password,
         Opens(f, pw) = "Ok", Sound(f, other), f.mac # Absent
  PROVE  other = pw
<1>1. MacVerifies(f.mac, pw)
  BY DEF Opens
<1>2. f.mac.password \in {other} \union (IF other = Empty THEN {NullPassword} ELSE {})
  BY DEF Sound
<1>. QED  BY <1>1, <1>2, Pkcs12Assumption DEF MacVerifies

(* What may come of a decryption.                                          *)
LEMMA DecryptedType ==
  ASSUME NEW e, NEW pw, NEW plaintext, NEW d \in Decrypted(e, pw, plaintext)
  PROVE  /\ d.kind \in {"Ok", "Other", "WrongPassword"}
         /\ d.kind = "Ok" => d.value \in {plaintext, Garbage}
         /\ d.kind # "Ok" => d = [kind |-> d.kind, value |-> Absent]
         /\ e.supported /\ e.password = pw => d = [kind |-> "Ok", value |-> plaintext]
         /\ d = [kind |-> d.kind, value |-> d.value]
BY DEF Decrypted

(* What the search of one SafeContents yields.                             *)
LEMMA FoundType ==
  ASSUME NEW contents \in SafeContents, NEW pw \in Password, want \in {"key", "certificate"}
  PROVE  /\ Found(want, contents, pw) = {} => HasNone(contents)
         /\ \A a \in Found(want, contents, pw) :
              /\ a \in Answer
              /\ a.kind # "Ok" => a.value = Absent
              /\ a.value = Garbage => want = "key"
<1>. DEFINE broken == [kind |-> "Other", value |-> Absent]
<1>0. broken \in Answer /\ broken.value = Absent /\ Absent # Garbage
  BY Pkcs12Assumption DEF Answer, AnswerKinds
<1>1. CASE contents = Garbage
  <2>1. Found(want, contents, pw) = {broken}
    BY <1>1 DEF Found
  <2>. HIDE DEF broken
  <2>. QED  BY <1>0, <2>1
<1>2. CASE contents # Garbage /\ want = "key"
  <2>. DEFINE i == FirstBag(contents, IsKey)
  <2>1. contents \in Seq(SafeBag) /\ Found(want, contents, pw) = FoundKey(contents, pw)
    BY <1>2 DEF SafeContents, Found
  <2>2. i = 0 => FoundKey(contents, pw) = {} /\ HasNone(contents)
    BY <1>2, <2>1, FirstKey DEF FoundKey, HasNone, Wanted
  <2>3. CASE i # 0
    <3>1. contents[i] \in SafeBag
      BY <2>1, <2>3, FirstKey
    <3>2. contents[i].value \in Value
      BY <3>1 DEF SafeBag
    <3>3. FoundKey(contents, pw) \in {Decrypted(contents[i], pw, contents[i].value), {[kind |-> "Ok", value |-> contents[i].value]}}
      BY <2>3 DEF FoundKey
    <3>. HIDE DEF i
    <3>4. FoundKey(contents, pw) # {}
      BY <3>3 DEF Decrypted
    <3>5. \A a \in FoundKey(contents, pw) : a \in Answer /\ (a.kind # "Ok" => a.value = Absent)
      BY <3>2, <3>3, DecryptedType DEF Answer, AnswerKinds
    <3>. QED  BY <1>2, <2>1, <3>4, <3>5
  <2>. QED  BY <2>1, <2>2, <2>3
<1>3. CASE contents # Garbage /\ want = "certificate"
  <2>. DEFINE i == FirstBag(contents, IsLeafOrBroken)
  <2>1. contents \in Seq(SafeBag) /\ Found(want, contents, pw) = FoundLeaf(contents)
    BY <1>3 DEF SafeContents, Found
  <2>2. i = 0 => FoundLeaf(contents) = {} /\ HasNone(contents)
    BY <1>3, <2>1, FirstLeafOrBroken DEF FoundLeaf, HasNone, Wanted, IsLeaf, IsLeafOrBroken
  <2>3. CASE i # 0
    <3>1. contents[i] \in SafeBag
      BY <2>1, <2>3, FirstLeafOrBroken
    <3>2. contents[i].value \in Value
      BY <3>1 DEF SafeBag
    <3>. DEFINE leaf == [kind |-> "Ok", value |-> contents[i].value]
    <3>3. FoundLeaf(contents) = {broken} \/ FoundLeaf(contents) = {leaf}
      BY <2>3 DEF FoundLeaf
    <3>4. leaf \in Answer /\ leaf.kind = "Ok" /\ leaf.value # Garbage
      BY <3>2, Pkcs12Assumption DEF Answer, AnswerKinds
    <3>. HIDE DEF i, leaf, broken
    <3>. QED  BY <1>0, <2>1, <3>3, <3>4
  <2>. QED  BY <2>1, <2>2, <2>3
<1>. QED  BY <1>1, <1>2, <1>3

(* Nothing was opened yet.                                                 *)
LEMMA Pkcs12Starts == Pkcs12Init => Pkcs12Inv
<1>. SUFFICES ASSUME Pkcs12Init PROVE Pkcs12Inv
  OBVIOUS
<1>1. Pkcs12TypeOK
  BY Pkcs12Assumption DEF Pkcs12Init, Pkcs12TypeOK, NoAnswer, Answer, AnswerKinds
<1>. QED
  BY <1>1, Pkcs12Assumption
     DEF Pkcs12Init, Pkcs12Inv, Unlocked, GarbageIsKey, OpenedFully, SoundFilesAreRead, Done, NoAnswer

(* A call begins with nothing opened.                                      *)
LEMMA ExtractionBegins ==
  ASSUME NEW content, NEW pw \in Password, NEW what \in {"key", "certificate"}, Extract(content, pw, what)
  PROVE  Pkcs12Inv'
<1>1. Pkcs12TypeOK'
  BY Pkcs12Assumption DEF Extract, Pkcs12TypeOK, NoAnswer, Answer, AnswerKinds, PfxIn
<1>. QED
  BY <1>1, Pkcs12Assumption
     DEF Extract, Pkcs12Inv, Unlocked, GarbageIsKey, OpenedFully, SoundFilesAreRead, Done, NoAnswer

(* Steps that leave the extraction leave the invariant.                    *)
LEMMA Pkcs12Stutters == Pkcs12Inv /\ UNCHANGED p12Vars => Pkcs12Inv'
<1>. SUFFICES ASSUME Pkcs12Inv, UNCHANGED p12Vars PROVE Pkcs12Inv'
  OBVIOUS
<1>. USE DEF Pkcs12Inv, p12Vars
<1>1. Pkcs12TypeOK' /\ Unlocked' /\ GarbageIsKey'
  BY DEF Pkcs12TypeOK, Unlocked, GarbageIsKey
<1>2. SoundFilesAreRead'
  BY DEF SoundFilesAreRead, Done
<1>4. \A contents : HasNone(contents)' = HasNone(contents)
  BY DEF HasNone, Wanted
<1>5. Sound(file, password)' => OpenedFully'
  BY <1>4 DEF OpenedFully
<1>. QED  BY <1>1, <1>2, <1>5

(* A sound file whose first entries have been placed is no different.      *)
LEMMA EntryPlaced ==
  ASSUME NEW f \in Pfx, NEW before \in Seq(SafeContents), NEW n \in 1 .. Len(f.entries), NEW m,
         Placed(m, n - 1, before, f), Carries(f.entries[n])
  PROVE  \E new : Placed(new, n, Append(before, f.entries[n].contents), f)
<1>. DEFINE after == Append(before, f.entries[n].contents)
<1>1. f.entries \in Seq(ContentInfo) /\ n \in Nat /\ n >= 1
  BY DEF Pfx
<1>2. f.entries[n].contents \in SafeContents
  <2>1. f.entries[n] \in ContentInfo
    BY <1>1
  <2>. QED  BY <2>1 DEF ContentInfo
<1>3. /\ Len(after) = Len(before) + 1 /\ Len(before) \in Nat
      /\ \A k \in 1 .. Len(before) : after[k] = before[k]
      /\ after[Len(before) + 1] = f.entries[n].contents
  BY <1>1, <1>2
<1>. HIDE DEF after
<1>. DEFINE new == [k \in 1 .. Len(before) + 1 |-> IF k = Len(before) + 1 THEN n ELSE m[k]]
<1>4. \A k \in 1 .. Len(before) : new[k] = m[k] /\ m[k] \in 1 .. n - 1
  BY <1>3 DEF Placed
<1>5. new[Len(before) + 1] = n
  BY <1>3
<1>6. new \in [1 .. Len(after) -> 1 .. n]
  <2>1. \A k \in 1 .. Len(before) + 1 : k = Len(before) + 1 \/ k \in 1 .. Len(before)
    BY <1>3
  <2>2. \A k \in 1 .. Len(before) + 1 : new[k] \in 1 .. n
    <3>. HIDE DEF new
    <3>2. \A k \in 1 .. Len(before) : new[k] \in 1 .. n
      BY <1>1, <1>4
    <3>. QED  BY <1>1, <1>3, <1>5, <2>1, <3>2
  <2>. QED  BY <1>3, <2>2
<1>. HIDE DEF new
<1>7. \A k \in 1 .. Len(after) : Carries(f.entries[new[k]]) /\ after[k] = f.entries[new[k]].contents
  <2>1. \A k \in 1 .. Len(before) : Carries(f.entries[m[k]]) /\ before[k] = f.entries[m[k]].contents
    BY DEF Placed
  <2>2. \A k \in 1 .. Len(before) : Carries(f.entries[new[k]]) /\ after[k] = f.entries[new[k]].contents
    BY <1>3, <1>4, <2>1
  <2>. QED  BY <1>3, <1>5, <2>2
<1>8. \A k, l \in 1 .. Len(after) : k < l => new[k] < new[l]
  <2>1. SUFFICES ASSUME NEW k \in 1 .. Len(after), NEW l \in 1 .. Len(after), k < l
                 PROVE  new[k] < new[l]
    OBVIOUS
  <2>2. k \in 1 .. Len(before)
    BY <1>3, <2>1
  <2>3. CASE l = Len(before) + 1
    BY <1>1, <1>4, <1>5, <2>2, <2>3
  <2>4. CASE l \in 1 .. Len(before)
    <3>1. m[k] < m[l]
      BY <2>1, <2>2, <2>4 DEF Placed
    <3>. QED  BY <1>4, <2>2, <2>4, <3>1
  <2>. QED  BY <1>3, <2>3, <2>4
<1>9. \A i \in 1 .. n : Carries(f.entries[i]) => \E k \in 1 .. Len(after) : new[k] = i
  <2>. SUFFICES ASSUME NEW i \in 1 .. n, Carries(f.entries[i])
                PROVE  \E k \in 1 .. Len(after) : new[k] = i
    OBVIOUS
  <2>1. CASE i = n
    BY <1>3, <1>5, <2>1
  <2>2. CASE i \in 1 .. n - 1
    <3>1. PICK k \in 1 .. Len(before) : m[k] = i
      BY <2>2 DEF Placed
    <3>2. k \in 1 .. Len(after) /\ new[k] = m[k]
      BY <1>3, <1>4
    <3>. QED  BY <3>1, <3>2
  <2>3. i = n \/ i \in 1 .. n - 1
    BY <1>1
  <2>. QED  BY <2>1, <2>2, <2>3
<1>10. Placed(new, n, after, f)
  BY <1>6, <1>7, <1>8, <1>9 DEF Placed
<1>. QED  BY <1>10 DEF after

(* The MAC is judged, and what it says is the answer or was passed.        *)
LEMMA OpenKeeps == Pkcs12Inv /\ Open => Pkcs12Inv'
<1>. SUFFICES ASSUME Pkcs12Inv, Open PROVE Pkcs12Inv'
  OBVIOUS
<1>. USE DEF Pkcs12Inv
<1>1. /\ file \in Pfx \union {NoPfx} /\ password \in Password /\ want \in {"key", "certificate"}
      /\ opened \in Seq(SafeContents) /\ step = "open"
      /\ UNCHANGED <<file, password, want>> /\ opened' = opened
  BY DEF Open, Pkcs12TypeOK, Return
<1>2. CASE Opens(file, password) = "Ok"
  <2>1. file \in Pfx /\ file.entries \in Seq(ContentInfo)
    BY <1>1, <1>2, OpensTells DEF Pfx
  <2>2. step' = "decrypt" /\ entry' = 1 /\ answer' = answer
    BY <1>2 DEF Open
  <2>3. Pkcs12TypeOK'
    BY <1>1, <2>1, <2>2 DEF Pkcs12TypeOK
  <2>4. Sound(file, password) => OpenedFully'
    <3>. SUFFICES ASSUME Sound(file, password) PROVE \E m : Placed(m, entry' - 1, opened', file')
      BY <2>2 DEF OpenedFully
    <3>. DEFINE m == [k \in 1 .. 0 |-> 1]
    <3>1. opened = <<>>
      BY <1>1 DEF OpenedFully
    <3>2. m \in [1 .. Len(opened') -> 1 .. entry' - 1]
      BY <1>1, <2>2, <3>1
    <3>3. Placed(m, entry' - 1, opened', file')
      BY <1>1, <2>2, <3>1, <3>2 DEF Placed
    <3>. QED  BY <3>3
  <2>. QED
    BY <1>1, <1>2, <2>2, <2>3, <2>4 DEF Unlocked, GarbageIsKey, SoundFilesAreRead, Done
<1>3. CASE Opens(file, password) # "Ok"
  <2>1. Opens(file, password) \in {"Other", "WrongPassword"} /\ ~Sound(file, password)
    BY <1>1, <1>3, OpensTells
  <2>2. step' = "done" /\ answer' = [kind |-> Opens(file, password), value |-> Absent] /\ entry' = entry
    BY <1>3 DEF Open, Return
  <2>3. Pkcs12TypeOK'
    BY <1>1, <2>1, <2>2 DEF Pkcs12TypeOK, Answer, AnswerKinds
  <2>. QED
    BY <1>1, <2>1, <2>2, <2>3, Pkcs12Assumption DEF Unlocked, GarbageIsKey, SoundFilesAreRead, Done
<1>. QED  BY <1>2, <1>3

(* A search that is over: neither the file nor what was opened matters.    *)
LEMMA Returns ==
  ASSUME Pkcs12Inv, step \in {"decrypt", "search"}, UNCHANGED <<file, password, want>>, NEW a, Return(a),
         a \in Answer, a.kind # "Ok" => a.value = Absent, a.value = Garbage => want = "key",
         SoundFilesAreRead'
  PROVE  Pkcs12Inv'
<1>1. Pkcs12TypeOK'
  BY DEF Pkcs12Inv, Pkcs12TypeOK, Return
<1>2. Unlocked' /\ GarbageIsKey' /\ OpenedFully'
  BY DEF Pkcs12Inv, Unlocked, GarbageIsKey, OpenedFully, Return
<1>. QED  BY <1>1, <1>2 DEF Pkcs12Inv

(* One more entry was opened, in its place.                                *)
LEMMA OpenEntryKeeps == Pkcs12Inv /\ OpenEntry => Pkcs12Inv'
<1>. SUFFICES ASSUME Pkcs12Inv, OpenEntry PROVE Pkcs12Inv'
  OBVIOUS
<1>. DEFINE e == file.entries[entry]
<1>1. /\ file \in Pfx /\ password \in Password /\ step = "decrypt"
      /\ file.entries \in Seq(ContentInfo) /\ entry \in 1 .. Len(file.entries)
      /\ opened \in Seq(SafeContents)
      /\ UNCHANGED <<file, password, want>>
  <2>1. file \in Pfx /\ step = "decrypt"
    BY DEF Pkcs12Inv, OpenEntry, Pkcs12TypeOK
  <2>2. file.entries \in Seq(ContentInfo)
    BY <2>1 DEF Pfx
  <2>. QED  BY <2>1, <2>2 DEF Pkcs12Inv, OpenEntry, Pkcs12TypeOK
<1>2. e \in ContentInfo
  BY <1>1
<1>3. e.contents \in SafeContents
  BY <1>2 DEF ContentInfo
<1>4. Sound(file, password) =>
        /\ e.kind # "empty"
        /\ e.kind = "encrypted" => e.supported /\ e.password = password
  BY <1>1 DEF Sound
<1>5. ASSUME NEW contents \in SafeContents, opened' = Append(opened, contents), entry' = entry + 1,
             UNCHANGED <<step, answer>>, Carries(e), Sound(file, password) => contents = e.contents
      PROVE  Pkcs12Inv'
  <2>1. Pkcs12TypeOK'
    BY <1>1, <1>5 DEF Pkcs12Inv, Pkcs12TypeOK
  <2>2. Unlocked' /\ GarbageIsKey' /\ SoundFilesAreRead'
    BY <1>1, <1>5 DEF Pkcs12Inv, Unlocked, GarbageIsKey, SoundFilesAreRead, Done
  <2>3. Sound(file, password) => OpenedFully'
    <3>. SUFFICES ASSUME Sound(file, password) PROVE \E m : Placed(m, entry' - 1, opened', file')
      BY <1>1, <1>5 DEF OpenedFully
    <3>1. PICK m : Placed(m, entry - 1, opened, file)
      BY <1>1 DEF Pkcs12Inv, OpenedFully
    <3>2. PICK new : Placed(new, entry, opened', file)
      BY <1>1, <1>5, <3>1, EntryPlaced DEF Pkcs12Inv
    <3>3. Placed(new, entry' - 1, opened', file')
      BY <1>1, <1>5, <3>2
    <3>. QED  BY <3>3
  <2>. QED  BY <1>1, <2>1, <2>2, <2>3 DEF Pkcs12Inv
<1>6. ASSUME NEW a, Return(a), a.kind \in {"Other", "WrongPassword"}, a = [kind |-> a.kind, value |-> Absent],
             ~Sound(file, password)
      PROVE  Pkcs12Inv'
  <2>1. a \in Answer /\ a.value = Absent
    BY <1>6 DEF Answer, AnswerKinds
  <2>2. SoundFilesAreRead'
    BY <1>1, <1>6 DEF SoundFilesAreRead
  <2>. QED  BY <1>1, <1>6, <2>1, <2>2, Returns, Pkcs12Assumption
<1>7. CASE e.kind = "data"
  <2>1. opened' = Append(opened, e.contents) /\ entry' = entry + 1 /\ UNCHANGED <<step, answer>>
    BY <1>7 DEF OpenEntry
  <2>. QED  BY <1>3, <1>5, <1>7, <2>1 DEF Carries
<1>8. CASE e.kind = "other"
  <2>1. entry' = entry + 1 /\ UNCHANGED <<opened, step, answer>>
    BY <1>8 DEF OpenEntry
  <2>2. Pkcs12TypeOK' /\ Unlocked' /\ GarbageIsKey' /\ SoundFilesAreRead'
    BY <1>1, <2>1 DEF Pkcs12Inv, Pkcs12TypeOK, Unlocked, GarbageIsKey, SoundFilesAreRead, Done
  <2>3. Sound(file, password) => OpenedFully'
    <3>. SUFFICES ASSUME Sound(file, password) PROVE \E m : Placed(m, entry' - 1, opened', file')
      BY <1>1, <2>1 DEF OpenedFully
    <3>1. PICK m : Placed(m, entry - 1, opened, file)
      BY <1>1 DEF Pkcs12Inv, OpenedFully
    <3>2. ~Carries(e) /\ entry \in Nat /\ entry' - 1 = entry
      BY <1>1, <1>8, <2>1 DEF Carries
    <3>3. Placed(m, entry, opened, file)
      BY <3>1, <3>2 DEF Placed
    <3>. QED  BY <1>1, <2>1, <3>2, <3>3
  <2>. QED  BY <1>1, <2>2, <2>3 DEF Pkcs12Inv
<1>9. CASE e.kind = "encrypted"
  <2>1. PICK d \in Decrypted(e, password, e.contents) :
          IF d.kind = "Ok"
          THEN opened' = Append(opened, d.value) /\ entry' = entry + 1 /\ UNCHANGED <<step, answer>>
          ELSE Return(d)
    BY <1>9 DEF OpenEntry
  <2>2. d.kind = "Ok" => d.value \in SafeContents
    BY <1>3, DecryptedType DEF SafeContents
  <2>3. Sound(file, password) => d = [kind |-> "Ok", value |-> e.contents]
    BY <1>4, <1>9, DecryptedType
  <2>4. CASE d.kind = "Ok"
    BY <1>5, <1>9, <2>1, <2>2, <2>3, <2>4 DEF Carries
  <2>5. CASE d.kind # "Ok"
    <3>1. d.kind \in {"Other", "WrongPassword"} /\ d = [kind |-> d.kind, value |-> Absent]
      BY <2>5, DecryptedType
    <3>. QED  BY <1>6, <2>1, <2>3, <2>5, <3>1
  <2>. QED  BY <2>4, <2>5
<1>10. CASE e.kind = "empty"
  <2>1. Return([kind |-> "Other", value |-> Absent])
    BY <1>10 DEF OpenEntry
  <2>. QED  BY <1>4, <1>6, <1>10, <2>1
<1>. QED  BY <1>2, <1>7, <1>8, <1>9, <1>10 DEF ContentInfo

-----------------------------------------------------------------------------
(* The search of a sound file.                                             *)
FirstOf(bags) == IF want = "key" THEN FirstBag(bags, IsKey) ELSE FirstBag(bags, IsLeaf)
(* What the property asks for.                                             *)
WantedIn(f) == IF want = "key" THEN FirstIn(f, IsKey) ELSE FirstIn(f, IsLeaf)

(* Bags that all decrypt and parse.                                        *)
SoundBags(bags, pw) ==
  /\ bags \in Seq(SafeBag) /\ bags # Garbage
  /\ \A j \in DOMAIN bags :
       /\ bags[j].kind = "shrouded" => bags[j].supported /\ bags[j].password = pw
       /\ bags[j].kind = "x509" => bags[j].parses

(* The first bag that is wanted, and whether there is one.                 *)
LEMMA FirstOfBags ==
  ASSUME NEW bags \in Seq(SafeBag)
  PROVE  /\ FirstOf(bags) = 0 <=> HasNone(bags)
         /\ FirstOf(bags) # 0 => FirstOf(bags) \in DOMAIN bags /\ Wanted(bags[FirstOf(bags)])
<1>1. CASE want = "key"
  BY <1>1, FirstKey DEF FirstOf, HasNone, Wanted
<1>2. CASE want # "key"
  BY <1>2, FirstLeaf DEF FirstOf, HasNone, Wanted
<1>. QED  BY <1>1, <1>2

(* The entries of a sound file that carry anything have sound bags.        *)
LEMMA SoundEntry ==
  ASSUME NEW f \in Pfx, NEW pw, Sound(f, pw), NEW i \in DOMAIN f.entries, Carries(f.entries[i])
  PROVE  SoundBags(f.entries[i].contents, pw)
<1>1. f.entries[i] \in ContentInfo
  BY DEF Pfx
<1>2. f.entries[i].contents \in Seq(SafeBag) /\ f.entries[i].contents # Garbage
  BY <1>1 DEF Sound, ContentInfo, SafeContents
<1>. QED  BY <1>2 DEF Sound, SoundBags

(* The search of sound bags finds the first one wanted, or goes on.        *)
LEMMA FoundInSound ==
  ASSUME want \in {"key", "certificate"}, NEW bags, NEW pw, SoundBags(bags, pw)
  PROVE  Found(want, bags, pw) =
           IF FirstOf(bags) = 0 THEN {} ELSE {[kind |-> "Ok", value |-> bags[FirstOf(bags)].value]}
<1>1. CASE want = "key"
  <2>1. Found(want, bags, pw) = FoundKey(bags, pw)
    BY <1>1 DEF Found, SoundBags
  <2>2. CASE FirstOf(bags) # 0 /\ bags[FirstOf(bags)].kind = "shrouded"
    <3>1. FirstOf(bags) \in DOMAIN bags
      BY <2>2, FirstOfBags DEF SoundBags
    <3>2. FoundKey(bags, pw) = Decrypted(bags[FirstOf(bags)], pw, bags[FirstOf(bags)].value)
      BY <1>1, <2>2 DEF FoundKey, FirstOf
    <3>3. bags[FirstOf(bags)].supported /\ bags[FirstOf(bags)].password = pw
      BY <2>2, <3>1 DEF SoundBags
    <3>. QED  BY <2>1, <2>2, <3>2, <3>3 DEF Decrypted
  <2>. QED  BY <1>1, <2>1, <2>2 DEF FoundKey, FirstOf
<1>2. CASE want = "certificate"
  <2>1. FirstBag(bags, IsLeafOrBroken) = FirstOf(bags)
    BY <1>2, SameFirst DEF SoundBags, FirstOf
  <2>2. Found(want, bags, pw) = FoundLeaf(bags)
    BY <1>2 DEF Found, SoundBags
  <2>3. FirstOf(bags) # 0 => FirstOf(bags) \in DOMAIN bags /\ bags[FirstOf(bags)].kind = "x509"
    BY <1>2, FirstOfBags DEF SoundBags, Wanted, IsLeaf
  <2>. QED  BY <2>1, <2>2, <2>3 DEF FoundLeaf, SoundBags
<1>. QED  BY <1>1, <1>2

(* What an entry carries is at its place in what was opened.               *)
LEMMA PlacedAt ==
  ASSUME NEW m, NEW n, NEW contents, NEW f, Placed(m, n, contents, f), NEW i \in 1 .. n, Carries(f.entries[i])
  PROVE  \E l \in 1 .. Len(contents) : m[l] = i /\ contents[l] = f.entries[i].contents
<1>1. PICK l \in 1 .. Len(contents) : m[l] = i
  BY DEF Placed
<1>2. contents[l] = f.entries[m[l]].contents
  BY DEF Placed
<1>. QED  BY <1>1, <1>2

(* What is found first in what was opened is first in the file.            *)
LEMMA FirstOpened ==
  ASSUME NEW f \in Pfx, NEW pw, Sound(f, pw), NEW contents \in Seq(SafeContents), NEW m,
         Placed(m, Len(f.entries), contents, f), NEW k \in 1 .. Len(contents),
         \A l \in 1 .. k - 1 : HasNone(contents[l]), FirstOf(contents[k]) # 0
  PROVE  WantedIn(f) = {contents[k][FirstOf(contents[k])].value}
<1>. DEFINE holders == {i \in DOMAIN f.entries : Carries(f.entries[i]) /\ FirstOf(f.entries[i].contents) # 0}
<1>1. f.entries \in Seq(ContentInfo)
  BY DEF Pfx
<1>2. \A l \in 1 .. Len(contents) : /\ m[l] \in DOMAIN f.entries /\ Carries(f.entries[m[l]])
                                     /\ contents[l] = f.entries[m[l]].contents
  BY <1>1 DEF Placed
<1>3. m[k] \in holders
  BY <1>2
<1>4. \A i \in holders : m[k] <= i
  <2>. SUFFICES ASSUME NEW i \in holders PROVE m[k] <= i
    OBVIOUS
  <2>1. PICK l \in 1 .. Len(contents) : m[l] = i /\ contents[l] = f.entries[i].contents
    <3>1. i \in 1 .. Len(f.entries) /\ Carries(f.entries[i])
      BY <1>1
    <3>. QED  BY <3>1, PlacedAt
  <2>2. contents[l] \in Seq(SafeBag)
    BY <2>1, SoundEntry DEF SoundBags
  <2>3. ~HasNone(contents[l])
    BY <1>2, <2>1, <2>2, FirstOfBags
  <2>4. l >= k
    BY <2>3
  <2>. QED  BY <1>1, <2>1, <2>4, m[k] \in Nat, m[l] \in Nat DEF Placed
<1>5. holders \subseteq Nat
  BY <1>1
<1>6. Min(holders) = m[k]
  BY <1>3, <1>4, <1>5, LeastIs
<1>7. WantedIn(f) = IF holders = {} THEN {}
                    ELSE {f.entries[Min(holders)].contents[FirstOf(f.entries[Min(holders)].contents)].value}
  BY DEF WantedIn, FirstIn, FirstOf
<1>. QED  BY <1>2, <1>3, <1>6, <1>7

(* Where nothing wanted was opened there is nothing in the file.           *)
LEMMA NoneOpened ==
  ASSUME NEW f \in Pfx, NEW pw, Sound(f, pw), NEW contents \in Seq(SafeContents), NEW m,
         Placed(m, Len(f.entries), contents, f), \A l \in 1 .. Len(contents) : HasNone(contents[l])
  PROVE  WantedIn(f) = {}
<1>. DEFINE holders == {i \in DOMAIN f.entries : Carries(f.entries[i]) /\ FirstOf(f.entries[i].contents) # 0}
<1>1. f.entries \in Seq(ContentInfo)
  BY DEF Pfx
<1>2. ASSUME NEW i \in DOMAIN f.entries, Carries(f.entries[i]) PROVE FirstOf(f.entries[i].contents) = 0
  <2>1. PICK l \in 1 .. Len(contents) : m[l] = i /\ contents[l] = f.entries[i].contents
    <3>1. i \in 1 .. Len(f.entries) /\ Carries(f.entries[i])
      BY <1>1, <1>2
    <3>. QED  BY <3>1, PlacedAt
  <2>2. contents[l] \in Seq(SafeBag)
    BY <1>2, <2>1, SoundEntry DEF SoundBags
  <2>. QED  BY <2>1, <2>2, FirstOfBags
<1>3. holders = {}
  BY <1>2
<1>. QED  BY <1>3 DEF WantedIn, FirstIn, FirstOf

(* All entries were opened.                                                *)
LEMMA OpenedKeeps == Pkcs12Inv /\ Opened => Pkcs12Inv'
<1>. SUFFICES ASSUME Pkcs12Inv, Opened PROVE Pkcs12Inv'
  OBVIOUS
<1>1. /\ file \in Pfx /\ step = "decrypt" /\ step' = "search" /\ entry' = 1
      /\ UNCHANGED <<file, password, want, opened, answer>>
  BY DEF Pkcs12Inv, Opened, Pkcs12TypeOK
<1>2. file.entries \in Seq(ContentInfo) /\ opened \in Seq(SafeContents)
  BY <1>1 DEF Pkcs12Inv, Pkcs12TypeOK, Pfx
<1>3. entry = Len(file.entries) + 1
  BY <1>1, <1>2 DEF Pkcs12Inv, Opened, Pkcs12TypeOK
<1>4. Pkcs12TypeOK'
  BY <1>1, <1>2 DEF Pkcs12Inv, Pkcs12TypeOK
<1>5. Unlocked' /\ GarbageIsKey' /\ SoundFilesAreRead'
  BY <1>1 DEF Pkcs12Inv, Unlocked, GarbageIsKey, SoundFilesAreRead, Done
<1>6. Sound(file, password) => OpenedFully'
  BY <1>1, <1>2, <1>3 DEF Pkcs12Inv, OpenedFully
<1>. QED  BY <1>1, <1>4, <1>5, <1>6 DEF Pkcs12Inv

(* One more of the opened contents was searched.                           *)
LEMMA SearchKeeps == Pkcs12Inv /\ Search => Pkcs12Inv'
<1>. SUFFICES ASSUME Pkcs12Inv, Search PROVE Pkcs12Inv'
  OBVIOUS
<1>. DEFINE contents == opened[entry]
<1>1. /\ file \in Pfx /\ step = "search" /\ password \in Password /\ want \in {"key", "certificate"}
      /\ opened \in Seq(SafeContents) /\ entry \in 1 .. Len(opened)
      /\ UNCHANGED <<file, password, want>>
  BY DEF Pkcs12Inv, Search, Pkcs12TypeOK
<1>2. contents \in SafeContents
  BY <1>1
<1>3. \/ Found(want, contents, password) = {} /\ entry' = entry + 1 /\ UNCHANGED <<opened, step, answer>>
      \/ \E a \in Found(want, contents, password) : Return(a)
  BY DEF Search
<1>4. CASE Found(want, contents, password) = {} /\ entry' = entry + 1 /\ UNCHANGED <<opened, step, answer>>
  <2>1. Pkcs12TypeOK' /\ Unlocked' /\ GarbageIsKey' /\ SoundFilesAreRead'
    BY <1>1, <1>4 DEF Pkcs12Inv, Pkcs12TypeOK, Unlocked, GarbageIsKey, SoundFilesAreRead, Done
  <2>2. HasNone(contents)
    BY <1>1, <1>2, <1>4, FoundType
  <2>3. Sound(file, password) => OpenedFully'
    BY <1>1, <1>4, <2>2 DEF Pkcs12Inv, OpenedFully, HasNone, Wanted
  <2>. QED  BY <1>1, <2>1, <2>3 DEF Pkcs12Inv
<1>5. ASSUME NEW a \in Found(want, contents, password), Return(a) PROVE Pkcs12Inv'
  <2>2. a \in Answer /\ (a.kind # "Ok" => a.value = Absent) /\ (a.value = Garbage => want = "key")
    BY <1>1, <1>2, FoundType
  <2>3. Sound(file, password) => \E value \in WantedIn(file) : a = [kind |-> "Ok", value |-> value]
    <3>. SUFFICES ASSUME Sound(file, password)
                  PROVE  \E value \in WantedIn(file) : a = [kind |-> "Ok", value |-> value]
      OBVIOUS
    <3>1. PICK m : Placed(m, Len(file.entries), opened, file)
      BY <1>1 DEF Pkcs12Inv, OpenedFully
    <3>2. \A l \in 1 .. entry - 1 : HasNone(opened[l])
      BY <1>1 DEF Pkcs12Inv, OpenedFully
    <3>3. m[entry] \in DOMAIN file.entries /\ Carries(file.entries[m[entry]])
          /\ contents = file.entries[m[entry]].contents
      <4>1. file.entries \in Seq(ContentInfo)
        BY <1>1 DEF Pfx
      <4>. QED  BY <1>1, <3>1, <4>1 DEF Placed
    <3>4. SoundBags(contents, password)
      BY <1>1, <3>3, SoundEntry
    <3>5. FirstOf(contents) # 0 /\ a = [kind |-> "Ok", value |-> contents[FirstOf(contents)].value]
      BY <1>1, <3>4, FoundInSound
    <3>6. WantedIn(file) = {contents[FirstOf(contents)].value}
      BY <1>1, <3>1, <3>2, <3>5, FirstOpened
    <3>. QED  BY <3>5, <3>6
  <2>4. SoundFilesAreRead'
    BY <1>1, <1>5, <2>3 DEF SoundFilesAreRead, Return, WantedIn
  <2>. QED  BY <1>1, <1>5, <2>2, <2>4, Returns
<1>. QED  BY <1>3, <1>4, <1>5

(* All were searched, and nothing was found.                               *)
LEMMA GiveUpKeeps == Pkcs12Inv /\ GiveUp => Pkcs12Inv'
<1>. SUFFICES ASSUME Pkcs12Inv, GiveUp PROVE Pkcs12Inv'
  OBVIOUS
<1>1. /\ file \in Pfx /\ step = "search" /\ password \in Password /\ want \in {"key", "certificate"}
      /\ opened \in Seq(SafeContents) /\ entry = Len(opened) + 1
      /\ UNCHANGED <<file, password, want>> /\ Return(NothingFound(want))
  BY DEF Pkcs12Inv, GiveUp, Pkcs12TypeOK
<1>2. /\ NothingFound(want) \in Answer /\ NothingFound(want).kind # "Ok"
      /\ NothingFound(want).value = Absent
  BY DEF NothingFound, Answer, AnswerKinds
<1>3. Sound(file, password) => WantedIn(file) = {}
  <2>. SUFFICES ASSUME Sound(file, password) PROVE WantedIn(file) = {}
    OBVIOUS
  <2>1. PICK m : Placed(m, Len(file.entries), opened, file)
    BY <1>1 DEF Pkcs12Inv, OpenedFully
  <2>2. \A l \in 1 .. Len(opened) : HasNone(opened[l])
    BY <1>1 DEF Pkcs12Inv, OpenedFully
  <2>. QED  BY <1>1, <2>1, <2>2, NoneOpened
<1>4. SoundFilesAreRead'
  BY <1>1, <1>3 DEF SoundFilesAreRead, Return, WantedIn
<1>. QED  BY <1>1, <1>2, <1>4, Returns, Pkcs12Assumption

(* Every step of an extraction keeps the invariant.                        *)
LEMMA Pkcs12Steps == Pkcs12Inv /\ Pkcs12Step => Pkcs12Inv'
BY OpenKeeps, OpenEntryKeeps, OpenedKeeps, SearchKeeps, GiveUpKeeps DEF Pkcs12Step

-----------------------------------------------------------------------------
(* What the invariant says of the answer.                                  *)
LEMMA WrongPasswordTold == Pkcs12Inv => WrongPasswordIsTold
<1>. SUFFICES ASSUME Pkcs12Inv, Done, NEW pw \in Password, Sound(file, pw), file.mac # Absent,
                     ~MacVerifies(file.mac, password)
              PROVE  answer.kind = "WrongPassword"
  BY DEF WrongPasswordIsTold
<1>1. file \in Pfx \union {NoPfx} /\ password \in Password
  BY DEF Pkcs12Inv, Pkcs12TypeOK, Done
<1>2. Opens(file, password) = "WrongPassword"
  BY <1>1, OpensTells
<1>. QED  BY <1>2 DEF Pkcs12Inv, Unlocked, Done

(* What is found is one of the values that were put in.                    *)
LEMMA WantedValue ==
  ASSUME NEW f \in Pfx, NEW pw, Sound(f, pw), NEW value \in WantedIn(f)
  PROVE  value \in Value
<1>. DEFINE holders == {i \in DOMAIN f.entries : Carries(f.entries[i]) /\ FirstOf(f.entries[i].contents) # 0}
            bags == f.entries[Min(holders)].contents
<1>1. holders # {} /\ value = bags[FirstOf(bags)].value
  BY DEF WantedIn, FirstIn, FirstOf
<1>2. holders \subseteq Nat
  BY DEF Pfx
<1>3. Min(holders) \in holders
  BY <1>1, <1>2, LeastExists
<1>4. bags \in Seq(SafeBag) /\ FirstOf(bags) # 0
  <2>1. \A i \in holders : f.entries[i].contents \in Seq(SafeBag) /\ FirstOf(f.entries[i].contents) # 0
    BY SoundEntry DEF SoundBags
  <2>. HIDE DEF holders
  <2>. QED  BY <1>3, <2>1
<1>5. bags[FirstOf(bags)] \in SafeBag
  BY <1>4, FirstOfBags
<1>. QED  BY <1>1, <1>5 DEF SafeBag

LEMMA GarbageExplained == Pkcs12Inv => GarbageOnlyWithoutMac
<1>. SUFFICES ASSUME Pkcs12Inv, Done, answer.value = Garbage
              PROVE  want = "key" /\ (file.mac # Absent => \A pw \in Password : ~Sound(file, pw))
  BY DEF GarbageOnlyWithoutMac
<1>1. file \in Pfx \union {NoPfx} /\ password \in Password
  BY DEF Pkcs12Inv, Pkcs12TypeOK, Done
<1>2. want = "key"
  BY DEF Pkcs12Inv, GarbageIsKey
<1>3. Opens(file, password) = "Ok" /\ file \in Pfx
  BY <1>1, OpensTells, Pkcs12Assumption DEF Pkcs12Inv, Unlocked, Done
<1>4. ~Sound(file, password)
  <2>. SUFFICES ASSUME Sound(file, password) PROVE FALSE
    OBVIOUS
  <2>1. PICK value \in FirstIn(file, IsKey) : answer = [kind |-> "Ok", value |-> value]
    BY <1>2, Pkcs12Assumption DEF Pkcs12Inv, SoundFilesAreRead, NothingFound
  <2>2. value \in Value
    BY <1>2, <1>3, WantedValue DEF WantedIn
  <2>. QED  BY <2>1, <2>2, Pkcs12Assumption
<1>. QED  BY <1>1, <1>2, <1>3, <1>4, OnePassword

=============================================================================
