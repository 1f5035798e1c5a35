-------------------------------- MODULE Pkcs12 --------------------------------
(***************************************************************************)
(* Reading a key or an end-entity certificate out of a PKCS#12 file        *)
(* (src/pkcs12_utils.rs).  The file is opened as a whole before anything   *)
(* is looked for: the MAC is verified, and every encrypted entry of the    *)
(* AuthenticatedSafe is decrypted.                                         *)
(*                                                                         *)
(* Abstractions.  What is encrypted names the password it was encrypted    *)
(* with, None if it was damaged since.  CBC with another password ends in  *)
(* wrong padding as a rule, but one time in 256 or so in Garbage; that is  *)
(* a choice.  Garbage is not taken for the DER of anything.                *)
(***************************************************************************)
EXTENDS Integers, SequencesExt

CONSTANTS
  Absent,           \* Option::None
  Garbage,          \* what a wrong key makes of a ciphertext; no DER
  Password,         \* what a user may type
  Empty,            \* the empty password
  NullPassword,     \* no password at all, in the MAC of a file
  Value,            \* what bags hold: keys and certificates
  MaxIterations     \* of the MAC: 100,000,000

ASSUME Pkcs12Assumption ==
  /\ Empty \in Password /\ NullPassword \notin Password
  /\ Absent \notin Value \union {Garbage} /\ Garbage \notin Value
  /\ MaxIterations \in Nat

VARIABLES
  file,       \* the PKCS#12 file
  password,
  want,       \* "key" | "certificate"
  opened,     \* all_contents: the SafeContents that could be read
  entry,      \* which entry is the next to be opened, or to be searched
  step,       \* "idle" | "open" | "decrypt" | "search" | "done"
  answer      \* [kind, value] of the Result

p12Vars == <<file, password, want, opened, entry, step, answer>>

(* P12Error, and Ok.                                                       *)
AnswerKinds == {"Ok", "WrongPassword", "NoLeafCertificate", "NoPrivateKey", "Other"}
Answer == [kind : AnswerKinds, value : Value \union {Absent, Garbage}]
NoAnswer == [kind |-> "Other", value |-> Absent]

-----------------------------------------------------------------------------
(* One file.                                                               *)

SafeBag ==
  [kind : {"key", "shrouded", "x509", "other"}, supported : BOOLEAN, password : Password \union {Absent},
   value : Value, parses : BOOLEAN, ca : BOOLEAN]
SafeContents == Seq(SafeBag) \union {Garbage}
ContentInfo ==
  [kind : {"data", "encrypted", "empty", "other"}, supported : BOOLEAN, password : Password \union {Absent},
   contents : SafeContents]
MacData ==
  [saltLength : Nat, iterations : Nat, digest : {"supported", "other"}, password : Password \union {NullPassword}]

NoPfx == [decodes |-> FALSE]
Pfx ==
  [decodes : {TRUE}, version : Nat, authSafe : {"data", "signed"}, mac : MacData \union {Absent},
   entriesDecode : BOOLEAN, entries : Seq(ContentInfo)]

(* What else may be in a file does not decode.                             *)
PfxIn(content) == IF content \in Pfx THEN content ELSE NoPfx

(* verify_pfx_mac.  The parameters are judged before the password.         *)
MacParametersOk(mac) ==
  /\ mac.saltLength >= 8
  /\ mac.iterations \in 1 .. MaxIterations
  /\ mac.digest = "supported"

(* Mutant: the empty password has one encoding.                            *)
MacVerifiesOnce(mac, pw) == mac.password = pw

MacVerifies(mac, pw) ==
  \/ mac.password = pw
  \/ mac.password = NullPassword /\ pw = Empty

(* Mutant: the entries are opened whatever the MAC says.                   *)
OpensUnverified(f, pw) ==
  IF ~f.decodes \/ f.version # 3 \/ f.authSafe # "data" \/ ~f.entriesDecode THEN "Other" ELSE "Ok"

(* open_safe_contents up to the entries; "Ok" goes on with them.           *)
Opens(f, pw) ==
  IF ~f.decodes \/ f.version # 3 \/ f.authSafe # "data" THEN "Other"
  ELSE IF f.mac # Absent /\ ~MacParametersOk(f.mac) THEN "Other"
  ELSE IF f.mac # Absent /\ ~MacVerifies(f.mac, pw) THEN "WrongPassword"
  ELSE IF ~f.entriesDecode THEN "Other"
  ELSE "Ok"

(* pbes2_decrypt: what may come of decrypting e, whose plaintext is given. *)
Decrypted(e, pw, plaintext) ==
  IF ~e.supported THEN {[kind |-> "Other", value |-> Absent]}
  ELSE IF e.password = pw THEN {[kind |-> "Ok", value |-> plaintext]}
  ELSE {[kind |-> "WrongPassword", value |-> Absent], [kind |-> "Ok", value |-> Garbage]}

(* The first of the bags that ends the search; 0 if none does.             *)
FirstBag(bags, Ends(_)) ==
  LET ending == {i \in DOMAIN bags : Ends(bags[i])} IN
  IF ending = {} THEN 0 ELSE Min(ending)

IsKey(bag) == bag.kind \in {"key", "shrouded"}

IsLeaf(bag) == bag.kind = "x509" /\ ~bag.ca

(* A certificate that cannot be read ends the search as well.              *)
IsLeafOrBroken(bag) == bag.kind = "x509" /\ (~bag.parses \/ ~bag.ca)

(* find_key_in_safe_contents, and the loop body of                         *)
(* extract_leaf_certificate_from_p12: what may come of searching the       *)
(* contents, nothing when the search is to go on.                          *)
FoundKey(bags, pw) ==
  LET i == FirstBag(bags, IsKey) IN
  IF i = 0 THEN {}
  ELSE IF bags[i].kind = "shrouded" THEN Decrypted(bags[i], pw, bags[i].value)
  ELSE {[kind |-> "Ok", value |-> bags[i].value]}

FoundLeaf(bags) ==
  LET i == FirstBag(bags, IsLeafOrBroken) IN
  IF i = 0 THEN {}
  ELSE IF ~bags[i].parses THEN {[kind |-> "Other", value |-> Absent]}
  ELSE {[kind |-> "Ok", value |-> bags[i].value]}

Found(what, contents, pw) ==
  IF contents = Garbage THEN {[kind |-> "Other", value |-> Absent]}
  ELSE IF what = "key" THEN FoundKey(contents, pw) ELSE FoundLeaf(contents)

NothingFound(what) ==
  [kind |-> IF what = "key" THEN "NoPrivateKey" ELSE "NoLeafCertificate", value |-> Absent]

-----------------------------------------------------------------------------
Pkcs12Init ==
  /\ file = Absent /\ password = Empty /\ want = "key"
  /\ opened = <<>> /\ entry = 0 /\ step = "idle" /\ answer = NoAnswer

(* A call of extract_private_key_from_p12 or of                            *)
(* extract_leaf_certificate_from_p12.                                      *)
Extract(content, pw, what) ==
  /\ file' = PfxIn(content) /\ password' = pw /\ want' = what
  /\ opened' = <<>> /\ entry' = 0 /\ step' = "open" /\ answer' = NoAnswer

Return(a) == step' = "done" /\ answer' = a /\ UNCHANGED <<opened, entry>>

Open ==
  /\ step = "open"
  /\ IF Opens(file, password) = "Ok"
     THEN step' = "decrypt" /\ entry' = 1 /\ UNCHANGED <<opened, answer>>
     ELSE Return([kind |-> Opens(file, password), value |-> Absent])
  /\ UNCHANGED <<file, password, want>>

(* The next entry of the AuthenticatedSafe; those of other kinds, and data *)
(* without content, are passed over.                                       *)
OpenEntry ==
  /\ step = "decrypt" /\ entry <= Len(file.entries)
  /\ LET e == file.entries[entry] IN
     \/ /\ e.kind = "data"
        /\ opened' = Append(opened, e.contents) /\ entry' = entry + 1
        /\ UNCHANGED <<step, answer>>
     \/ /\ e.kind = "other"
        /\ entry' = entry + 1
        /\ UNCHANGED <<opened, step, answer>>
     \/ /\ e.kind = "encrypted"
        /\ \E d \in Decrypted(e, password, e.contents) :
             IF d.kind = "Ok"
             THEN /\ opened' = Append(opened, d.value) /\ entry' = entry + 1
                  /\ UNCHANGED <<step, answer>>
             ELSE Return(d)
     \/ /\ e.kind = "empty"    \* EncryptedData without content
        /\ Return([kind |-> "Other", value |-> Absent])
  /\ UNCHANGED <<file, password, want>>

Opened ==
  /\ step = "decrypt" /\ entry > Len(file.entries)
  /\ step' = "search" /\ entry' = 1
  /\ UNCHANGED <<file, password, want, opened, answer>>

(* Mutant: the search is over with the first entry.                        *)
SearchFirstOnly ==
  /\ step = "search" /\ entry <= Len(opened)
  /\ LET found == Found(want, opened[entry], password) IN
     \E a \in IF found = {} THEN {NothingFound(want)} ELSE found : Return(a)
  /\ UNCHANGED <<file, password, want>>

Search ==
  /\ step = "search" /\ entry <= Len(opened)
  /\ LET found == Found(want, opened[entry], password) IN
     \/ found = {} /\ entry' = entry + 1 /\ UNCHANGED <<opened, step, answer>>
     \/ \E a \in found : Return(a)
  /\ UNCHANGED <<file, password, want>>

GiveUp ==
  /\ step = "search" /\ entry > Len(opened)
  /\ Return(NothingFound(want))
  /\ UNCHANGED <<file, password, want>>

Pkcs12Step == Open \/ OpenEntry \/ Opened \/ Search \/ GiveUp

-----------------------------------------------------------------------------
(* Properties                                                              *)

Pkcs12TypeOK ==
  /\ want \in {"key", "certificate"} /\ password \in Password
  /\ step \in {"idle", "open", "decrypt", "search", "done"}
  /\ step # "idle" => file \in Pfx \union {NoPfx}
  /\ step \in {"decrypt", "search"} => file \in Pfx
  /\ opened \in Seq(SafeContents)
  /\ step = "decrypt" => entry \in 1 .. Len(file.entries) + 1
  /\ step = "search" => entry \in 1 .. Len(opened) + 1
  /\ answer \in Answer
  /\ answer.kind # "Ok" => answer.value = Absent

Carries(e) == e.kind \in {"data", "encrypted"}

(* What the first of the bags in f that Has holds, if there is one.        *)
FirstIn(f, Has(_)) ==
  LET holders == {i \in DOMAIN f.entries : Carries(f.entries[i]) /\ FirstBag(f.entries[i].contents, Has) # 0}
      bags == f.entries[Min(holders)].contents
  IN IF holders = {} THEN {} ELSE {bags[FirstBag(bags, Has)].value}

(* Everything in f is protected by pw, and nothing of f is unsupported or  *)
(* broken; it may be without a MAC.                                        *)
Sound(f, pw) ==
  /\ f.decodes /\ f.version = 3 /\ f.authSafe = "data" /\ f.entriesDecode
  /\ f.mac # Absent => MacParametersOk(f.mac) /\ f.mac.password \in {pw} \union (IF pw = Empty THEN {NullPassword} ELSE {})
  /\ \A i \in DOMAIN f.entries :
       LET e == f.entries[i] IN
       /\ e.kind # "empty"
       /\ e.kind = "encrypted" => e.supported /\ e.password = pw
       /\ Carries(e) =>
            /\ e.contents # Garbage
            /\ \A j \in DOMAIN e.contents :
                 /\ e.contents[j].kind = "shrouded" => e.contents[j].supported /\ e.contents[j].password = pw
                 /\ e.contents[j].kind = "x509" => e.contents[j].parses

Done == step = "done"

(* With its password a sound file gives what is in it: the first key, or   *)
(* the first certificate that is not of a CA, in whichever entry it is and *)
(* whatever comes before it.                                               *)
SoundFilesAreRead ==
  Done /\ Sound(file, password) =>
    LET wanted == IF want = "key" THEN FirstIn(file, IsKey) ELSE FirstIn(file, IsLeaf)
    IN IF wanted = {} THEN answer = NothingFound(want)
       ELSE \E value \in wanted : answer = [kind |-> "Ok", value |-> value]

(* P12Error is "classified so callers can distinguish bad credentials      *)
(* from unsupported or malformed input": a wrong password is reported as   *)
(* such if there is a MAC, and never yields anything.                      *)
WrongPasswordIsTold ==
  Done =>
    \A pw \in Password :
      Sound(file, pw) /\ file.mac # Absent =>
        MacVerifies(file.mac, password) \/ answer.kind = "WrongPassword"

(* Garbage is handed out as a key only by a file whose MAC, if it has one, *)
(* was made with another password than its key was encrypted with.         *)
GarbageOnlyWithoutMac ==
  Done /\ answer.value = Garbage =>
    /\ want = "key"
    /\ file.mac # Absent => \A pw \in Password : ~Sound(file, pw)

=============================================================================
