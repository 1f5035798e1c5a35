-------------------------------- MODULE Tools --------------------------------
(***************************************************************************)
(* The programs around the library at work on the same files, one command  *)
(* after the other: modify-cms, smime, and the extraction of keys and      *)
(* certificates by the web page (src/lib.rs).  What one writes the next    *)
(* may read.                                                               *)
(***************************************************************************)
EXTENDS ModifyCms, CommandLine

CONSTANTS
  Sessions    \* by name, what may be done: [length, files, servers, modify, smime, web]

(* The web page's call of extract_certificate_from_p12 or                  *)
(* extract_private_key_from_p12.                                           *)
WebCall == [p12 : Path, password : Password \union {None}, what : {"key", "certificate"}]

ASSUME SessionsAssumption ==
  \A name \in DOMAIN Sessions :
    LET s == Sessions[name] IN
    /\ s.length \in Nat
    /\ \A files \in s.files : DOMAIN files = Path
    /\ s.servers \subseteq [Url -> {"error"} \union Sent]
    /\ s.modify \subseteq ModifyCall /\ s.smime \subseteq SmimeCall /\ s.web \subseteq WebCall

VARIABLES
  session,
  asked,      \* the web page's call, [p12, password, what]; None if that is not the last command
  commands    \* how many were begun

vars == <<session, disk, modifyVars, callVars, p12Vars, asked, commands>>

Init ==
  /\ session \in DOMAIN Sessions
  /\ disk \in Sessions[session].files
  /\ ModifyInit /\ CommandInit /\ Pkcs12Init
  /\ asked = None /\ commands = 0

(* No command is at work.  What the last one left behind is forgotten when *)
(* another may change the files it is about.                               *)
Quiet ==
  /\ stage \in {"idle", "ok", "failed"} /\ phase \in {"idle", "exited"} /\ step \in {"idle", "done"}

Begin == Quiet /\ commands < Sessions[session].length /\ commands' = commands + 1 /\ UNCHANGED session

BeginModifyCms ==
  /\ Begin
  /\ \E j \in Sessions[session].modify, answers \in Sessions[session].servers : StartModifyCms(j, answers)
  /\ phase' = "idle"
  /\ UNCHANGED <<disk, call, trust, eml, keys, result, exit, p12Vars, asked>>

BeginSmime ==
  /\ Begin
  /\ \E c \in Sessions[session].smime : StartSmime(c)
  /\ asked' = None /\ stage' = "idle"
  /\ UNCHANGED <<disk, job, mail, servers, work, head, subject, todo, fetched, p12Vars>>

(* extract_certificate_from_p12 and extract_private_key_from_p12 for the   *)
(* web: no password is the empty one.                                      *)
BeginWeb ==
  /\ Begin
  /\ \E w \in Sessions[session].web :
       /\ asked' = w
       /\ Extract(disk[w.p12], IF w.password = None THEN Empty ELSE w.password, w.what)
  /\ UNCHANGED <<disk, modifyVars, callVars>>

Modifying == ModifyStep /\ UNCHANGED <<callVars, p12Vars, asked, commands, session>>
Running == CommandStep /\ UNCHANGED <<modifyVars, asked, commands, session>>
Extracting ==
  /\ phase # "p12" /\ Pkcs12Step
  /\ UNCHANGED <<disk, modifyVars, callVars, asked, commands, session>>

Work == Modifying \/ Running \/ Extracting

(* The session is over; a command that cannot go on would be a deadlock.   *)
Over == Quiet /\ commands = Sessions[session].length /\ UNCHANGED vars

Next == BeginModifyCms \/ BeginSmime \/ BeginWeb \/ Work \/ Over

Spec == Init /\ [][Next]_vars

(* Mutant: the web page asks for a password whenever one is wrong.         *)
AlwaysRequired(kind, given) ==
  IF kind = "WrongPassword" THEN "Pkcs12PasswordRequired" ELSE kind

(* p12_error_to_js: who has not given a password is asked for one.         *)
WebAnswer(kind, given) ==
  IF kind # "WrongPassword" THEN kind
  ELSE IF given = None THEN "Pkcs12PasswordRequired" ELSE "Pkcs12WrongPassword"

-----------------------------------------------------------------------------
(* Properties                                                              *)

TypeOK ==
  /\ session \in DOMAIN Sessions /\ DOMAIN disk = Path
  /\ commands \in 0 .. Sessions[session].length
  /\ ModifyTypeOK /\ CommandTypeOK /\ Pkcs12TypeOK

Trusts == [stores : {{}, {"Builtin"}, {"Debug"}}, ca_file_pem : {None}]

(* A message to which modify-cms adds what is missing verifies afterwards, *)
(* for whoever would accept it if all of its certificates were known: the  *)
(* headers verification needs are kept, the version fits, and what was     *)
(* written reads as what was modified.                                     *)
ModifiedVerifies ==
  Modified /\ job.output \notin SourcesOf(job) /\ head.encoding = "base64" /\ "OcspRevoked" \notin ToSet(ModifiedCms.crls) =>
    LET completed == [OriginalCms EXCEPT !.certs = @ \o AddedCertificates]
        from == FirstPart(mail, IsPkcs7Mime).header.from
    IN \A t \in Trusts :
         SignedWell(completed, from, completed.payload, t) =>
           Verify(Lossy(disk[job.output]), t) =
             [failures |-> FALSE, signed_content |-> completed.payload]

(* Conversion to DER leaves every verdict as it is, unless it changes what *)
(* a signature next to it is for.                                          *)
RewrittenVerifiesAlike ==
  LET converted == {i \in Heads(mail) : IsPkcs7(mail[i].of)} IN
  /\ Rewritten
  /\ \A i \in converted : mail[i].of.encoding = "base64"
  /\ RootOf(mail).kind = "multipart/signed" => \A i, j \in converted : i = j
  => \A t \in Trusts : Verify(Lossy(disk[job.output]), t) = Verify(Lossy(mail), t)

(* Who has a password for a sound file and gives none is asked for it, who *)
(* gives a wrong one is told that it is wrong, and who gives the right one *)
(* is told neither.                                                        *)
WebPagesAskForPasswords ==
  asked # None /\ step = "done" =>
    LET told == WebAnswer(answer.kind, asked.password) IN
    /\ told = "Pkcs12PasswordRequired" => asked.password = None /\ ~Sound(file, Empty)
    /\ told = "Pkcs12WrongPassword" => asked.password # None /\ ~Sound(file, asked.password)
    /\ \A pw \in Password :
         Sound(file, pw) /\ file.mac # Absent => MacVerifies(file.mac, password) \/
             told = IF asked.password = None THEN "Pkcs12PasswordRequired" ELSE "Pkcs12WrongPassword"

(* What modify makes of a message is complete, conformant and verifies.    *)
ModificationIsSound == ModifiedStaysConformant /\ ModifiedIsComplete /\ ModifiedVerifies

(* What ber-to-der makes of a mail differs only in encoding.               *)
RewritingIsSound == RewrittenInPlace /\ RewrittenVerifiesAlike

(* PKCS#12 files give what is in them to those who have the password, and  *)
(* the others learn that it is the password that is wrong.                 *)
ExtractionIsRight ==
  SoundFilesAreRead /\ WrongPasswordIsTold /\ GarbageOnlyWithoutMac /\ WebPagesAskForPasswords

(* How far a command has to go, and how much is left of the loop it is in. *)
PhaseRank == [output |-> 1, run |-> 2, cert |-> 3, p12 |-> 4, key |-> 5, eml |-> 6, trust |-> 7]
StepRank == [search |-> 1, decrypt |-> 2, open |-> 3]
StageRank == [write |-> 1, rewrite |-> 1, ocsp |-> 2, crl |-> 3, certs |-> 4, parse |-> 5]
Rank(ranks, name) == IF name \in DOMAIN ranks THEN ranks[name] ELSE 0

Ahead == 4 * Rank(PhaseRank, phase) + Rank(StepRank, step) + Rank(StageRank, stage)
Left ==
  Len(todo) + (IF step = "decrypt" THEN Len(file.entries) + 1 - entry
               ELSE IF step = "search" THEN Len(opened) + 1 - entry ELSE 0)

(* Every command comes to an end, whatever the files are and whatever the  *)
(* servers answer: each step that does not begin one brings its end        *)
(* nearer, and no command at work is ever stuck (the deadlock check).      *)
CommandsAdvance ==
  [][commands' = commands => Ahead' < Ahead \/ (Ahead' = Ahead /\ Left' < Left)]_vars

=============================================================================
