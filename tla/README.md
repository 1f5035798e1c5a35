# TLA+ models of rust-smime

This directory holds a formal model of rust-smime: what happens between an
e-mail that comes in and the `SmimeValidationResult` that goes out, the search
for keys and revocation statuses on the way, the encryption of messages, the
rewriting of BER as DER that comes before everything else, and the tools that
read and write the files.
Modules are translated from the Rust source, checked with TLC on small
instances, and proved about with TLAPS where a theorem for every instance says
more than the run.

Paths below are relative to the repository root (`PROJECT.json` writes them with
a leading `src/`, so `src/lib.rs` here is `src/src/lib.rs` there).

## 1. The system

The library is synchronous: every entry point runs to completion on the caller's
thread and keeps its state in local variables and in one result record that is
threaded through by `&mut`. What makes it hard is not interleaving but the
number of nested loops over lists that the sender of a message controls, left by
`continue`, `break` and `return`, each adding to a shared list of failures: what
one iteration forgets, overwrites or leaves behind decides what the next one
says. Only the validation proxy waits for others: it serves requests
concurrently, over a network and with a clock that may be set, though its
handlers share nothing but a pool of connections. The tools leave files behind
that the next command reads, which is the other way in which one step decides
what a later one says.

| Component | State | Operations | Interacts with | What makes it correct |
|---|---|---|---|---|
| SignedData verification (`src/lib.rs`, `src/cms_utils.rs`) | `SmimeValidationResult` (failures, signers, content, sender, date), `SenderResolver`, the signer and candidate being looked at | `prepare_signed_data_verification`, per signer `prepare_signer`, per candidate `verify_candidate` and `validate_chain`, then `resolve_sender` | called by the two entry points; calls stapled OCSP | no failures means every signer is listed and valid and everything conforms; no signer decides another's verdict; the sender shown does not depend on the order of signers; repaired content is reported |
| Decrypt-and-verify loop (`src/decrypt_verify.rs`) | current layer, depth, accumulated signers, outermost header, outer encryption info | one layer's dispatch, unwrap, finalise, give up at `MAX_DECRYPT_DEPTH` | calls decryption and verification for each layer | content handed out is unwrapped; the bound is exact; no layer's signers are lost; no address appears from nowhere; agrees with verify-only |
| Stapled OCSP (`src/ocsp.rs`, `apply_stapled_ocsp` in `src/lib.rs`) | position in chain, position in staples, best status so far | match a staple, verify its signer, remember or return a status | called by `validate_chain` | a status comes only from who may speak for the issuer and while it is current; a revocation wins wherever it comes |
| Content-encryption key recovery (`src/decrypt.rs`) | position in recipient infos, last error, warnings | skip, fail, open, decrypt | called by the layer functions | one's own recipient info suffices; plaintext only for who has a key; warnings are complete |
| Encryption (`src/encrypt.rs`) | recipient infos built so far | add or refuse a recipient, seal | its output is what key recovery reads | every recipient can read it without a failure, or it is refused |
| Validation proxy (`src/validation-proxy/main.rs`) | none between requests; of a request, the URL it is at and the body it got | `check_ocsp`, `check_crl`: check the request, fetch with a timeout, fail over, verify, answer | OCSP and CRL servers | an answer is what the issuer signed about this certificate, in force when it is given; every request is answered |
| BER to DER (`src/utils.rs`) | the calls of the recursive descent, the position in the input, the children collected so far | read a header, enter an element, return from it, sort the implicitly tagged sets of a SignedData | first step of every CMS parse, and of `modify-cms ber-to-der` | every writing of a value ends as its one DER encoding, twice is as good as once; what is refused is broken or too deep; nothing is read out of bounds, and it ends |
| PKCS#12 (`src/pkcs12_utils.rs`) | the entries opened, the one that is next | MAC check, open all safe contents, search for a key or a leaf certificate | called by the command line and the web bindings | what a sound file holds is found; a wrong password is named as such; garbage is no key |
| Message modifier (`src/modify_cms.rs`) | arguments, mail, the SignedData with what was added so far, URLs not asked yet; for `ber-to-der` the text with the parts rewritten so far | parse, add certificates, read or fetch a CRL and an OCSP response, write; rewrite parts in place | files, HTTP servers; its output is the verifier's input | what it writes has the version it should, all it had and what was added, and verifies; rewriting touches nothing else |
| Command line (`src/main.rs`) | arguments, trust, keys, result | resolve trust, read mail and keys, verify or decrypt, write the content, exit | the two entry points, PKCS#12, files | exit code 0 vouches for what is given out, 2 has a cause; who has the key gets the content |
| Fixture generator, error texts, locales, trust anchors, WASM bindings, demo | none of their own | | | |

Hazards, each at its line, are listed in `PROJECT.json` with the properties that
would catch them.

## 2. Modules

| Module | Models | Role |
|---|---|---|
| `SenderDisplay` | the promise in the comment on `SenderResolver` | abstract specification |
| `SignedDataVerify` | `verify_signed_data` and all it calls in `lib.rs` | implements `SenderDisplay` |
| `LayerUnwrap` | `decrypt_and_verify_smime_from_eml_detailed` and one layer | component |
| `OcspResponse` | `verify_ocsp_signature`, `cert_id_matches`, `single_response_fresh` | operators the next two share |
| `StapledOcsp` | `stapled_status_for`, `apply_stapled_ocsp` | component |
| `ValidationProxy` | `check_ocsp`, `check_crl` and what they call | component |
| `ContentDecryption` | `recover_cek`, the `decrypt_*_cek` functions, opening of content, versions of envelopes | component |
| `Encryption` | `encrypt` and the builders of recipient infos | component |
| `RoundTrip` | `Encryption` and `ContentDecryption` with a message in between | composition |
| `BerToDer` | `ber_to_der_cms` and all it calls in `utils.rs` | component |
| `BerEncodings` | somebody who writes a value in BER, and two conversions | environment of `BerToDer` |
| `CmsVersion` | `validate_signed_data_version` | an operator that `SignedDataVerify` and `MailFiles` share |
| `MailFiles` | files, and mail as tokens with offsets | data of the tools |
| `ModifyCms` | `run_modify` and `run_ber_to_der` | component |
| `Pkcs12` | `open_safe_contents`, the two `extract_*` functions | component |
| `CommandLine` | `smime verify` and `smime decrypt`, over `Pkcs12` | component |
| `Tools` | `ModifyCms`, `CommandLine` and the web extraction on the same files | composition |
| `MC*` | constants for TLC | |
| `*_proofs` | theorems | |

### SignedDataVerify

One behaviour is one call. `msg` is the parsed message: its signerInfos, their
attributes, headers inside and outside, and whether the trust store loads, the
inner message parses and a policy can be built. The steps are `RejectContent`,
`RejectTrustStore` and `Prepare` (the early returns and the normal end of
`prepare_signed_data_verification`), then for each signer `PrepareSigner`
(`prepare_signer`: either a `continue` with failures, or a set of candidate
certificates), `AcceptCandidate`/`RejectCandidate` (`verify_candidate` and
`validate_chain`; the candidates come in any order, which is that of a
`SET OF`), and `AddSigner` (`build_signer_entry` and `resolve_sender`).
`failures` is a set of records: kind, and signer or 0.

Key parsing, hashing, signature primitives and path building are functions of
the instance (`CertInfo`, `verifiesUnder`): which key verifies which signature is
data that the model varies, not something it computes. Addresses are abstract,
with `FoldAddr`, `LocalPart` and `ALabel` for the comparisons that the code makes.

`SenderDisplay` says what is shown as a function of the *set* of certificates
that validly signed. `DisplaySpec` is that specification under a refinement
mapping (`endorsers <- Endorsers`, `shown <- from_address, from_comment, date`),
so that implementing it means that the order of signers has no influence.

### LayerUnwrap

A message is a sequence of layers, each with its MIME kind, header, signers and
what goes wrong with it. `UnwrapLayer` is one turn of the loop: `OneLayer` (the
whole of `decrypt_and_verify_one_layer`) and, if what comes out is S/MIME again,
`Keep` and the next layer; `Finalize` is the end of the loop with its filling of
address, name and date from the outermost header; `GiveUp` is the nesting error
behind it. A layer's result is computed by an operator, because nothing in the
loop sees a layer half done; `VerifySignedData` there is the summary of
`SignedDataVerify` that the loop can tell apart, for at most one valid signer
per address and name, and decryption of an envelope is an input (`opens`).

### OcspResponse, StapledOcsp

`chain` is the validated chain, leaf first, `staples` the OCSP responses in the
message, in the order of the message. The steps follow the two loops:
`IgnoreStaple`, `RememberStatus`, `FindRevoked`, `EndOfStaples` within
`stapled_status_for`, `NextCertificate` and `EndOfChain` in
`apply_stapled_ocsp`. `SignerOf` (in `OcspResponse`) is `verify_ocsp_signature`: issuer or delegated
responder, with its identifier, dates, extended key usage and `AKI`. Time is
discrete and does not pass during a search; `None` is a date that
does not convert, `Absent` a `nextUpdate` that is not there.

### ValidationProxy

One behaviour is one request; handlers share no state, so that more requests add
nothing. `RefuseRequest` and `AcceptRequest` are the checks of its certificates,
in their order and with their HTTP codes. For each URL, `SkipUrl` is one with
another scheme, `FetchFails` the failure of `send` or `bytes` (the client's
timeout at the latest), `Receive` a body, which may be anything that was ever
signed, by anybody. `DropBody` is a body that does not parse, `CheckSignature`
and `CheckContent` the two halves of the rest, each with its own reading of
`Utc::now()`, and `OutOfUrls` the end of the loop. What differs between the two
handlers stays in operators: `/ocsp` has no second URL (`Failover`), and its
codes for dates that do not convert are not those of `/crl`. `SetClock` may set
the clock forward or back between any two steps.

The branch for subscriber certificates (8 hours, 10 days) cannot be reached,
`require_ca_cert` comes first; nor can the nonce check.

### ContentDecryption, Encryption, RoundTrip

Cryptography is symbolic: what a CEK is wrapped in is a *lock* that names
algorithm and key, and opens for exactly those; content is locked under a CEK,
a cipher and the RFC 9709 derivation. A wrong CEK or a changed ciphertext makes
an AEAD cipher fail, while CBC fails or yields `Garbage`, as its padding may
happen to be right. That RSAES-PKCS1-v1_5 or the RFC 3211 check value may accept
a wrong key by chance (2^-16 and 2^-24) is left out.

`Decrypt` is a call of one of the two layer functions, with the version
check; `NoContent`, `RejectAlgorithm`, `RejectCertificate` are its early
returns, `StartSearch` the version pass over all recipient infos, and
`SkipRecipient`, `RecipientFails`, `RecipientOpens`, `NoRecipient` the loop of
`recover_cek`; `RejectLength` and `OpenContent` what follows.

`Encryption` builds a recipient info for each certificate in turn
(`AddRecipient`), refuses everything when one has an unsupported key
(`RefuseRecipient`) and seals in some order that sorting a `SET OF` can yield:
kinds in the order of their tags, within a kind any. `RoundTrip` delivers the
result to anybody with any key ring, or takes a message from elsewhere.

### BerToDer, BerEncodings

Here octets are octets, since lengths and offsets are what the code is about.
The recursion of `ber_tlv_to_der` is a machine whose `stack` holds the calls
that wait for a child: `ReadPrimitive` and `EnterConstructed` read one header
(`HeaderAt`), `Return` leaves an element whose end is reached, by length or by
end-of-contents octets, with its children sorted, flattened or as they were
(`Assembled`), `Reject` is any `Err`, and `Finish` the pass of
`sort_cms_implicit_sets` over the result. A frame's `limit` is the end of the
slice its call was given.

`BerEncodings` writes: a tree of nodes, each with a form for its length, its set
elements in some order and its strings in some segments, is encoded (`BerOf`)
and converted, and what came out is converted again. `DerOf` says what should
come out, by permutation and concatenation on the tree, with nothing of the code's
operators but how a definite length is written and octet strings are ordered.
Octet strings that encode nothing are converted as well.

### MailFiles, ModifyCms, Pkcs12, CommandLine, Tools

Mail is a sequence of tokens, so that offsets exist and replacing a body moves
what is behind it; a body is what its transfer encoding says or `Junk`. A CMS
object is a record. The order of what is in the field `crls` of the encoded
set is not modelled. A file may hold anything: reading it as mail, certificate,
OCSP response or PKCS#12 file gives what it is or `Junk` (`MailIn`,
`CertificateIn`, `DerIn`, `PfxIn`; a key has to be in `Pem`, the contents that
`pem::parse` takes), and all that is read has a declared type
(`Mail`, `SignedData`, `EnvelopedData`, `Choice`), which is what the theorems
range over; the runs have some members of these types on `disk`.

`ModifyCms` has a step for each stage of `run_modify` (`ParseSigned`,
`AddCertificates`, `AskNextUrl` for a turn of either loop over URLs, `AddCrl`,
`AddOcspResponse`, `WriteModified`), where servers fail or answer anything, and
for `run_ber_to_der` one for each part it splices (`BeginRewrite`,
`RewritePart`, `WriteRewritten`). `Pkcs12` opens all entries in turn and then
searches them; whether a wrong password is noticed by its padding is a choice.
`CommandLine` has a step for each thing that may end in exit code 2. The two
library calls in it are operators, `Verify` and `Decrypt`, the part of their
behaviour that depends on the arguments and files: the machines behind them
are those of the modules above. `Decrypt` is the loop over layers written out,
one operator application for each of the four turns `MAX_DECRYPT_DEPTH` allows, with the test
between two turns (`IsSmime`: content there is, it is UTF-8, and its header says
S/MIME) and the refusal after the last. `Tools` begins one command after the other, each on
what the one before left on `disk`.

## 3. What the runs check

Sizes are distinct states; all passing runs are complete.

| Run | States | Properties | What it shows |
|---|---|---|---|
| `verify` | 162,789 | `CleanResultIsSound`, `VerdictsAreIndependent`, `RepairedContentIsReported`, `DisplaySpec`, `Termination` | nothing that is wrong with a signer, the set-up or a version is left out of `failures` |
| `layers` | 66,486 | `UnwrappingIsExact`, `SignersOfAllLayersAreListed`, `ShownAddressHasSource`, `AgreesWithVerify`, `CleanResultIsComplete`, `Termination` | the loop over nested layers |
| `ocsp` | 69,188 | `StatusIsAuthentic`, `VerdictIgnoresOrder`, `Termination` | stapled statuses |
| `round_trip` | 29,052 | `OwnRecipientSuffices`, `ContentIsEarned`, `WarningsAreComplete`, `RecipientsRead`, `Termination` | encryption and decryption |
| `proxy` | 106,356 | `AnswerIsAuthentic`, `AnswerIsCurrent`, `AgreesWithStapled`, `RequestsAreAnswered` | a request to the proxy; that it and the verifier judge one OCSP response alike |
| `ber` | 34,750 | `DescentStaysInBounds`, `OutputIsCanonical`, `RefusedForAReason`, `EveryStepAdvances` | every writing of a message in BER ends as its DER, or is refused for a reason |
| `tools` | 213,810 | `ModificationIsSound`, `RewritingIsSound`, `ExitCodeIsTrue`, `OwnMailIsRead`, `ExtractionIsRight`, `CommandsAdvance` | the tools on each other's files |

Some of these are conjunctions of named parts that answer one question
together: `CleanResultIsSound` of `CleanResultVouchesForAllSigners` and
`CleanResultIsConformant`; `UnwrappingIsExact` of `ContentIsUnwrapped` and
`DepthLimit`; `DescentStaysInBounds` of `LimitsNested` and `DepthBounded`;
`OutputIsCanonical` of `OutputIsTheDerOfTheValue` and `ConversionIsIdempotent`;
`ModificationIsSound` of `ModifiedStaysConformant`, `ModifiedIsComplete` and
`ModifiedVerifies`; `RewritingIsSound` of `RewrittenInPlace` and
`RewrittenVerifiesAlike`; `ExitCodeIsTrue` of `SuccessIsEarned` and
`NoErrorWithoutCause`; `ExtractionIsRight` of `SoundFilesAreRead`,
`WrongPasswordIsTold`, `GarbageOnlyWithoutMac` and `WebPagesAskForPasswords`.
Most of the parts have a mutant of their own.

Each also checks the type invariant of its module. Each property has at least
one mutant of the code model that breaks it (`PROJECT.json`, `mutants`; the
definitions marked "Mutant" in the modules).

Bounds, and why they are enough:

- `verify`: up to three signers, five certificates, up to three candidates for
  one identifier. Three signers let one decide, one be skipped and one come
  after; the certificates differ in what they vouch for and how they fail. The
  input is four families (everything that can be wrong with one signer; with the
  set-up; with versions; several signers), since the checks of different
  families share no state but `failures`.
- `layers`: up to `MAX_DECRYPT_DEPTH` + 1 layers, with the code's constant of 4,
  for nestings without faults; what can go wrong and who is shown as the sender
  in up to three layers, which have a first, a middle and a last one.
- `ocsp`: chains of one to three certificates (a leaf, an intermediate and an
  anchor that is never checked), up to three staples, two singles in a staple.
- `round_trip`: up to three recipients, six key pairs, one for each thing the
  code tells apart; foreign messages with up to two recipient infos, one to fail
  and one behind it; CEKs of 16, 32 and 40 bytes.
- `proxy`: up to three URLs; days around the two limits of 256 and 366, which are
  the code's; a response by the issuer or a responder for each pair of such
  dates, and ones that are wrong in one thing.
- `ber`: `MAX_BER_DEPTH` is 9 instead of 64 and `usize` has 16 bits, with
  nestings and lengths on both sides of either; sets of up to three elements
  in each order, with elements that differ in length, in tag and in the form of
  their length only; strings of up to two segments, one of them segmented again;
  contents of 127 and 128 octets; SignedData with two signers, whose order changes
  when their attributes are sorted; every truncation of a message that has each
  of these.
- `tools`: families of sessions, of one command, or two where one reads what
  the other wrote: versions (all kinds of certificates and revocation
  information), servers (two URLs of each kind with every answer), arguments
  that are missing, unreadable or unwritable, mail with up to four parts of
  which two are PKCS#7, a signed message that is signed again, one whose content is
  not `id-data` and one without a signing time, a file with another kind of
  certificate where one is to be added and files that are no PEM where a key should be, envelopes for each kind of secret, PKCS#12 files of up
  to two entries with each password right, empty, absent or wrong. The session
  `nested` has one to five layers, signed and sealed in either order, so that the
  fourth turn of the loop is the last, the one too many and neither; layers that are
  unreadable, of several parts, in binary, or signed by nobody's CA; and outputs
  written over the mail, the key or the CA file.

Fairness: the specifications of the library have weak fairness of their whole
next-state relation and nothing else. The code is a function that runs until it
returns; the caller cannot stop it, and no step waits for anything. In
`ValidationProxy` it is weak fairness of what the proxy does by itself
(`Handle`), which includes `FetchFails`: `main` builds its client with a timeout
of 30 seconds, so that no fetch waits for ever. Servers and the clock need do
nothing for `RequestsAreAnswered`. `Termination` says that each of the loops comes to an end under it.

`BerToDer` and `Tools` state termination without fairness, as a variant:
`EveryStepAdvances` and `CommandsAdvance` say that every step of a conversion
or a command lowers a number, or a pair of them in lexical order, and TLC's
deadlock check that one that has not ended always has a next step. So it has a
proof for inputs of any size.

### Where a comment and the code disagree

Five runs are expected to fail. Each checks a sentence that the repository says of
itself and that the code does not keep:

| Run | Sentence | What the code does |
|---|---|---|
| `signed_content` | `types.rs`: "Content that was actually signed" | one signer's WildDuck repair replaces the content for all |
| `layers_failures` | `types.rs`: "Errors that occurred during validation" | failures of a layer are dropped when another layer follows |
| `layers_vouched_sender` | `lib.rs`: "we prefer it over the outer (potentially unsigned) From header" | the outer name is put back beside the vouched address |
| `ocsp_singles` | `ocsp.rs`: "A valid revocation proof always wins" | only the first matching single of a response is read |
| `rewritten_der` | `modify_cms.rs`: "Rewrite PKCS#7 content in an .eml file from BER to DER encoding" | the new body is base64 whatever `Content-Transfer-Encoding` says, so that one in another encoding is not readable any more |

Smaller observations, met while modelling, that no run was spent on.

Verification: a SignedData without signers has
a result without failures; `encryption_info` is the innermost one after two
encryptions; a signer that fails is not listed although `types.rs` says signers
are; within several layers an inner From is
shown even if no signature vouches for it; of several certificates for one
identifier and key the first that verifies is taken, whether its chain is trusted or not
(`lib.rs:1510`; nothing in the repository promises anything else); the outermost From is used when a
"layer has no From/Date of its own" (`decrypt_verify.rs:86`), though not for
`multipart/signed` layers (129).

Decryption: version warnings of recipient infos ("recorded, not fatal") are
dropped when decryption fails for another reason; "Only matching recipients are
tried" (`decrypt.rs:47`), but key agreements of others are as well, and their
errors reported (156).

Revocation: an OCSP response without a
`nextUpdate` is good for seven days in a message and for ever to the proxy; the
"current absolute maximum can be 12 months" (`validation-proxy/main.rs:298`),
but is 256 days for OCSP and 366 for CRLs; a
CRL with a bad signature ends the proxy's search although other URLs are left.

Tools: `verify --out` writes the payload of a failed verification too, whose
help says "verified payload"; with `--out` and no payload after a failed
verification the exit code is 2, not 1; mail is read as lossy UTF-8, so that a
CMS body in binary cannot be verified; `ber_to_der` says "strict DER", but
leaves implicitly tagged sets outside of SignedData and implicitly tagged
strings alone; `modify` takes the first certificate in DER order for the
signer's, so that a message whose intermediate sorts first, or one modified
before, is refused; a CRL answer that is empty adds nothing and says nothing; `ber-to-der` of a
message that is signed around PKCS#7 content (RFC 2634, triple wrapping) rewrites
that content as well, so that the outer signature no longer verifies
(`RewrittenVerifiesAlike` has a condition for it); `modify` writes over a file
that it has added something from, if told to, which leaves nothing to compare the
message with (`SourcesOf`);
one PKCS#12 entry that cannot be decrypted fails them all, although "every
readable AuthenticatedSafe entry" is to be looked at (`pkcs12_utils.rs:72`);
the first key and the first leaf certificate of a PKCS#12 file need not belong
together.

### What an exit code does not say

The theorems about exit codes had to say exactly what is vouched for, and what is
not. Exit code 0 of `smime decrypt` is about the layer the content comes from:
an outer signature that failed is in the list of signers and does not change
it. Nor does S/MIME that is inside `multipart/mixed`, or content that is not UTF-8:
the loop hands them out as they are. A message with a second signature part is
judged by the first. The content of an envelope that was opened is lost when
what is inside cannot be read, or is a fifth layer. And `--out` may name a file that
is read, `--ca-file` or the key: the exit code is right about what was read, while the file
is no longer that (`SourcesKept`).

## 4. What is proved

TLAPS checks every proof from nothing, for every value of the constants that
satisfies the named assumptions in the modules. TLC evaluates these in every run.

| Assumption | Says |
|---|---|
| `ConstantsAssumption` | the shapes of the constants; `None` is distinct from data |
| `MessageAssumption`, `InputAssumption`, `ProxyAssumption` | inputs are of the type the module declares |
| `SenderAssumption` | what `encrypt` is called with; issuer and serial number match that certificate only |
| `BerAssumption` | the two bounds are natural numbers |
| `FilesAssumption`, `MailAssumption` | `None` and `Junk` are no path, no mail and no CMS object, and a text is no CMS object; what CMS objects carry is mail |
| `UrlsAssumption` | certificates have sequences of URLs |
| `CommandAssumption`, `Pkcs12Assumption` | the two embedded stores exist; `None`, for a file that is not there, is no PKCS#12 file and no PEM, and neither is what cannot be parsed; the empty password is a password; the values of bags are distinct from the marks for what is absent or garbage |
| `SessionsAssumption` | the calls, files and servers of a session are of the types `Tools` declares |

| Theorem | States |
|---|---|
| `SignedDataVerify_proofs!TypeCorrect` | `Spec => []TypeOK` |
| `SignedDataVerify_proofs!CleanResultSound` | `Spec => []CleanResultIsSound` |
| `SignedDataVerify_proofs!DisplayImplemented` | `Spec => DisplaySpec` |
| `SignedDataVerify_proofs!VerdictsIndependent` | `Spec => []VerdictsAreIndependent` |
| `SignedDataVerify_proofs!RepairReported` | `Spec => []RepairedContentIsReported` |
| `LayerUnwrap_proofs!TypeCorrect` | `Spec => []TypeOK` |
| `LayerUnwrap_proofs!UnwrappedContent` | `Spec => []ContentIsUnwrapped` |
| `LayerUnwrap_proofs!DepthLimitExact` | `Spec => []DepthLimit` |
| `LayerUnwrap_proofs!UnwrappingExact` | `Spec => []UnwrappingIsExact` |
| `LayerUnwrap_proofs!AddressSource` | `Spec => []ShownAddressHasSource` |
| `LayerUnwrap_proofs!CleanComplete` | `Spec => []CleanResultIsComplete` |
| `LayerUnwrap_proofs!VerifyAgreement` | `Spec => []AgreesWithVerify` |
| `LayerUnwrap_proofs!SignersListed` | `Spec => []SignersOfAllLayersAreListed` |
| `StapledOcsp_proofs!TypeCorrect` | `Spec => []TypeOK` |
| `StapledOcsp_proofs!StatusAuthentic` | `Spec => []StatusIsAuthentic` |
| `StapledOcsp_proofs!OrderIrrelevant` | `Spec => []VerdictIgnoresOrder` |
| `ValidationProxy_proofs!TypeCorrect` | `Spec => []TypeOK` |
| `ValidationProxy_proofs!AnswersAuthentic` | `Spec => []AnswerIsAuthentic` |
| `ValidationProxy_proofs!AnswersCurrent` | `Spec => []AnswerIsCurrent` |
| `ValidationProxy_proofs!StapledAgreement` | `Spec => []AgreesWithStapled` |
| `RoundTrip_proofs!TypeCorrect` | `Spec => []TypeOK` |
| `RoundTrip_proofs!OwnKeyReads` | `Spec => []OwnRecipientSuffices` |
| `RoundTrip_proofs!OnlyKeysRead` | `Spec => []ContentIsEarned` |
| `RoundTrip_proofs!WarningsComplete` | `Spec => []WarningsAreComplete` |
| `RoundTrip_proofs!DecryptionSound` | the four above, of `RoundTripSpec` |
| `RoundTrip_proofs!EveryRecipientReads` | `RoundTripSpec => []RecipientsRead` |
| `BerToDer_proofs!NothingOutOfBounds` | `Spec => []LimitsNested` |
| `BerToDer_proofs!RecursionBounded` | `Spec => []DepthBounded` |
| `BerToDer_proofs!DescentInBounds` | `Spec => []DescentStaysInBounds` |
| `BerToDer_proofs!ConversionEnds` | `Spec => EveryStepAdvances` |
| `Tools_proofs!TypeCorrect` | `Spec => []TypeOK` |
| `Tools_proofs!ExtractionRight` | `Spec => []ExtractionIsRight` |
| `Tools_proofs!CommandsEnd` | `Spec => CommandsAdvance` |
| `Tools_proofs!ModificationSound` | `Spec => []ModificationIsSound` |
| `Tools_proofs!RewritingSound` | `Spec => []RewritingIsSound` |
| `Tools_proofs!ExitCodeTrue` | `Spec => []ExitCodeIsTrue` |
| `Tools_proofs!OwnMailAlwaysRead` | `Spec => []OwnMailIsRead` |

How:

- `CleanResultSound`. The property speaks of the end only. The invariant behind
  it says, of every signer before the current one, that it is listed as valid
  *or* has left a failure of its own, and of the current one where it stands: the
  candidates that were tried have left failures, the accepted one is in `leaf`.
  Each `continue` of the code is one case: it must leave a failure behind.
- `DisplayImplemented`. Each step is an `Endorse`, a `ReadHeader` or a stutter.
  What makes it true is that the resolver's two flags say exactly whether some
  valid signer carried the address, and one of them the name as well.
- `VerdictsIndependent`, `RepairReported`. `VerdictsInv`: every entry of the list
  is of a candidate that verifies for its signer, no signer passed is missing, and
  those of the current signer's candidates that verify are still pending.
  `RepairInv`: the signer a repair was made for is in the list or at `pc = "entry"`.
- `UnwrappedContent`, `DepthLimitExact`. `LoopInv`: at `pc = "layer"` the `depth`
  layers before led on one into the other (`Removed`), at the end the loop
  stopped either at a layer that does not lead on or at the bound (`Stopped`).
- `AddressSource`, `CleanComplete`, `VerifyAgreement`. `EndInv`: the result is
  that of the layer the loop ended at, judged against the sender of the first one,
  with its gaps filled from it. What remains is a case distinction on the kind of
  that layer, one lemma per property.
- `StatusAuthentic`, `OrderIrrelevant`. `SearchInv` has the loop state as a
  function of what was passed: `errors` holds exactly the certificates passed that
  some staple revokes, none of the staples passed for the current one does, and
  `first_non_revoked` is one of the statuses they said, `None` only if they said
  none.
- `AnswersAuthentic`, `AnswersCurrent`. `ProxyInv` ties every 200 to the checks
  it passed: the request's (`RequestPassed`), those of the signature of the body
  that is still there, at the time they were made (`Checked`), and those of its
  content by the clock as it is now (`AnswerEarned`).
- `StapledAgreement`. `RefusalInv` is the converse: an OCSP response that was
  refused failed one of the two checks. The lemmas `SignerValid` (whoever signed
  was valid then) and `FirstIsFirst` (the first status is the one the verifier goes
  by) relate them to `StapleStatus`.
- `OwnKeyReads`, `OnlyKeysRead`, `WarningsComplete`. `IInv` says what the search
  has established: nothing before `next` opens (`Passed`), the key at hand is the
  one the recipient info at `next` yields (`Found`), and what has been recorded
  (`Recorded`). The lemma `RightKey` is the crux of the first: when the content is
  about to be opened and somebody's own recipient info is there, with none before
  it that yields the same reader another key, the key at hand is the right one.
- `EveryRecipientReads`. `SInv` follows the sender: the recipient infos built are
  those of the certificates passed (`Building`), and the envelope sent has one for
  every recipient and no others, whichever permutation the SET OF made of them
  (`SentToAll`). `Reading` then derives the property from `IInv` and `SInv`: a
  recipient info of the reader opens, whichever opens yields the fresh key, so
  `OwnRecipientSuffices` gives the plaintext, and `WarningsAreComplete` with the
  versions and algorithms `encrypt` writes gives the absence of failures.
- `DescentInBounds`, `ConversionEnds`. The lemma `HeaderWithin` says that a
  header that is accepted takes at least two octets, and that the content it
  announces ends within the slice it was read from. `Inv` is then that the limits
  on the stack are nested, each within the one below it, and the position within
  the innermost; every step moves the position forward or pops a call. Nothing
  needs to be known of what was read, so the octets of the children are left out of
  `Inv`: that they are octets (`TypeOK`) goes through folds over sequences, whose
  induction principle is out of the prover's reach.

- `SignersListed`. The property says where in the list the signers of a layer
  are: `SignersInv` is it for the layers removed so far (`ListedInLayers`), and
  the lemma `OneMoreListed` that the signers of one more, put behind those, keep
  it. It is by positions and not by a fold, so that no induction over sequences
  is needed.
- `ExtractionRight`. `Pkcs12Inv` (in `Pkcs12_proofs`): while entries are opened,
  each one passed was opened with the password that opens it, and its bags are
  in `opened` in their order, between those of the entries around it
  (`OpenedFully`, `Placed`); while `opened` is searched, no bag passed is what is
  looked for. A file whose MAC holds for a password is opened with that password,
  whence what is told of a wrong one.
- `CommandsEnd`. The pair is how far the command has to go and what is left of the
  loop it is in; the theorem needs the type invariant, and that the loops of two
  programs are never both in progress.
- `ModificationSound`. `ModifyInv`: the SignedData at work is the one that was
  read, with things added behind what it had (`Grown`), the URLs asked so far gave
  nothing (`Asking`), what was added so far is what `Offered` says (`Gathered`),
  and what was written is that, encoded (`Delivered`). The encoder sorts; that a
  sort by counting is a permutation is `Ranked` and `InDerSorts`. `NewVersionFits`
  compares the version written with RFC 5652's, and `WrittenReads` has the verifier
  read what was written.
- `RewritingSound`. The splices use offsets of the mail as it was read, in a text
  that is no longer that mail. `RewriteInv` says why that is right: headers are
  where a monotone `pos` says, all bodies but those already converted are
  as they were (`Moved`), and in front of the last splice nothing has moved
  (`Untouched`), which is where the next one is made, as the parts are taken
  from the back. `WithBodyHeads`, `WithBodyEnds` and `WithBodyBodies` are the effect
  of one splice. For the verdicts, what `from_utf8_lossy` makes of a part depends on
  its body alone (`LossyIs`), and a second conversion to DER changes nothing that
  verification looks at (`DerAgain`).
- `ExitCodeTrue`, `OwnMailAlwaysRead`. Two arguments meet. One is about the values: a
  lemma for each way a layer is read (`OpaqueIs`, `ClearIs`, then `VerifyIs` and
  `LayerIs`) says that what comes out is in the mail (`ContentsOf`), that a result without
  failures is accounted for by a CMS object there (`VouchedIn`, `OpenedIn`), and that
  a layer that is whole yields something. `InwardIs` takes one turn of the loop from
  one depth to the next, and `DecryptIs` puts four of them together. The other is
  about the command: the files may change under it, by its own output only, and the
  properties compare the end with what was on disk. So `CommandInv` says what each
  phase knows: on the way, that what was gathered is what is in the files now
  (`OnTheWay`); in the end, that the result is that of the mail, for what the
  arguments meant unless a file that says so was written over, and that exit code 2
  was excused (`InTheEnd`). For a key in PKCS#12 it needs `Pkcs12Inv`
  (`KeyTaken`).

Two of these proofs found conditions that the runs had not needed: that the output
of `modify` is none of the files it adds from, and triple wrapping. Both are real
behaviour of the tools (section 3), stated in the properties now, and the second
is in the runs.

Only model-checked: liveness (`Termination`, `RequestsAreAnswered`), which TLAPS
does not do; what `BerToDer` yields (`OutputIsCanonical`, `RefusedForAReason`), as
`DerOf` is recursive, and its `TypeOK`. That a result is a sequence of octets takes more
than it seems: children are taken apart again when strings are flattened and sets
sorted, so it rests on `HeaderAt` reading back what `DerLength` wrote, which is
arithmetic with powers of 256 and folds over sequences, and on a bound for the
input, as DER may be longer than the indefinite form it replaces.

Induction over natural numbers and finite sets is used, in the form the provers
can instantiate: a least counterexample of a set (`LeastExists`, from
`NatLessThanWellFounded`), and the facts of `FiniteSetTheorems`. Recursive
operators and operators that fold over sequences stay out of reach.

## 5. Not modelled

See `components` in `PROJECT.json`. The content of X.509 path validation (the
`policy` and `x509` parts are vendored from the Python cryptography project and
enter as `chainBuilds`), MIME and ASN.1 parsing, cryptographic primitives, the
wording of errors, `EncryptionInfo` summaries, the WASM glue and the demo.

The fixture generator `create_cms.rs`, almost a third of the code, is a script: each
of its functions builds one fixed message from library calls, keeps no state
and takes no decisions. What its messages exercise are inputs of the runs:
signers with each defect, nested and repaired messages, wrong versions,
recipient infos of each kind, stapled responses of each status. Its octets would
only restate those inputs.

## 6. Plan

1. `BerToDer!TypeOK`, from a lemma that `HeaderAt` reads back what `Der` writes, with
   the powers of 256 as a table and recursive functions on numbers instead of folds.
2. `CommandLine` over the machines of `SignedDataVerify` and `LayerUnwrap`
   instead of `Verify` and `Decrypt`, if the state space allows.
