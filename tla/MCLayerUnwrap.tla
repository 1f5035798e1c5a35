---------------------------- MODULE MCLayerUnwrap ----------------------------
(* Small instances of LayerUnwrap: which nestings each run explores.       *)
EXTENDS LayerUnwrap

CONSTANTS
  a, b,           \* addresses
  x, y,           \* names
  full, partial   \* certificates with a and x, and with a alone

MCAddr == {a, b}
MCName == {x, y}
MCDate == {1, 2}
MCCert == {full, partial}
MCCertAddrs == [c \in MCCert |-> {a}]
MCCertNames == [c \in MCCert |-> IF c = full THEN {x} ELSE {}]

(* A layer with nothing wrong; the sets below vary what a run is about.    *)
Sound(kind, from, date) ==
  [kind |-> kind, from |-> from, date |-> date, utf8 |-> TRUE, versionOk |-> TRUE,
   opens |-> "opened", warns |-> FALSE, rejects |-> FALSE, signers |-> <<>>]

SignedBy(c, valid) == <<[cert |-> c, valid |-> valid]>>
From(addr, name) == [addr |-> addr, name |-> name]

(* A layer that opens has one inside it.                                   *)
Inputs(nestings, loads) ==
  [layers : {n \in nestings : \A i \in DOMAIN n : Opens(n[i]) => i < Len(n)}, caLoads : loads]

One(layers) == [1 .. 1 -> layers]

(* Every order of layers, for nestings of these depths.                    *)
DeepMessages(depths) ==
  LET outers == {Sound("Enveloped", None, None), Sound("OpaqueSigned", None, None),
                 [Sound("ClearSigned", From(a, x), 1) EXCEPT !.signers = SignedBy(full, TRUE)]}
      ends == {Sound(k, None, None) : k \in {"Plain", "BadCms", "Unparsable"}}
                \union {[Sound("Enveloped", None, None) EXCEPT !.opens = "failed"]}
  IN Inputs(UNION {{Append(o, e) : o \in [1 .. n -> outers], e \in ends} : n \in depths},
            {TRUE})

(* Everything that can go wrong in one layer, above and below one that is  *)
(* sound.                                                                  *)
FaultMessages(loads) ==
  LET froms == {None, From(a, x), From(None, x)}
      unusable == {[Sound(k, f, None) EXCEPT !.utf8 = u] :
                     k \in LayerKinds \ (EnvelopeKinds \union SignedKinds),
                     f \in froms, u \in BOOLEAN}
      envelopes == {[Sound(k, f, None) EXCEPT !.opens = o, !.warns = w, !.versionOk = v] :
                      k \in EnvelopeKinds, f \in froms, w \in BOOLEAN, v \in BOOLEAN,
                      o \in {"opened", "absent", "failed"}}
      signatures == {[Sound(k, f, None) EXCEPT !.opens = o, !.rejects = r, !.versionOk = v,
                                               !.signers = s] :
                       k \in SignedKinds, f \in froms, r \in BOOLEAN, v \in BOOLEAN,
                       o \in {"opened", "absent"}, s \in {<<>>, SignedBy(full, FALSE)}}
      faults == unusable \union envelopes \union signatures
      sound == {Sound(k, From(a, x), 1) :
                  k \in {"Enveloped", "AuthEnveloped", "OpaqueSigned", "ClearSigned"}}
      plain == {Sound("Plain", From(b, None), 2)}
      short == One(faults) \union (faults \X plain) \union (sound \X faults)
                 \union (sound \X faults \X plain) \union (faults \X sound \X plain)
  IN Inputs(short, loads)

(* Every combination of these headers and signers in two layers around a   *)
(* body.                                                                   *)
TwoLayers(headers, signings) ==
  LET outers == {[Sound(k, h[1], h[2]) EXCEPT !.signers = s] :
                   k \in {"OpaqueSigned", "ClearSigned"}, h \in headers, s \in signings}
                \union {Sound("Enveloped", h[1], h[2]) : h \in headers}
      bodies == {Sound("Plain", h[1], h[2]) : h \in headers}
  IN Inputs(One(bodies) \union (outers \X bodies) \union (outers \X outers \X bodies), {TRUE})

(* Headers and signers that matter to who is shown as the sender.          *)
SenderMessages ==
  TwoLayers({<<None, None>>, <<From(a, x), 1>>, <<From(a, y), None>>,
             <<From(b, y), 2>>, <<From(None, y), 2>>},
            {<<>>, SignedBy(full, TRUE), SignedBy(full, FALSE), SignedBy(partial, TRUE),
             SignedBy(partial, TRUE) \o SignedBy(full, TRUE)})

AllMessages ==
  DeepMessages(0 .. MaxDepth + 1) \union FaultMessages(BOOLEAN) \union SenderMessages

(* Few headers and signers, for the runs that end in a counterexample.     *)
NestedMessages ==
  TwoLayers({<<None, None>>, <<From(a, x), 1>>, <<From(b, y), 2>>},
            {<<>>, SignedBy(full, FALSE), SignedBy(partial, TRUE)})
=============================================================================
