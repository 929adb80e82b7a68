--------------------------- MODULE Authorization ---------------------------
(***************************************************************************)
(* What a wallet's signature over a capture covers                         *)
(* (validation/authorization.rs): the digest of the request, the message   *)
(* around it, the verification, and next to it the body that goes to the   *)
(* validator (validator_request_body, validation/handler.rs).              *)
(*                                                                         *)
(* The digest is its encoding: the hash, like the signature, is one-to-one *)
(* here.  A unit of the encoding is a number, whatever its width: where    *)
(* each begins follows from those before it.  An option is a sequence of   *)
(* length zero or one, a string a sequence of numbers.                     *)
(***************************************************************************)
EXTENDS Integers, Sequences, SequencesExt

CONSTANTS
  Requests,       \* the captures that are signed and sent
  Signer,         \* wallets
  Challenge,      \* nonces
  NegativeZero,   \* the number -0.0
  NonFinite       \* a NaN or an infinity

VARIABLES
  signature,      \* what a wallet has signed, or <<>>
  presented,      \* the request that came with it, or <<>>
  verdict

authorizationVars == <<signature, presented, verdict>>

Optional(S) == {o \in Seq(S) : Len(o) <= 1}

\* ValidateFeaturesRequest: a vector is of numbers, all else of integers.
Double == Int \cup {NegativeZero, NonFinite}

EvidenceType == [projection : Int, schema : Int, features : Seq(Double)]
SignalsType ==
  [v : Int, env : Optional(Seq(Int)),
   automation : Optional([webdriver : Int, tells : Seq(Seq(Int))]),
   capture : Optional([virtual : Int, flatness : Optional(Double), centroid : Optional(Double)])]
StudyType ==
  [token : Seq(Int), record : Seq(Int), class : Int, schema : Int, projection : Int]
RequestType ==
  [reset : Int, features : Seq(Double), evidence : Optional(EvidenceType),
   f0 : Optional(Seq(Double)), accel : Optional(Seq(Double)), audio : Optional(Seq(Int)),
   rate : Optional(Int), signals : Optional(SignalsType), study : Optional(StudyType),
   timing : Int]

AuthorizationAssumption == \A r \in Requests : r \in RequestType

------------------------------------------------------------------------------
(***************************************************************************)
(* DigestEncoder.                                                          *)
(***************************************************************************)
\* finite_f64: the two zeros are one.
Number(x) == IF x = NegativeZero THEN 0 ELSE x

Text(s) == <<Len(s)>> \o s

\* Mutant of Numbers: the length is left to the option's flag.
NumbersUnprefixed(s) == [i \in DOMAIN s |-> Number(s[i])]

\* f64_vector.
Numbers(s) == <<Len(s)>> \o [i \in DOMAIN s |-> Number(s[i])]

Texts(s) == <<Len(s)>> \o FlattenSeq([i \in DOMAIN s |-> Text(s[i])])

\* option_string, option_f64, option_f64_vector, and the options of request_digest;
\* `code` encodes what an option holds, where it holds anything.
Option(o, code) == IF o = <<>> THEN <<0>> ELSE <<1>> \o code

Unit(x) == <<Number(x)>>

Automation(a) == <<a.webdriver>> \o Texts(a.tells)
Capture(c) ==
  <<c.virtual>> \o Option(c.flatness, Unit(c.flatness[1]))
                \o Option(c.centroid, Unit(c.centroid[1]))

\* client_signals: the state of voice isolation is not in it.
Signals(s) ==
  <<s.v>> \o Option(s.env, Text(s.env[1]))
          \o Option(s.automation, Automation(s.automation[1]))
          \o Option(s.capture, Capture(s.capture[1]))

\* study_context.
StudyContext(s) ==
  Text(s.token) \o Text(s.record) \o <<s.class, s.schema, s.projection>>

Evidence(e) == <<e.projection, e.schema>> \o Numbers(e.features)

\* request_digest: neither the capture timing nor the curve trace is in it.
Digest(r) ==
  <<r.reset>> \o Numbers(r.features) \o Option(r.evidence, Evidence(r.evidence[1]))
    \o Option(r.f0, Numbers(r.f0[1])) \o Option(r.accel, Numbers(r.accel[1]))
    \o Option(r.audio, Text(r.audio[1])) \o Option(r.rate, <<r.rate[1]>>)
    \o Option(r.signals, Signals(r.signals[1])) \o Option(r.study, StudyContext(r.study[1]))

IsFinite(r) == \A i \in DOMAIN Digest(r) : Digest(r)[i] # NonFinite

\* authorization_message.
Message(w, n, projection, r) ==
  [wallet |-> w, nonce |-> n, projection |-> projection, digest |-> Digest(r)]

------------------------------------------------------------------------------
\* verify_wallet_authorization, for a request with p.wallet, spelt as that key
\* is or otherwise.  An authorization is the nonce and what the signature, once
\* decoded, signs.
Verdict(p) ==
  CASE p.projection # 2 /\ p.authorization = <<>> -> "unsigned"
    [] p.projection # 2 /\ p.authorization # <<>> -> "InvalidRequest"
    [] p.projection = 2 /\ p.authorization = <<>> -> "InvalidRequest"
    [] OTHER ->
         LET a == p.authorization[1]
         IN  IF ~a.wellFormed \/ ~IsFinite(p.request) THEN "InvalidRequest"
             ELSE IF p.canonical /\ a.signs = Message(p.wallet, a.nonce, 2, p.request)
             THEN "authorized"
             ELSE "Forbidden"

------------------------------------------------------------------------------
Init == signature = <<>> /\ presented = <<>> /\ verdict = "none"

\* The wallet signs the digest its client computed.
Sign ==
  /\ signature = <<>>
  /\ \E w \in Signer, n \in Challenge, r \in Requests :
       /\ IsFinite(r)
       /\ signature' = <<[wallet |-> w, nonce |-> n, request |-> r,
                          message |-> Message(w, n, 2, r)]>>
  /\ UNCHANGED <<presented, verdict>>

\* A request with an authorization: the nonce in it, whether it is decoded, and
\* the message it signs.
Given(n, b, m) == <<[wellFormed |-> b, nonce |-> n, signs |-> m]>>
Sent(w, c, v, a, r) ==
  [wallet |-> w, canonical |-> c, projection |-> v, authorization |-> a, request |-> r]

Arrives(p) == presented' = <<p>> /\ verdict' = Verdict(p)

\* In each of the ways it may differ from the one that was signed: it is another
\* request, or has another wallet, another nonce, or no authorization.
Present ==
  /\ signature # <<>> /\ presented = <<>>
  /\ LET s == signature[1]
         given == Given(s.nonce, TRUE, s.message)
     IN  \/ \E r \in Requests : Arrives(Sent(s.wallet, TRUE, 2, given, r))
         \/ \E w \in Signer, c \in BOOLEAN, v \in 1 .. 2 :
              Arrives(Sent(w, c, v, given, s.request))
         \/ \E n \in Challenge, b \in BOOLEAN :
              Arrives(Sent(s.wallet, TRUE, 2, Given(n, b, s.message), s.request))
         \/ \E v \in 1 .. 2 : Arrives(Sent(s.wallet, TRUE, v, <<>>, s.request))
  /\ UNCHANGED signature

Forget ==
  /\ presented # <<>>
  /\ signature' = <<>> /\ presented' = <<>> /\ verdict' = "none"

Next == Sign \/ Present \/ Forget

Spec == Init /\ [][Next]_authorizationVars

------------------------------------------------------------------------------
Zeroed(s) == [i \in DOMAIN s |-> Number(s[i])]
ZeroedVector(o) == IF o = <<>> THEN o ELSE <<Zeroed(o[1])>>
ZeroedEvidence(o) == IF o = <<>> THEN o ELSE <<[o[1] EXCEPT !.features = Zeroed(@)]>>
ZeroedCapture(o) ==
  IF o = <<>> THEN o
  ELSE <<[virtual |-> o[1].virtual, flatness |-> Zeroed(o[1].flatness),
          centroid |-> Zeroed(o[1].centroid)]>>
ZeroedSignals(o) == IF o = <<>> THEN o ELSE <<[o[1] EXCEPT !.capture = ZeroedCapture(@)]>>

\* What a verdict rests on: all that is signed, with one zero.
Inputs(r) ==
  [reset |-> r.reset, features |-> Zeroed(r.features), evidence |-> ZeroedEvidence(r.evidence),
   f0 |-> ZeroedVector(r.f0), accel |-> ZeroedVector(r.accel), audio |-> r.audio,
   rate |-> r.rate, signals |-> ZeroedSignals(r.signals), study |-> r.study, timing |-> 0]

\* An authorized request is the one its wallet signed, under the nonce it
\* signed, in every input of a verdict: no two requests that differ have one
\* digest, whatever is absent, empty or moved from one field to the next.  All
\* that goes to the validator is an input, but the timing, which is not signed
\* (validator_request_body); and projection 2 is never without a signature
\* (authorization.rs).
SignedIsWhatRuns ==
  presented # <<>> =>
    LET p == presented[1]
        s == signature[1]
    IN  /\ verdict = "unsigned" => p.projection # 2
        /\ verdict = "authorized" =>
             /\ p.wallet = s.wallet /\ p.canonical
             /\ p.authorization[1].nonce = s.nonce
             /\ Inputs(p.request) = Inputs(s.request)
=============================================================================
