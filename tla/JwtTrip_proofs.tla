--------------------------- MODULE JwtTrip_proofs ---------------------------
(***************************************************************************)
(* What holds of one token on its way, for any encode and decode requests, *)
(* any registry of algorithms and any instants.                            *)
(***************************************************************************)
EXTENDS JwtTrip, JwtClaims_proofs

(* Both requests are of the application's making, and have the shapes of   *)
(* ShapeAssumption.                                                        *)
IInv ==
  /\ enc \in EncodeRequests
  /\ dec # Unsent => dec \in DecodeRequests(enc) /\ Encode(enc, Registry) = Ok

THEOREM IInvAlways == Spec => []IInv
<1>1. Init => IInv
  BY DEF Init, IInv
<1>2. IInv /\ [Next]_vars => IInv'
  BY DEF IInv, Next, Send, vars
<1> QED
  BY <1>1, <1>2, PTL DEF Spec

LEMMA Shapes ==
  ASSUME IInv
  PROVE  /\ IsEncodeRequest(enc)
         /\ dec # Unsent => /\ dec.entry \in {"jwt", "module", "jws", "async"}
                            /\ IsRequest(dec) /\ IsDict(Options)
<1>1. IsEncodeRequest(enc)
  BY ShapeAssumption DEF IInv
<1>2. \A entry : IsDict(Defaults(entry))
  BY DEF Defaults, IsDict, NoOptions, Bool, Arr, Null
<1>3. dec # Unsent => /\ dec.entry \in {"jwt", "module", "jws", "async"}
                      /\ IsRequest(dec) /\ IsDict(dec.options)
  BY ShapeAssumption DEF IInv
<1> QED
  BY <1>1, <1>2, <1>3, MergedTyped DEF Options

(***************************************************************************)
(* Outcomes.                                                               *)
(***************************************************************************)
EncodeOutcomes == Outcomes \cup {"NotImplementedError"}

LEMMA EncodeOutcome ==
  ASSUME NEW req, NEW registry
  PROVE  Encode(req, registry) \in EncodeOutcomes
<1>1. \A x \in EncodeOutcomes, y \in EncodeOutcomes : (x ?? y) \in EncodeOutcomes
  BY DEF ??
<1>2. \A k, a, enforce : KeyLoads(k, a, enforce) \in EncodeOutcomes
  BY DEF KeyLoads, JwkAlgorithm, JwkBytes, RawKey, Require, Ok, EncodeOutcomes, Outcomes,
         Errors, ??
<1>3. SigningKey(req) \in EncodeOutcomes
  BY <1>2 DEF SigningKey, JwkBytes, Require, Ok, EncodeOutcomes, Outcomes, Errors
<1>4. \A alg, bytes, seed : Signs(alg, bytes, seed) \in EncodeOutcomes
  BY DEF Signs, Require, Ok, EncodeOutcomes, Outcomes, Errors, ??
<1>5. Registered(req, registry) \in EncodeOutcomes
  BY DEF Registered, Require, EncodeOutcomes, Outcomes
<1>6. LongEnough(req) \in EncodeOutcomes /\ IssuerIsString(req) \in EncodeOutcomes
  BY DEF LongEnough, IssuerIsString, Require, Ok, EncodeOutcomes, Outcomes, Errors
<1>7. Ok \in EncodeOutcomes
  BY DEF EncodeOutcomes, Outcomes
<1> QED
  BY <1>1, <1>3, <1>4, <1>5, <1>6, <1>7 DEF Encode

(* Every request, however odd, ends in Ok or in one of the known errors.   *)
THEOREM TypeAlways == Spec => []TypeOK
<1>1. TypeOK
  <2>1. Encode(enc, Registry) \in EncodeOutcomes
    BY EncodeOutcome
  <2>2. \A at \in Instants : Decode(dec, Options, at) \in Outcomes
    BY PrepareOutcome, ExamineOutcome, CheckOutcome, SequenceOutcome DEF Decode
  <2> QED
    BY <2>1, <2>2 DEF TypeOK, EncodeOutcomes, Outcomes
<1> QED
  BY <1>1, PTL

(***************************************************************************)
(* What is accepted.                                                       *)
(***************************************************************************)
(* decode accepts exactly what the policy calls acceptable.                *)
LEMMA Judged ==
  ASSUME IInv
  PROVE  DecodeIsPolicy
<1>1. ASSUME dec # Unsent, NEW at \in Instants
      PROVE  Accepted(at) <=> Acceptable(dec, Options, at)
  BY <1>1, Shapes, DecodeVerdictIsPolicy DEF Accepted
<1> QED
  BY <1>1 DEF DecodeIsPolicy

THEOREM DecodeIsPolicyAlways == Spec => []DecodeIsPolicy
BY Judged, IInvAlways, PTL

LEMMA Accept ==
  ASSUME IInv, NEW at \in Instants, Accepted(at)
  PROVE  dec # Unsent /\ IsRequest(dec) /\ IsDict(Options) /\ Acceptable(dec, Options, at)
BY Judged, Shapes DEF DecodeIsPolicy, Accepted

(* What is accepted under verification was signed: content, header and     *)
(* algorithm as they are, under the key of the signer.                     *)
THEOREM OnlyWhatWasSignedAlways == Spec => []OnlyWhatWasSigned
<1>1. ASSUME IInv
      PROVE  OnlyWhatWasSigned
  <2> SUFFICES ASSUME NEW at \in Instants, TrustedAccept(at)
               PROVE  LET token == Presented(dec)
                      IN  /\ token.sig.payload = token.payload
                          /\ token.sig.header = token.header
                          /\ token.sig.by.of = dec.key.of
                          /\ token.sig.scheme = Scheme(token.header.alg)
                          /\ Permitted(dec, token.header.alg)
    BY DEF OnlyWhatWasSigned
  <2>1. Trusted(dec, Options)
    BY <1>1, Accept DEF TrustedAccept, Acceptable
  <2>2. Bytes(dec.key, "verify").of = dec.key.of
    BY DEF Bytes
  <2> QED
    BY <2>1, <2>2 DEF Trusted
<1> QED
  BY <1>1, IInvAlways, PTL

(* No token is verified with HMAC under a string that looks like a public  *)
(* key, whichever of the two parsers reads its header.                     *)
THEOREM SecretIsNoPublicKeyAlways == Spec => []SecretIsNoPublicKey
<1>1. ASSUME IInv
      PROVE  SecretIsNoPublicKey
  <2> SUFFICES ASSUME NEW at \in Instants, TrustedAccept(at), Presented(dec).header.alg \in Hmac
               PROVE  ~LooksPublic(dec.key)
    BY DEF SecretIsNoPublicKey
  <2>1. Acceptable(dec, Options, at) /\ IsRequest(dec)
    BY <1>1, Accept DEF TrustedAccept
  <2>2. Presented(dec).header = dec.token.header
    BY <2>1 DEF Presented, Attach, IsRequest, IsCompact
  <2>3. Peek(dec.token) \in {dec.token.header.alg, "HS256"}
    BY DEF Peek
  <2>4. Peek(dec.token) \in Hmac
    BY <2>2, <2>3 DEF Hmac
  <2> QED
    BY <2>1, <2>4 DEF Acceptable
<1> QED
  BY <1>1, IInvAlways, PTL

(***************************************************************************)
(* The dict of a call.                                                     *)
(***************************************************************************)
LEMMA Updated ==
  ASSUME NEW a, NEW b, NEW name
  PROVE  /\ Has(Update(a, b), name) <=> Has(a, name) \/ Has(b, name)
         /\ Has(b, name) => Update(a, b)[name] = b[name]
         /\ Has(a, name) /\ ~Has(b, name) => Update(a, b)[name] = a[name]
BY DEF Has, Update

(* Whatever else is in it, it has the leeway of the call.                  *)
LEMMA LeewayOfCall ==
  ASSUME NEW req, NEW base, NEW over, req.entry \in {"jwt", "module"}
  PROVE  Settings(Merged(req, base, over)).leeway = req.leeway
<1> DEFINE last == [name \in {"leeway"} |-> Num(req.leeway)]
<1>1. PICK d : Merged(req, base, over) = Update(d, last)
  BY DEF Merged
<1>2. Has(last, "leeway") /\ last["leeway"].at = req.leeway
  BY DEF Has, Num
<1> HIDE DEF last
<1>3. Has(Update(d, last), "leeway") /\ Update(d, last)["leeway"] = last["leeway"]
  BY <1>2, Updated
<1> QED
  BY <1>1, <1>2, <1>3 DEF Settings

(* A dict that says a check is on still says so when the rest of           *)
(* _merge_options is done with it.                                         *)
LEMMA StaysOn ==
  ASSUME NEW opts, NEW name, name # "verify_signature", Has(opts, name),
         NEW out \in {Defaulted(opts), TurnOff(opts)}
  PROVE  Has(out, name) /\ out[name] = opts[name]
<1> DEFINE off  == [n \in {"verify_signature"} |-> Bool(FALSE)]
           rest == [n \in Names \ {"verify_signature", "strict_aud"} |-> Bool(FALSE)]
<1>1. TurnOff(opts) = Update(opts, off) /\ ~Has(off, name)
  BY DEF TurnOff, Has
<1>2. Defaulted(opts) \in {opts, Update(rest, opts)}
  BY DEF Defaulted
<1> HIDE DEF off, rest
<1> QED
  BY <1>1, <1>2, Updated

(* The expiry check is on in the dict of a call that does not speak of it. *)
Silent(req) ==
  /\ ~Has(req.options, "verify_exp") /\ ~Off(req.options)
  /\ ~(req.verify = Bool(FALSE) /\ req.entry = "module")

LEMMA ExpiryIsOn ==
  ASSUME NEW req, req.entry \in {"jwt", "module"}, Silent(req)
  PROVE  Flags(Merged(req, Defaults(req.entry), req.options)).exp
<1> DEFINE base == Defaults(req.entry)
           last == [name \in {"leeway"} |-> Num(req.leeway)]
           opts == Merged(req, base, req.options)
<1>1. ~Has(last, "verify_exp") /\ ~Has(last, "verify_signature")
  BY DEF Has
<1>2. CASE req.entry = "jwt"
  <2> DEFINE first == Update(base, req.options)
             given == IF req.verify = Bool(FALSE) THEN TurnOff(first) ELSE first
  <2>1. opts = Update(Defaulted(given), last)
    BY <1>2 DEF Merged
  <2>2. Has(base, "verify_exp") /\ base["verify_exp"] = Bool(TRUE)
    BY <1>2 DEF Defaults, Has, Names
  <2> HIDE DEF base, last
  <2>3. Has(first, "verify_exp") /\ first["verify_exp"] = Bool(TRUE)
    BY <2>2, Updated DEF Silent
  <2> HIDE DEF first
  <2>4. Has(given, "verify_exp") /\ given["verify_exp"] = Bool(TRUE)
    BY <2>3, StaysOn
  <2> HIDE DEF given
  <2>5. Has(Defaulted(given), "verify_exp") /\ Defaulted(given)["verify_exp"] = Bool(TRUE)
    BY <2>4, StaysOn
  <2>6. Has(opts, "verify_exp") /\ opts["verify_exp"] = Bool(TRUE)
    BY <1>1, <2>1, <2>5, Updated
  <2> HIDE DEF opts
  <2>7. Bool(TRUE).is = TRUE
    BY DEF Bool
  <2>8. Flag(opts, "verify_exp") = TRUE
    BY <2>6, <2>7 DEF Flag
  <2>9. Flags(opts).exp = TRUE
    BY <2>8 DEF Flags
  <2> QED
    BY <2>9 DEF opts, base
<1>3. CASE req.entry = "module"
  <2>1. opts = Update(req.options, last)
    BY <1>3 DEF Merged, Silent
  <2> HIDE DEF base, last, opts
  <2>2. ~Has(opts, "verify_exp")
    BY <1>1, <2>1, Updated DEF Silent
  <2>3. Has(opts, "verify_signature") => opts["verify_signature"] # Bool(FALSE)
    <3>1. Has(opts, "verify_signature") =>
            /\ Has(req.options, "verify_signature")
            /\ opts["verify_signature"] = req.options["verify_signature"]
      BY <1>1, <2>1, Updated
    <3> QED
      BY <3>1 DEF Off, Silent
  <2>4. Bool(TRUE) # Bool(FALSE)
    BY DEF Bool
  <2>5. Verifying(opts) = TRUE
    BY <2>3, <2>4 DEF Verifying, Given
  <2>6. Flag(opts, "verify_exp") = TRUE
    BY <2>2, <2>5 DEF Flag
  <2>7. Flags(opts).exp = TRUE
    BY <2>6 DEF Flags
  <2> QED
    BY <2>7 DEF opts, base
<1> QED
  BY <1>2, <1>3

(* An expired token is accepted only where somebody turned the check off.  *)
THEOREM LaxOnlyIfAskedAlways == Spec => []LaxOnlyIfAsked
<1>1. ASSUME IInv
      PROVE  LaxOnlyIfAsked
  <2> SUFFICES ASSUME NEW at \in Instants, Accepted(at), Expired(Presented(dec).payload, at),
                      dec.entry # "jws", Silent(dec)
               PROVE  FALSE
    BY DEF LaxOnlyIfAsked, Silent
  <2>1. /\ Acceptable(dec, Options, at)
        /\ dec.entry \in {"jwt", "module", "jws", "async"}
    BY <1>1, Accept, Shapes
  <2>2. dec.entry \in {"jwt", "module"}
    BY <2>1 DEF Acceptable
  <2>3. Flags(Options).exp
    BY <2>2, ExpiryIsOn DEF Options
  <2>4. Settings(Options).leeway = dec.leeway
    BY <2>2, LeewayOfCall DEF Options
  <2>5. LET claims == Presented(dec).payload.claims
        IN  Has(claims, "exp") => ~Earlier(claims["exp"], at - dec.leeway * Resolution)
    BY <2>1, <2>2, <2>3, <2>4 DEF Acceptable, ClaimsAcceptable, InWindow, Leeway
  <2> QED
    BY <2>5 DEF Expired
<1> QED
  BY <1>1, IInvAlways, PTL

(***************************************************************************)
(* The round trip.                                                         *)
(***************************************************************************)
(* A dict in which nothing is turned off.                                  *)
No == Bool(FALSE)

Usual(opts) ==
  \A name \in DOMAIN opts :
    \/ name \in Names /\ opts[name].type = "bool" /\ opts[name] # No
    \/ name = "require"
    \/ name = "leeway" /\ opts[name].at = 0

LEMMA UsualFacts ==
  ASSUME NEW opts, Usual(opts)
  PROVE  OptionsClear(opts) /\ ~Enforcing(opts) /\ ~Off(opts)
<1>1. "leeway" \notin Names /\ "require" \notin Names
  BY DEF Names
<1>2. OptionsClear(opts)
  <2>1. \A name \in Names \cap DOMAIN opts : opts[name].type = "bool"
    BY <1>1 DEF Usual
  <2>2. "leeway" \in DOMAIN opts => opts["leeway"].at = 0
    BY <1>1 DEF Usual
  <2> QED
    BY <2>1, <2>2 DEF OptionsClear
<1>3. ~Enforcing(opts)
  BY DEF Usual, Enforcing, Has, Names
<1>4. ~Off(opts)
  BY DEF Usual, Off, Has, Names, No
<1> QED
  BY <1>2, <1>3, <1>4

LEMMA UsualDict ==
  ASSUME NEW req, NEW entry \in {"jwt", "module", "jws"}, req.entry = entry,
         req.verify = Null, req.leeway = 0
  PROVE  Usual(Merged(req, Defaults(entry), NoOptions))
<1> DEFINE last == [name \in {"leeway"} |-> Num(req.leeway)]
           base == Defaults(entry)
<1>1. \A a, b : Usual(a) /\ Usual(b) => Usual(Update(a, b))
  <2> TAKE a, b
  <2> SUFFICES ASSUME Usual(a), Usual(b), NEW name \in DOMAIN Update(a, b)
               PROVE  LET v == Update(a, b)[name]
                      IN  \/ name \in Names /\ v.type = "bool" /\ v # No
                          \/ name = "require"
                          \/ name = "leeway" /\ v.at = 0
    BY DEF Usual
  <2>1. \/ name \in DOMAIN b /\ Update(a, b)[name] = b[name]
        \/ name \in DOMAIN a /\ Update(a, b)[name] = a[name]
    BY DEF Update
  <2> QED
    BY <2>1 DEF Usual
<1>2. Usual(last)
  BY DEF Usual, Num
<1>3. Usual(NoOptions)
  BY DEF Usual, NoOptions
<1>4. Usual(base)
  <2>1. Bool(TRUE) # No /\ Bool(TRUE).type = "bool"
    BY DEF Bool, No
  <2> DEFINE on == Bool(TRUE)
  <2>2. \A S \in SUBSET Names :
          Usual([name \in S \cup {"require"} |-> IF name = "require" THEN Arr({}) ELSE on])
    <3> HIDE DEF on
    <3> QED
      BY <2>1 DEF Usual, on
  <2> QED
    BY <1>3, <2>2 DEF Defaults
<1>5. Null # Bool(FALSE)
  BY DEF Null, Bool
<1> HIDE DEF last, base
<1>6. Defaulted(Update(base, NoOptions)) = Update(base, NoOptions)
  BY <1>1, <1>3, <1>4, UsualFacts DEF Defaulted
<1>7. Merged(req, base, NoOptions)
        \in {Update(Defaulted(Update(base, NoOptions)), last), Update(NoOptions, last),
             Update(base, NoOptions)}
  BY <1>5 DEF Merged, last
<1> QED
  BY <1>1, <1>2, <1>3, <1>4, <1>6, <1>7 DEF base

(* What it takes to sign.                                                  *)
LEMMA Signing ==
  ASSUME NEW req, NEW registry, IsEncodeRequest(req), Coherent(req),
         Encode(req, registry) = Ok
  PROVE  LET alg == Prepared(req).alg
             key == req.key
         IN  /\ alg \in Crypto /\ key.kty = KindFor(alg)
             /\ alg \notin Hmac => key.half = "private"
             /\ alg \in Hmac => key.half = "secret" /\ ~LooksPublic(key)
             /\ key.form \notin {"absent", "other"}
             /\ key.form = "jwk" => JwkBytes(key) = Ok
<1> DEFINE alg == Prepared(req).alg
           key == req.key
<1>1. alg = JwkAlg(req) /\ ~IsNone(alg) /\ key.half # "public"
      /\ key.kty = KindFor(alg)
  BY DEF Coherent
<1>2. SigningKey(req) = Ok /\ Signs(alg, Bytes(key, "sign"), IsSeed(key)) = Ok
  BY <1>1, Sequencing DEF Encode
<1>3. key.kty = "oct" <=> alg \in Hmac
  <2>1. \A a \in Ecdsa : Curve[a] # "oct"
    BY DEF Curve, Ecdsa
  <2>2. CASE alg \in Hmac
    BY <1>1, <2>2 DEF KindFor
  <2>3. CASE alg \notin Hmac
    BY <1>1, <2>1, <2>3 DEF KindFor
  <2> QED
    BY <2>2, <2>3
<1>4. alg \in Crypto
  BY <1>2 DEF Signs, Require, Ok, ??
<1>5. key.half \in IF key.kty = "oct" THEN {"secret", "public"} ELSE {"private", "public"}
  BY DEF IsEncodeRequest, IsKey
<1>6. key.form \in {"ssh", "badssh"} => FALSE
  BY <1>1 DEF IsEncodeRequest, IsKey
<1>7. CASE ByJwk(req)
  <2>1. key.form = "jwk" /\ JwkBytes(key) = Ok
    BY <1>2, <1>7 DEF ByJwk, SigningKey
  <2> QED
    BY <1>1, <1>3, <1>4, <1>5, <2>1 DEF LooksPublic
<1>8. CASE ~ByJwk(req)
  <2> DEFINE enforce == req.entry = "jws" /\ req.enforce
  <2>1. KeyLoads(key, alg, enforce) = Ok
    BY <1>1, <1>2, <1>8 DEF SigningKey, JwkAlg
  <2> HIDE DEF enforce
  <2>2. key.form \notin {"absent", "other"}
    BY <1>1, <2>1 DEF KeyLoads, Ok
  <2>3. key.form = "jwk" => JwkBytes(key) = Ok
    BY <2>1, Sequencing DEF KeyLoads
  <2>4. key.form = "pem" => alg \notin Hmac
    BY <1>1, <2>1 DEF KeyLoads, RawKey, LooksPublic, Require, Ok, ??
  <2> QED
    BY <1>1, <1>3, <1>4, <1>5, <1>6, <2>2, <2>3, <2>4 DEF LooksPublic
<1> QED
  BY <1>7, <1>8

(* The verifier's half of a key opens what its other half closed.          *)
LEMMA PeerBytes ==
  ASSUME NEW key, NEW alg, IsKey(key),
         alg \notin Hmac => key.half = "private", alg \in Hmac => key.half = "secret"
  PROVE  /\ Peer(key).form = key.form /\ Peer(key).kty = key.kty /\ Peer(key).alg = key.alg
         /\ Bytes(Peer(key), "verify")
              = IF alg \in Hmac THEN Bytes(key, "sign")
                ELSE [Bytes(key, "sign") EXCEPT !.half = IF @ = "private" THEN "public"
                                                         ELSE "reseeded"]
         /\ alg \notin Hmac => Bytes(Peer(key), "verify").half = "public"
         /\ Bytes(Peer(key), "verify").kty = key.kty
         /\ key.form = "jwk" => Peer(key) = key
<1>1. Bytes(key, "sign") = [kty |-> key.kty, of |-> key.of, half |-> key.half]
  BY DEF Bytes
<1>2. Bytes(Peer(key), "verify")
        = [kty |-> key.kty, of |-> key.of,
           half |-> IF key.half = "private" THEN "public" ELSE key.half]
  BY DEF Bytes, Peer, IsKey
<1>3. /\ Peer(key).form = key.form /\ Peer(key).kty = key.kty /\ Peer(key).alg = key.alg
      /\ key.form = "jwk" => Peer(key) = key
  BY DEF Peer, IsKey
<1> QED
  BY <1>1, <1>2, <1>3

(* The answer to a token that was signed is one the policy can judge, and  *)
(* all it can find against it is in the claims.                            *)
LEMMA AnswerIsRequest ==
  ASSUME NEW req, NEW entry
  PROVE  IsRequest(Answer(req, entry))
<1>1. IsCompact(Encoded(req))
  BY DEF Encoded, Token, Prepared, Header, IsCompact
<1>2. IsExpectation(Anything)
  BY DEF IsExpectation, Anything
<1> QED
  BY <1>1, <1>2 DEF Answer, IsRequest, Expect

LEMMA AnswerPresents ==
  ASSUME NEW req, NEW entry, req.payload.kind \in {"claims", "text"}
  PROVE  /\ Presented(Answer(req, entry)).parts = 3
         /\ Presented(Answer(req, entry)).header = Prepared(req)
         /\ Presented(Answer(req, entry)).payload = req.payload
         /\ Presented(Answer(req, entry)).sig = Encoded(req).sig
         /\ Prepared(req).b64 = "false" => Answer(req, entry).content # NoPayload
<1> DEFINE a == Answer(req, entry)
           detach == Prepared(req).b64 = "false" /\ ~ByJwk(req)
<1>1. req.payload # NoPayload
  BY DEF NoPayload
<1>2. /\ a.token = Encoded(req)
      /\ a.content = IF Prepared(req).b64 = "false" THEN req.payload ELSE NoPayload
  BY DEF Answer
<1>3. /\ Encoded(req) = [parts |-> 3, header |-> Prepared(req),
                         payload |-> Encoded(req).payload, sig |-> Encoded(req).sig]
      /\ Encoded(req).payload = IF detach THEN NoPayload ELSE req.payload
  BY DEF Encoded, Token
<1> HIDE DEF a, detach
<1>4. CASE Prepared(req).b64 = "false"
  <2>1. Presented(a) = [Encoded(req) EXCEPT !.payload = req.payload]
    BY <1>1, <1>2, <1>4 DEF Presented, Attach
  <2> QED
    BY <1>1, <1>2, <1>3, <1>4, <2>1 DEF a
<1>5. CASE Prepared(req).b64 # "false"
  <2>1. Presented(a) = Encoded(req)
    BY <1>2, <1>5 DEF Presented, Attach
  <2> QED
    BY <1>3, <1>5, <2>1 DEF a, detach
<1> QED
  BY <1>4, <1>5

LEMMA AnswerTrusted ==
  ASSUME NEW req, NEW registry, IsEncodeRequest(req), Coherent(req),
         Encode(req, registry) = Ok,
         NEW entry \in {"jwt", "module", "jws"}, NEW opts, ~Enforcing(opts)
  PROVE  LET a == Answer(req, entry)
         IN  /\ Legible(a) /\ a.entry # "async" /\ ExpectationsClear(a)
             /\ ~(Peek(a.token) \in Hmac /\ LooksPublic(a.key))
             /\ Trusted(a, opts)
<1> DEFINE a     == Answer(req, entry)
           alg   == Prepared(req).alg
           key   == req.key
           token == Presented(a)
           bytes == Bytes(a.key, "verify")
<1>1. /\ alg \in Crypto /\ key.kty = KindFor(alg)
      /\ alg \notin Hmac => key.half = "private"
      /\ alg \in Hmac => key.half = "secret" /\ ~LooksPublic(key)
      /\ key.form \notin {"absent", "other"}
      /\ key.form = "jwk" => JwkBytes(key) = Ok
  BY Signing
<1>2. /\ Peer(key).form = key.form /\ Peer(key).kty = key.kty /\ Peer(key).alg = key.alg
      /\ Bytes(Peer(key), "verify")
           = IF alg \in Hmac THEN Bytes(key, "sign")
             ELSE [Bytes(key, "sign") EXCEPT !.half = IF @ = "private" THEN "public"
                                                      ELSE "reseeded"]
      /\ alg \notin Hmac => Bytes(Peer(key), "verify").half = "public"
      /\ Bytes(Peer(key), "verify").kty = key.kty
      /\ key.form = "jwk" => Peer(key) = key
  BY <1>1, PeerBytes DEF IsEncodeRequest
<1>3. /\ token.parts = 3 /\ token.header = Prepared(req) /\ token.payload = req.payload
      /\ token.sig = Encoded(req).sig
      /\ Prepared(req).b64 = "false" => a.content # NoPayload
  BY AnswerPresents DEF IsEncodeRequest
<1>4. /\ a.key = Peer(key) /\ a.algorithms = Expect({alg}) /\ a.entry = entry
      /\ a.token = Encoded(req) /\ a.audience = Anything /\ a.issuer = Anything
  BY DEF Answer
<1>5. /\ Prepared(req).kind = "object" /\ Prepared(req).plain
      /\ Encoded(req).header = Prepared(req)
  BY DEF Prepared, Header, Encoded, Token
<1>6. alg = JwkAlg(req) /\ ~IsNone(alg) /\ Prepared(req).b64 # "bad"
      /\ (key.form = "jwk" => key.alg = "" \/ SameName(key.alg, alg))
  BY DEF Coherent
<1>7. Encoded(req).sig = Signature(alg, Bytes(key, "sign"), Prepared(req), req.payload)
  BY <1>6 DEF Encoded, Token
<1>8. alg \notin {"", "nonstring"} /\ alg \in Supported
  BY <1>1 DEF Crypto, Hmac, Rsa, Ecdsa, EdDsa, Supported
<1>9. Permitted(a, alg) /\ a.algorithms.kind = "of"
  BY <1>4 DEF Permitted, Expect
<1> HIDE DEF a, alg, key, token, bytes
<1>10. Named(Prepared(req)) /\ Peek(a.token) = alg
  BY <1>4, <1>5, <1>8 DEF Named, Peek, alg
<1>11. Legible(a)
  <2>1. token.sig.kind = "sig"
    BY <1>3, <1>7 DEF Signature
  <2>2. token.payload.kind # "invalid"
    BY <1>3 DEF IsEncodeRequest
  <2> QED
    BY <1>3, <1>6, <1>10, <2>1, <2>2 DEF Legible, token
<1>12. a.entry # "async" /\ ExpectationsClear(a)
  BY <1>4 DEF ExpectationsClear, Anything
<1>13. ~(Peek(a.token) \in Hmac /\ LooksPublic(a.key))
  BY <1>1, <1>2, <1>4, <1>10 DEF LooksPublic
<1>14. token.sig = [kind |-> "sig", scheme |-> Scheme(alg), by |-> bytes,
                    header |-> token.header, payload |-> token.payload]
  BY <1>2, <1>3, <1>4, <1>7 DEF Signature, bytes
<1>15. alg \in EdDsa => bytes.kty = "OKP" /\ bytes.half = "public"
  <2>1. alg \in EdDsa => alg \notin Hmac \cup Rsa \cup Ecdsa
    BY DEF EdDsa, Hmac, Rsa, Ecdsa
  <2> QED
    BY <1>1, <1>2, <1>4, <2>1 DEF KindFor, bytes
<1>16. KeyFit(a.key, alg, Enforcing(opts))
  <2>1. CASE key.form = "jwk"
    <3>1. ~(key.kty = "oct" /\ key.half = "public")
      BY <1>1, <2>1 DEF JwkBytes, Require, Ok
    <3> QED
      BY <1>2, <1>4, <1>6, <2>1, <3>1 DEF KeyFit
  <2>2. CASE key.form # "jwk"
    BY <1>1, <1>2, <1>4, <1>8, <2>2 DEF KeyFit, LooksPublic
  <2> QED
    BY <2>1, <2>2
<1>17. token.header.alg = alg
  BY <1>3 DEF alg
<1>18. Trusted(a, opts)
  BY <1>1, <1>6, <1>9, <1>10, <1>14, <1>15, <1>16, <1>17 DEF Trusted, token, bytes
<1> QED
  BY <1>11, <1>12, <1>13, <1>18 DEF a

(* What encode signs decode accepts, unless its claims and the clock stand *)
(* against it.                                                             *)
THEOREM RoundTripAlways == Spec => []RoundTrip
<1>1. ASSUME IInv
      PROVE  RoundTrip
  <2> SUFFICES ASSUME Coherent(enc), Encode(enc, Registry) = Ok,
                      NEW entry \in {"jwt", "module", "jws"}, NEW at \in Instants
               PROVE  LET req  == Answer(enc, entry)
                          opts == Merged(req, Defaults(entry), NoOptions)
                      IN  Decode(req, opts, at) = Ok
                            <=> \/ entry = "jws"
                                \/ /\ enc.payload.kind = "claims"
                                   /\ ClaimsAcceptable(enc.payload.claims, Settings(opts),
                                                       Flags(opts), Expected(req), at)
    BY DEF RoundTrip
  <2> DEFINE req  == Answer(enc, entry)
             opts == Merged(req, Defaults(entry), NoOptions)
  <2>1. IsEncodeRequest(enc)
    BY <1>1, Shapes
  <2>2. IsRequest(req) /\ req.entry = entry /\ req.verify = Null /\ req.leeway = 0
    BY AnswerIsRequest DEF Answer
  <2>3. OptionsClear(opts) /\ ~Enforcing(opts)
    <3> HIDE DEF req
    <3>1. Usual(opts)
      BY <2>2, UsualDict
    <3> QED
      BY <3>1, UsualFacts
  <2>4. IsDict(opts)
    <3>1. IsDict(Defaults(entry)) /\ IsDict(NoOptions)
      BY DEF Defaults, IsDict, NoOptions, Bool, Arr, Null
    <3> QED
      BY <3>1, MergedTyped
  <2>5. /\ Legible(req) /\ req.entry # "async" /\ ExpectationsClear(req)
        /\ ~(Peek(req.token) \in Hmac /\ LooksPublic(req.key)) /\ Trusted(req, opts)
    BY <2>1, <2>3, AnswerTrusted
  <2>6. Presented(req).payload = enc.payload
    BY <2>1, AnswerPresents DEF IsEncodeRequest
  <2> HIDE DEF req, opts
  <2>7. Decode(req, opts, at) = Ok <=> Acceptable(req, opts, at)
    BY <2>2, <2>4, DecodeVerdictIsPolicy
  <2>8. Acceptable(req, opts, at)
          <=> \/ entry = "jws"
              \/ /\ enc.payload.kind = "claims"
                 /\ ClaimsAcceptable(enc.payload.claims, Settings(opts), Flags(opts),
                                     Expected(req), at)
    BY <2>2, <2>3, <2>5, <2>6 DEF Acceptable
  <2> QED
    BY <2>7, <2>8 DEF req, opts
<1> QED
  BY <1>1, IInvAlways, PTL
=============================================================================
