-------------------------- MODULE JwtClaims_proofs --------------------------
(***************************************************************************)
(* The staged claim checks of jwt.rs decide exactly the policy, for every  *)
(* claim set, every setting and every clock; and what the policy says      *)
(* about time.                                                             *)
(***************************************************************************)
EXTENDS JwtPolicy, FiniteSetTheorems, TLAPS

(***************************************************************************)
(* What each stage of validate_claims lets through.                        *)
(***************************************************************************)

(* The next stage decides only if the one before found nothing.            *)
LEMMA Sequencing ==
  ASSUME NEW x, NEW y
  PROVE  (x ?? y) = Ok <=> x = Ok /\ y = Ok
BY DEF ??, Ok

(* check_numeric_claims lets through what is a date where a date is due.   *)
LEMMA NumericStage ==
  ASSUME NEW claims
  PROVE  NumericClaims(claims) = Ok
           <=> \A name \in DateClaims : Has(claims, name) => IsDate(claims[name])
BY DEF NumericClaims, DateClaims, Ok, Require, ??

(* The expiry check also answers for exp being required.                   *)
LEMMA ExpirationStage ==
  ASSUME NEW claims, NEW val, NEW flags, NEW now, IsFlags(flags)
  PROVE  Expiration(claims, val, flags, now) = Ok
           <=> /\ flags.exp /\ Has(claims, "exp") =>
                    ~Earlier(claims["exp"], now - Leeway(val))
               /\ flags.exp /\ "exp" \in val.required => Has(claims, "exp")
BY DEF Expiration, Ok, Require, IsFlags, FlagNames

(* nbf and iat are compared with the far end of the leeway.                *)
LEMMA StartStages ==
  ASSUME NEW claims, NEW val, NEW flags, NEW now, IsFlags(flags)
  PROVE  /\ NotBefore(claims, val, flags, now) = Ok
              <=> (flags.nbf /\ Has(claims, "nbf") =>
                     ~Later(claims["nbf"], now + Leeway(val)))
         /\ IssuedAt(claims, val, flags, now) = Ok
              <=> (flags.iat /\ Has(claims, "iat") =>
                     ~Later(claims["iat"], now + Leeway(val)))
BY DEF NotBefore, IssuedAt, Ok, Require, IsFlags, FlagNames

(* The issuer, and whether one is required.                                *)
LEMMA IssuerStage ==
  ASSUME NEW claims, NEW val, NEW flags, NEW expected, IsFlags(flags)
  PROVE  Issuer(claims, val, flags, expected) = Ok
           <=> /\ flags.iss => IF Has(expected, "iss")
                               THEN Has(claims, "iss") /\ claims["iss"] \in expected.iss
                               ELSE Has(claims, "iss") => IsString(claims["iss"])
               /\ flags.iss /\ "iss" \in val.required => Has(claims, "iss")
BY DEF Issuer, Ok, Require, ??, IsFlags, FlagNames

(* The subject and the token's own identifier.                             *)
LEMMA NamingStages ==
  ASSUME NEW claims, NEW flags, NEW expected, IsFlags(flags)
  PROVE  /\ Subject(claims, flags, expected) = Ok
              <=> (flags.sub => IF Has(expected, "sub")
                                THEN Has(claims, "sub") /\ claims["sub"] \in expected.sub
                                ELSE Has(claims, "sub") => IsString(claims["sub"]))
         /\ Jti(claims) = Ok <=> (Has(claims, "jti") => IsString(claims["jti"]))
BY DEF Subject, Jti, Ok, Require, IsFlags, FlagNames

(* A finite set with one element is the set of that element.               *)
LEMMA OnlyMember ==
  ASSUME NEW S, NEW v \in S, IsFiniteSet(S)
  PROVE  Cardinality(S) = 1 <=> S = {v}
<1>1. ASSUME Cardinality(S) = 1 PROVE S = {v}
  <2>1. PICK w : S = {w}
    BY <1>1, FS_Singleton
  <2> QED
    BY <2>1
<1>2. ASSUME S = {v} PROVE Cardinality(S) = 1
  BY <1>2, FS_Singleton
<1> QED
  BY <1>1, <1>2

(* validate_audience: a strict caller's one audience is the token's; any   *)
(* other shares one with a token that has strings only.  No null is ever   *)
(* expected, so that null and absent audiences fail alike.                 *)
LEMMA AudienceStage ==
  ASSUME NEW claims, NEW auds, NEW strict \in BOOLEAN,
         IsFiniteSet(auds), \A v \in auds : IsString(v)
  PROVE  Audience(claims, auds, strict) = Ok
           <=> AudienceMatches(claims, auds, strict)
<1> DEFINE given == claims["aud"]
           members == IF given.type = "arr" THEN given.vals ELSE {given}
           shared  == (\A v \in members : IsString(v)) /\ members \cap auds # {}
<1>1. ~IsString(Null) /\ Null.type # "arr"
  BY DEF IsString, Null
<1>2. Audience(claims, auds, strict) = Ok
        <=> /\ strict => Cardinality(auds) = 1
            /\ Has(claims, "aud") /\ given # Null
            /\ IF strict THEN given \in auds ELSE shared
  BY DEF Audience, Ok, Require, ??
<1>3. CASE strict
  <2>1. AudienceMatches(claims, auds, strict) <=> Has(claims, "aud") /\ auds = {given}
    BY <1>3 DEF AudienceMatches
  <2>2. given \in auds => (Cardinality(auds) = 1 <=> auds = {given})
    BY OnlyMember
  <2> QED
    BY <1>1, <1>2, <1>3, <2>1, <2>2
<1>4. CASE ~strict
  <2>1. AudienceMatches(claims, auds, strict) <=> Has(claims, "aud") /\ shared
    BY <1>4 DEF AudienceMatches
  <2>2. given = Null => ~shared
    <3>1. SUFFICES ASSUME given = Null PROVE ~shared
      OBVIOUS
    <3>2. Null \in members
      BY <1>1, <3>1
    <3> QED
      BY <1>1, <3>2
  <2> QED
    BY <1>2, <1>4, <2>1, <2>2
<1> QED
  BY <1>3, <1>4

(* The audience of a token, whether or not the caller expects one.         *)
LEMMA AudienceCheckStage ==
  ASSUME NEW claims, NEW val, NEW flags, NEW expected,
         IsFlags(flags), IsExpected(expected)
  PROVE  AudienceCheck(claims, val, flags, expected) = Ok
           <=> /\ flags.aud => IF Has(expected, "aud")
                               THEN AudienceMatches(claims, expected.aud, flags.strict)
                               ELSE Has(claims, "aud") => ~Truthy(claims["aud"])
               /\ flags.aud /\ ~Has(expected, "aud") /\ "aud" \in val.required =>
                    Has(claims, "aud")
<1>1. Has(expected, "aud") =>
        (Audience(claims, expected.aud, flags.strict) = Ok
           <=> AudienceMatches(claims, expected.aud, flags.strict))
  <2>1. SUFFICES ASSUME Has(expected, "aud")
                 PROVE  Audience(claims, expected.aud, flags.strict) = Ok
                          <=> AudienceMatches(claims, expected.aud, flags.strict)
    OBVIOUS
  <2>2. IsFiniteSet(expected.aud) /\ \A v \in expected.aud : IsString(v)
    BY <2>1 DEF IsExpected, Has
  <2>3. flags.strict \in BOOLEAN
    BY DEF IsFlags, FlagNames
  <2> QED
    BY <2>2, <2>3, AudienceStage
<1> QED
  BY <1>1 DEF AudienceCheck, Ok, Require, IsFlags, FlagNames

(***************************************************************************)
(* The theorems.                                                           *)
(***************************************************************************)

(* The nine checks of validate_claims, with their order, their early       *)
(* returns and the claims they require on the side, let through exactly    *)
(* the claim sets that the policy calls acceptable.                        *)
THEOREM ClaimsVerdictIsPolicy ==
  ASSUME NEW claims, NEW val, NEW flags, NEW expected, NEW now,
         IsFlags(flags), IsExpected(expected)
  PROVE  ValidateClaims(claims, val, flags, expected, now) = Ok
           <=> ClaimsAcceptable(claims, val, flags, expected, now)
<1>1. ValidateClaims(claims, val, flags, expected, now) = Ok
        <=> /\ NumericClaims(claims) = Ok
            /\ Expiration(claims, val, flags, now) = Ok
            /\ NotBefore(claims, val, flags, now) = Ok
            /\ Issuer(claims, val, flags, expected) = Ok
            /\ AudienceCheck(claims, val, flags, expected) = Ok
            /\ Subject(claims, flags, expected) = Ok
            /\ Jti(claims) = Ok
            /\ IssuedAt(claims, val, flags, now) = Ok
            /\ Required(claims, val) = Ok
  BY DEF ValidateClaims, ??, Ok
<1>2. Required(claims, val) = Ok <=> \A name \in val.required : Has(claims, name)
  BY DEF Required, Require, Ok, Has
<1>3. val.required \subseteq DOMAIN claims <=> \A name \in val.required : Has(claims, name)
  BY DEF Has
<1> QED
  BY <1>1, <1>2, <1>3, NumericStage, ExpirationStage, StartStages, IssuerStage,
     NamingStages, AudienceCheckStage
     DEF ClaimsAcceptable, WellTyped, InWindow, IsForCaller

(***************************************************************************)
(* A whole token.                                                          *)
(***************************************************************************)

(* Options that prepare_validation can read give seven booleans.           *)
LEMMA FlagsTyped ==
  ASSUME NEW opts, IsDict(opts), OptionsClear(opts)
  PROVE  IsFlags(Flags(opts))
<1>1. \A name \in Names : Has(opts, name) => opts[name].is \in BOOLEAN
  BY DEF IsDict, OptionsClear, Has
<1>2. \A name \in Names : Flag(opts, name) \in BOOLEAN
  BY <1>1 DEF Flag, Verifying
<1> DEFINE strict == Has(opts, "strict_aud") /\ opts["strict_aud"].is
<1>3. strict \in BOOLEAN /\ (strict \/ Flag(opts, "verify_aud")) \in BOOLEAN
  BY <1>1, <1>2 DEF Names, Has
<1>4. /\ Flag(opts, "verify_exp") \in BOOLEAN /\ Flag(opts, "verify_nbf") \in BOOLEAN
      /\ Flag(opts, "verify_iat") \in BOOLEAN /\ Flag(opts, "verify_iss") \in BOOLEAN
      /\ Flag(opts, "verify_sub") \in BOOLEAN
  BY <1>2 DEF Names
<1> DEFINE aud == strict \/ Flag(opts, "verify_aud")
<1>5. Flags(opts) = [exp |-> Flag(opts, "verify_exp"), nbf |-> Flag(opts, "verify_nbf"),
                     iat |-> Flag(opts, "verify_iat"), iss |-> Flag(opts, "verify_iss"),
                     sub |-> Flag(opts, "verify_sub"), strict |-> strict, aud |-> aud]
  BY Zenon DEF Flags
<1> HIDE DEF strict, aud
<1>6. strict \in BOOLEAN /\ aud \in BOOLEAN
  BY <1>3 DEF strict, aud
<1> QED
  BY <1>4, <1>5, <1>6 DEF IsFlags, FlagNames

(* What extract_aud_iss makes of the expectations of a call.               *)
LEMMA ExpectedTyped ==
  ASSUME NEW req, IsRequest(req)
  PROVE  IsExpected(Expected(req))
<1> DEFINE all == [aud |-> req.audience, iss |-> req.issuer, sub |-> req.subject]
<1>1. \A name \in DOMAIN Expected(req) :
        /\ name \in {"aud", "iss", "sub"} /\ all[name].kind = "of"
        /\ Expected(req)[name] = all[name].vals
  BY DEF Expected
<1>2. \A name \in {"aud", "iss", "sub"} : IsExpectation(all[name])
  BY DEF IsRequest
<1> QED
  BY <1>1, <1>2 DEF IsExpected, IsExpectation, Has

(* What the code makes of options, expectations, algorithms and keys is    *)
(* what the policy wants of them.                                          *)
LEMMA ReadableIsClear ==
  ASSUME NEW req, NEW opts
  PROVE  /\ Callable(req) = Ok <=> req.entry # "async"
         /\ OptionsReadable(opts) = Ok <=> OptionsClear(opts)
         /\ ExpectationsReadable(req) = Ok <=> ExpectationsClear(req)
<1>1. Callable(req) = Ok <=> req.entry # "async"
  BY DEF Callable, Require, Ok
<1>2. OptionsReadable(opts) = Ok <=> OptionsClear(opts)
  BY Sequencing DEF OptionsReadable, OptionsClear, Has, Require, Ok
<1>3. ExpectationsReadable(req) = Ok <=> ExpectationsClear(req)
  BY DEF ExpectationsReadable, ExpectationsClear, Require, Ok, ??
<1> QED
  BY <1>1, <1>2, <1>3

LEMMA AllowedIsPermitted ==
  ASSUME NEW req, NEW alg, req.algorithms.kind \in {"any", "of"}
  PROVE  alg \in Allowed(req) <=> Permitted(req, alg)
BY DEF Allowed, Permitted

LEMMA LoadsIsFit ==
  ASSUME NEW key, NEW alg, NEW enforce, ~IsNone(alg)
  PROVE  key.form # "absent" /\ KeyLoads(key, alg, enforce) = Ok <=> KeyFit(key, alg, enforce)
<1>1. CASE key.form = "jwk"
  <2>1. KeyLoads(key, alg, enforce) = Ok <=> JwkAlgorithm(key, alg) = Ok /\ JwkBytes(key) = Ok
    BY <1>1, Sequencing DEF KeyLoads
  <2>2. JwkAlgorithm(key, alg) = Ok <=> (key.alg # "" => SameName(key.alg, alg))
    BY DEF JwkAlgorithm, Require, Ok
  <2>3. JwkBytes(key) = Ok <=> ~(key.kty = "oct" /\ key.half = "public")
    BY DEF JwkBytes, Require, Ok
  <2> QED
    BY <1>1, <2>1, <2>2, <2>3 DEF KeyFit
<1>2. CASE key.form \in {"ssh", "other", "absent"}
  BY <1>2 DEF KeyLoads, KeyFit, Ok
<1>3. CASE key.form \notin {"jwk", "ssh", "other", "absent"}
  <2>1. KeyLoads(key, alg, enforce) = RawKey(key, alg, enforce)
    BY <1>3 DEF KeyLoads
  <2>2. RawKey(key, alg, enforce) = Ok
          <=> /\ alg \in Supported
              /\ alg \in Hmac => ~LooksPublic(key)
              /\ enforce => ~TooShort(key, alg)
    BY Sequencing DEF RawKey, Require, Ok
  <2> QED
    BY <1>3, <2>1, <2>2 DEF KeyFit, TooShort
<1> QED
  BY <1>1, <1>2, <1>3

(* The guards that decode_complete has before it lets the lock go.         *)
LEMMA PrepareStage ==
  ASSUME NEW req, NEW opts
  PROVE  Prepare(req, opts) = Ok
           <=> /\ req.entry # "async"
               /\ req.content # NoPayload => req.token.parts = 3
               /\ Verifying(opts) /\ req.key.form # "jwk" => req.algorithms.kind # "any"
               /\ Verifying(opts) => ~IsNone(Peek(req.token))
               /\ ~(Peek(req.token) \in Hmac /\ LooksPublic(req.key))
               /\ OptionsClear(opts) /\ ExpectationsClear(req)
               /\ Verifying(opts) => KeyFit(req.key, Peek(req.token), Enforcing(opts))
<1>1. Prepare(req, opts) = Ok
        <=> /\ Callable(req) = Ok /\ Detached(req) = Ok /\ AlgorithmsGiven(req, opts) = Ok
            /\ NoneRefused(req, opts) = Ok /\ NotHmacWithPublicKey(req) = Ok
            /\ OptionsReadable(opts) = Ok /\ ExpectationsReadable(req) = Ok
            /\ KeyReady(req, opts) = Ok
  BY Sequencing DEF Prepare
<1>2. /\ Detached(req) = Ok <=> (req.content # NoPayload => req.token.parts = 3)
      /\ AlgorithmsGiven(req, opts) = Ok
           <=> (Verifying(opts) /\ req.key.form # "jwk" => req.algorithms.kind # "any")
      /\ NoneRefused(req, opts) = Ok <=> (Verifying(opts) => ~IsNone(Peek(req.token)))
      /\ NotHmacWithPublicKey(req) = Ok <=> ~(Peek(req.token) \in Hmac /\ LooksPublic(req.key))
  BY DEF Detached, AlgorithmsGiven, NoneRefused, NotHmacWithPublicKey, Require, Ok
<1>3. KeyReady(req, opts) = Ok
        <=> (Verifying(opts) => /\ req.key.form # "absent"
                                /\ KeyLoads(req.key, Peek(req.token), Enforcing(opts)) = Ok)
  BY Sequencing DEF KeyReady, Require, Ok
<1>4. ~IsNone(Peek(req.token)) =>
        (KeyFit(req.key, Peek(req.token), Enforcing(opts))
           <=> /\ req.key.form # "absent"
               /\ KeyLoads(req.key, Peek(req.token), Enforcing(opts)) = Ok)
  BY LoadsIsFit
<1> QED
  BY <1>1, <1>2, <1>3, <1>4, ReadableIsClear

(* The parse, and the signature over what was parsed.                      *)
LEMMA ExamineStage ==
  ASSUME NEW req, NEW opts
  PROVE  LET token == Presented(req)
             bytes == Bytes(req.key, "verify")
         IN  Examine(req, opts) = Ok
               <=> /\ token.parts = 3
                   /\ "invalid" \notin {token.header.kind, token.payload.kind, token.sig.kind}
                   /\ token.header.b64 # "bad"
                   /\ token.header.b64 = "false" => req.content # NoPayload
                   /\ token.header.alg \notin {"", "nonstring"}
                   /\ Verifying(opts) =>
                        /\ token.header.alg \in Crypto \cap Allowed(req)
                        /\ token.header.alg \in EdDsa => bytes.kty = "OKP" /\ bytes.half = "public"
                        /\ token.sig = [kind |-> "sig", scheme |-> Scheme(token.header.alg),
                                        header |-> token.header, payload |-> token.payload,
                                        by |-> bytes]
<1> DEFINE token == Presented(req)
           bytes == Bytes(req.key, "verify")
           verified == Verifies(token.header.alg, bytes, token.header, token.payload, token.sig)
<1>1. Examine(req, opts) = Ok
        <=> /\ Parse(token, req.content) = Ok /\ AlgNamed(token.header) = Ok
            /\ Verifying(opts) => VerifySignature(token, req.key, Allowed(req)) = Ok
  BY Sequencing DEF Examine, Presented
<1>2. Parse(token, req.content) = Ok
        <=> /\ token.parts = 3
            /\ "invalid" \notin {token.header.kind, token.payload.kind, token.sig.kind}
            /\ token.header.b64 # "bad"
            /\ token.header.b64 = "false" => req.content # NoPayload
  BY DEF Parse, Require, Ok
<1>3. AlgNamed(token.header) = Ok <=> token.header.alg \notin {"", "nonstring"}
  BY DEF AlgNamed, Require, ??, Ok
<1>4. VerifySignature(token, req.key, Allowed(req)) = Ok
        <=> token.header.alg \in Supported \cap Allowed(req) /\ verified = Ok
  BY Sequencing DEF VerifySignature, Require, Ok
<1>5. verified = Ok
        <=> /\ token.header.alg \in Crypto
            /\ token.header.alg \in EdDsa => bytes.kty = "OKP" /\ bytes.half = "public"
            /\ token.sig = [kind |-> "sig", scheme |-> Scheme(token.header.alg),
                            header |-> token.header, payload |-> token.payload, by |-> bytes]
  BY Sequencing DEF Verifies, Require, Ok
<1>6. Crypto \subseteq Supported
  BY DEF Supported
<1> QED
  BY <1>1, <1>2, <1>3, <1>4, <1>5, <1>6

(* jwt, jws and the module's own decode, with their guards on both sides   *)
(* of the lock, their parse, their signature and their claims: whatever    *)
(* the order and the early returns, they accept exactly what the policy    *)
(* calls acceptable.                                                       *)
THEOREM DecodeVerdictIsPolicy ==
  ASSUME NEW req, NEW opts, NEW now,
         IsRequest(req), IsDict(opts)
  PROVE  Decode(req, opts, now) = Ok <=> Acceptable(req, opts, now)
<1> DEFINE token == Presented(req)
<1>1. Decode(req, opts, now) = Ok
        <=> /\ Prepare(req, opts) = Ok /\ Examine(req, opts) = Ok
            /\ CheckClaims(req, opts, now) = Ok
  BY Sequencing DEF Decode
<1>2. OptionsClear(opts) =>
        (CheckClaims(req, opts, now) = Ok
           <=> (req.entry # "jws" =>
                  /\ token.payload.kind = "claims"
                  /\ ClaimsAcceptable(token.payload.claims, Settings(opts), Flags(opts),
                                      Expected(req), now)))
  <2>1. SUFFICES ASSUME OptionsClear(opts)
                 PROVE  CheckClaims(req, opts, now) = Ok
                          <=> (req.entry # "jws" =>
                                 /\ token.payload.kind = "claims"
                                 /\ ValidateClaims(token.payload.claims, Settings(opts),
                                                   Flags(opts), Expected(req), now) = Ok)
    BY FlagsTyped, ExpectedTyped, ClaimsVerdictIsPolicy
  <2> QED
    BY Sequencing DEF CheckClaims, Presented, Require, Ok
<1>3. (Verifying(opts) =>
         /\ req.key.form # "jwk" => req.algorithms.kind # "any"
         /\ ~IsNone(Peek(req.token)) /\ KeyFit(req.key, Peek(req.token), Enforcing(opts))
         /\ token.header.alg \in Crypto /\ Permitted(req, token.header.alg)
         /\ token.header.alg \in EdDsa =>
              Bytes(req.key, "verify").kty = "OKP" /\ Bytes(req.key, "verify").half = "public"
         /\ token.sig = [kind |-> "sig", scheme |-> Scheme(token.header.alg),
                         header |-> token.header, payload |-> token.payload,
                         by |-> Bytes(req.key, "verify")])
        <=> (Verifying(opts) => Trusted(req, opts))
  BY DEF Trusted, IsRequest
<1>4. token.parts = req.token.parts /\ token.header = req.token.header
  BY DEF Presented, Attach, IsRequest, IsCompact
<1>5. Legible(req)
        <=> /\ token.parts = 3
            /\ "invalid" \notin {token.header.kind, token.payload.kind, token.sig.kind}
            /\ token.header.b64 # "bad"
            /\ token.header.b64 = "false" => req.content # NoPayload
            /\ token.header.alg \notin {"", "nonstring"}
  BY <1>4 DEF Legible, Named, IsRequest, IsCompact
<1>6. req.algorithms.kind \in {"any", "of"}
  BY DEF IsRequest
<1>7. token.header.alg \in Crypto \cap Allowed(req)
        <=> token.header.alg \in Crypto /\ Permitted(req, token.header.alg)
  BY <1>6, AllowedIsPermitted
<1> HIDE DEF token
<1> QED
  BY <1>1, <1>2, <1>3, <1>4, <1>5, <1>7, PrepareStage, ExamineStage DEF Acceptable, token

(***************************************************************************)
(* Every stage ends in Ok or in an error of the library.                   *)
(***************************************************************************)
Outcomes == {Ok} \cup Errors

(* Two stages in sequence end in what one of them ends in.                 *)
LEMMA SequenceOutcome ==
  ASSUME NEW x \in Outcomes, NEW y \in Outcomes
  PROVE  (x ?? y) \in Outcomes
BY DEF ??

(* A requirement ends in Ok or in its own error.                           *)
LEMMA RequireOutcome ==
  ASSUME NEW c, NEW error \in Outcomes
  PROVE  Require(c, error) \in Outcomes
BY DEF Require, Outcomes

(* The checks of validate_claims.                                          *)
LEMMA ClaimsOutcome ==
  ASSUME NEW c, NEW v, NEW f, NEW e, NEW i
  PROVE  ValidateClaims(c, v, f, e, i) \in Outcomes
<1>1. NumericClaims(c) \in Outcomes
  BY DEF NumericClaims, Require, Ok, Outcomes, Errors, ??
<1>2. Expiration(c, v, f, i) \in Outcomes /\ NotBefore(c, v, f, i) \in Outcomes
  BY DEF Expiration, NotBefore, Require, Ok, Outcomes, Errors
<1>3. Issuer(c, v, f, e) \in Outcomes
  BY DEF Issuer, Require, Ok, Outcomes, Errors, ??
<1>4. AudienceCheck(c, v, f, e) \in Outcomes
  <2>1. \A auds, strict : Audience(c, auds, strict) \in Outcomes
    BY DEF Audience, Require, Ok, Outcomes, Errors, ??
  <2> QED
    BY <2>1 DEF AudienceCheck, Require, Ok, Outcomes, Errors
<1>5. Subject(c, f, e) \in Outcomes /\ Jti(c) \in Outcomes
  BY DEF Subject, Jti, Require, Ok, Outcomes, Errors
<1>6. IssuedAt(c, v, f, i) \in Outcomes /\ Required(c, v) \in Outcomes
  BY DEF IssuedAt, Required, Require, Ok, Outcomes, Errors
<1> QED
  BY <1>1, <1>2, <1>3, <1>4, <1>5, <1>6, SequenceOutcome DEF ValidateClaims

(* What decode_complete raises before it gives the lock away.              *)
LEMMA PrepareOutcome ==
  ASSUME NEW r, NEW o
  PROVE  Prepare(r, o) \in Outcomes
<1>1. \A k, a, enforce : KeyLoads(k, a, enforce) \in Outcomes
  BY DEF KeyLoads, JwkAlgorithm, JwkBytes, RawKey, Require, Ok, Outcomes, Errors, ??
<1>0. Callable(r) \in Outcomes
  BY DEF Callable, Require, Ok, Outcomes, Errors
<1>2. Detached(r) \in Outcomes /\ AlgorithmsGiven(r, o) \in Outcomes
  BY DEF Detached, AlgorithmsGiven, Require, Ok, Outcomes, Errors
<1>3. NoneRefused(r, o) \in Outcomes /\ NotHmacWithPublicKey(r) \in Outcomes
  BY DEF NoneRefused, NotHmacWithPublicKey, Require, Ok, Outcomes, Errors
<1>4. OptionsReadable(o) \in Outcomes
  BY DEF OptionsReadable, Require, Ok, Outcomes, Errors, ??
<1>5. ExpectationsReadable(r) \in Outcomes
  BY DEF ExpectationsReadable, Require, Ok, Outcomes, Errors, ??
<1>6. KeyReady(r, o) \in Outcomes
  BY <1>1 DEF KeyReady, Require, Ok, Outcomes, Errors, ??
<1> QED
  BY <1>0, <1>2, <1>3, <1>4, <1>5, <1>6, SequenceOutcome DEF Prepare

(* What the parse and the signature check raise.                           *)
LEMMA ExamineOutcome ==
  ASSUME NEW r, NEW o
  PROVE  Examine(r, o) \in Outcomes
<1>1. \A t, c : Parse(t, c) \in Outcomes
  BY DEF Parse, Require, Ok, Outcomes, Errors
<1>2. \A h : AlgNamed(h) \in Outcomes
  BY DEF AlgNamed, Require, Ok, Outcomes, Errors, ??
<1>3. \A a, b, h, p, s : Verifies(a, b, h, p, s) \in Outcomes
  BY DEF Verifies, Require, Ok, Outcomes, Errors, ??
<1>4. \A t, k, a : VerifySignature(t, k, a) \in Outcomes
  BY <1>3 DEF VerifySignature, Require, Ok, Outcomes, Errors, ??
<1>5. Ok \in Outcomes
  BY DEF Outcomes
<1> QED
  BY <1>1, <1>2, <1>4, <1>5, SequenceOutcome DEF Examine

(* What the claim stage raises.                                            *)
LEMMA CheckOutcome ==
  ASSUME NEW r, NEW o, NEW i
  PROVE  CheckClaims(r, o, i) \in Outcomes
BY ClaimsOutcome DEF CheckClaims, Require, Ok, Outcomes, Errors, ??

(* What is put together from dicts is a dict.                              *)
LEMMA MergedTyped ==
  ASSUME NEW r, NEW base, NEW over, IsDict(base), IsDict(over)
  PROVE  IsDict(Merged(r, base, over))
<1>1. \A a, b : IsDict(a) /\ IsDict(b) => IsDict(Update(a, b))
  BY DEF IsDict, Update
<1>2. \A S : IsDict([name \in S |-> Bool(FALSE)])
  BY DEF IsDict, Bool
<1>3. IsDict([name \in {"leeway"} |-> Num(r.leeway)])
  BY DEF IsDict, Num
<1>4. \A o : IsDict(o) => IsDict(TurnOff(o)) /\ IsDict(Defaulted(o))
  BY <1>1, <1>2 DEF TurnOff, Defaulted
<1> QED
  BY <1>1, <1>3, <1>4 DEF Merged
=============================================================================
