------------------------------ MODULE JwtPolicy ------------------------------
(***************************************************************************)
(* What it means for a token to be acceptable, as one condition with no    *)
(* order of evaluation, no early return and no error names.  The staged    *)
(* code of JwtClaims and JwtToken is compared with it: by TLC over the     *)
(* inputs of MCJwtClaims and MCJwtToken, and for all inputs by the         *)
(* theorems of JwtClaims_proofs.  They share what a dict, a key and a      *)
(* header say (Settings, Flags, Bytes, Peek), not what is made of it.      *)
(***************************************************************************)
EXTENDS JwtToken

(* The exceptions of decode.                                               *)
Errors == {"DecodeError", "InvalidKey", "InvalidAlgorithm", "InvalidSignature",
           "InvalidAudience", "InvalidIssuer", "InvalidSubject", "InvalidJTI",
           "InvalidIssuedAt", "ExpiredSignature", "ImmatureSignature",
           "MissingRequiredClaim", "NameError", "TypeError", "ValueError", "OverflowError"}

(* What the Rust types allow: a leeway is a u64, flags are booleans, and   *)
(* what is expected are sets of strings, the audience a finite one, for a  *)
(* strict caller counts it.                                                *)
IsSettings(val) == val \in [leeway : Nat, required : SUBSET STRING]

IsFlags(flags) == \A f \in FlagNames : flags[f] \in BOOLEAN

IsExpected(expected) ==
  /\ Has(expected, "aud") => IsFiniteSet(expected.aud)
  /\ \A name \in DOMAIN expected : \A v \in expected[name] : IsString(v)

(* The same of a whole call: a token has segments, its header is a JSON     *)
(* object or unreadable, and what a dict holds as a flag is a boolean.     *)
IsHeader(header) ==
  /\ header = [kind |-> header.kind, plain |-> header.plain, alg |-> header.alg, b64 |-> header.b64]
  /\ header.kind \in {"object", "invalid"}

IsCompact(token) ==
  /\ token = [parts |-> token.parts, header |-> token.header, payload |-> token.payload,
              sig |-> token.sig]
  /\ token.header.kind \in {"object", "invalid"}

IsDict(opts) ==
  \A name \in DOMAIN opts : opts[name].type = "bool" => opts[name].is \in BOOLEAN

IsExpectation(e) == e.kind = "of" => IsFiniteSet(e.vals) /\ \A v \in e.vals : IsString(v)

IsRequest(req) ==
  /\ IsCompact(req.token) /\ req.algorithms.kind \in {"any", "of"}
  /\ IsExpectation(req.audience) /\ IsExpectation(req.issuer) /\ IsExpectation(req.subject)

(* The instants of a claim set that hold at `now`, give or take `slack`.   *)
InWindow(claims, flags, slack, now) ==
  /\ flags.exp /\ Has(claims, "exp") => ~Earlier(claims["exp"], now - slack)
  /\ flags.nbf /\ Has(claims, "nbf") => ~Later(claims["nbf"], now + slack)
  /\ flags.iat /\ Has(claims, "iat") => ~Later(claims["iat"], now + slack)

WellTyped(claims) ==
  /\ \A name \in DateClaims : Has(claims, name) => IsDate(claims[name])
  /\ Has(claims, "jti") => IsString(claims["jti"])

AudienceMatches(claims, auds, strict) ==
  /\ Has(claims, "aud")
  /\ IF strict THEN auds = {claims["aud"]}
     ELSE LET members == IF claims["aud"].type = "arr" THEN claims["aud"].vals
                                                       ELSE {claims["aud"]}
          IN  members \cap auds # {} /\ \A v \in members : IsString(v)

(* The audience, issuer and subject, where the call checks them.           *)
IsForCaller(claims, flags, expected) ==
  /\ flags.iss => IF Has(expected, "iss")
                  THEN Has(claims, "iss") /\ claims["iss"] \in expected.iss
                  ELSE Has(claims, "iss") => IsString(claims["iss"])
  /\ flags.sub => IF Has(expected, "sub")
                  THEN Has(claims, "sub") /\ claims["sub"] \in expected.sub
                  ELSE Has(claims, "sub") => IsString(claims["sub"])
  /\ flags.aud => IF Has(expected, "aud")
                  THEN AudienceMatches(claims, expected.aud, flags.strict)
                  ELSE Has(claims, "aud") => ~Truthy(claims["aud"])

ClaimsAcceptable(claims, val, flags, expected, now) ==
  /\ WellTyped(claims)
  /\ val.required \subseteq DOMAIN claims
  /\ InWindow(claims, flags, Leeway(val), now)
  /\ IsForCaller(claims, flags, expected)

(***************************************************************************)
(* A whole token.                                                          *)
(***************************************************************************)
Presented(req) == Attach(req.token, req.content)

(* The options are of the types that the Rust side wants.                  *)
OptionsClear(opts) ==
  /\ \A name \in DOMAIN opts : name \in Names => opts[name].type = "bool"
  /\ "leeway" \in DOMAIN opts => opts["leeway"].at >= 0

ExpectationsClear(req) ==
  {req.audience.kind, req.issuer.kind} \cap {"bytes", "other"} = {}

(* The caller names the algorithms; who names none gets HS256 alone.       *)
Permitted(req, alg) ==
  \/ req.algorithms.kind = "of" /\ alg \in req.algorithms.vals
  \/ req.algorithms.kind = "any" /\ alg = "HS256"

(* A key that can be used under the name of an algorithm, which its JWK    *)
(* does not contradict, and which suits its length and its looks.          *)
KeyFit(key, alg, enforce) ==
  \/ /\ key.form = "jwk" /\ ~(key.kty = "oct" /\ key.half = "public")
     /\ key.alg # "" => SameName(key.alg, alg)
  \/ key.form = "ssh"
  \/ /\ key.form \notin {"jwk", "other", "absent"} /\ alg \in Supported
     /\ alg \in Hmac => ~LooksPublic(key) /\ ~(enforce /\ key.len < MinLength[alg])

(* The signature is the one this key makes over this content, under an     *)
(* algorithm the caller allows.                                            *)
Trusted(req, opts) ==
  LET token == Presented(req)
      bytes == Bytes(req.key, "verify")
  IN  /\ token.header.alg \in Crypto /\ Permitted(req, token.header.alg)
      /\ token.sig = [kind |-> "sig", scheme |-> Scheme(token.header.alg), by |-> bytes,
                      header |-> token.header, payload |-> token.payload]
      /\ token.header.alg \in EdDsa => bytes.kty = "OKP" /\ bytes.half = "public"
      /\ req.key.form # "jwk" => req.algorithms.kind = "of"
      /\ ~IsNone(Peek(req.token)) /\ KeyFit(req.key, Peek(req.token), Enforcing(opts))

Legible(req) ==
  LET token == Presented(req)
  IN  /\ token.parts = 3
      /\ Named(token.header) /\ token.header.b64 # "bad"
      /\ token.header.b64 = "false" => req.content # NoPayload
      /\ token.payload.kind # "invalid" /\ token.sig.kind # "invalid"

Acceptable(req, opts, now) ==
  /\ Legible(req) /\ req.entry # "async"
  /\ ~(Peek(req.token) \in Hmac /\ LooksPublic(req.key))
  /\ OptionsClear(opts) /\ ExpectationsClear(req)
  /\ Verifying(opts) => Trusted(req, opts)
  /\ req.entry # "jws" =>
       /\ Presented(req).payload.kind = "claims"
       /\ ClaimsAcceptable(Presented(req).payload.claims, Settings(opts), Flags(opts),
                           Expected(req), now)
=============================================================================
