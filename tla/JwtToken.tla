------------------------------ MODULE JwtToken ------------------------------
(***************************************************************************)
(* One signed token, from a request to its verdict: the options merge of   *)
(* webtoken.py, the checks lib.rs makes before it leaves the interpreter   *)
(* lock, and the parse, signature and claim stages of jwt.rs.  Every       *)
(* operator here is pure; JwtService.tla runs them as steps of concurrent  *)
(* calls.                                                                  *)
(*                                                                         *)
(* Cryptography is ideal: a signature is the record of what it was made    *)
(* over, by which scheme and for which verifying key bytes, and equality   *)
(* of records is what verification decides.                                *)
(***************************************************************************)
EXTENDS JwtClaims

Names == {"verify_signature", "verify_exp", "verify_nbf", "verify_iat",
          "verify_aud", "verify_iss", "verify_sub", "strict_aud"}

(***************************************************************************)
(* Algorithms (algorithms.rs and crypto.rs).                               *)
(***************************************************************************)
Hmac      == {"HS256", "HS384", "HS512"}
Rsa       == {"RS256", "RS384", "RS512", "PS256", "PS384", "PS512"}
Ecdsa     == {"ES256", "ES384", "ES512", "ES256K"}
EdDsa     == {"EdDSA", "Ed25519"}
Crypto    == Hmac \cup Rsa \cup Ecdsa \cup EdDsa     \* crypto::sign, crypto::verify
Supported == Crypto \cup {"BLAKE2b512"}              \* is_supported_algorithm

IsNone(alg) == alg \in {"none", "None", "NONE"}

(* to_uppercase() of the two names, for the spellings the model has.       *)
SameName(a, b) == a = b \/ {a, b} \in {{"HS256", "hs256"}, {"ES256", "es256"}}

MinLength == [HS256 |-> 32, HS384 |-> 48, HS512 |-> 64]

Curve == [ES256 |-> "P-256", ES384 |-> "P-384", ES512 |-> "P-521", ES256K |-> "secp256k1"]

(***************************************************************************)
(* Keys.  `form` is how the caller holds the key: "str" is a string or     *)
(* bytes with no recognised prefix, "pem" and "ssh" have one, "badssh" has *)
(* the prefix of an SSH key and does not convert, "jwk" is a PyJWK, whose  *)
(* algorithm_name is `alg` ("" if it has none), "other" is any other       *)
(* object and "absent" is None.  `of` is the secret or the key pair,       *)
(* `half` is "secret", "private" or "public", and `len` counts the bytes   *)
(* of the text, or those that a PyJWK hands out (0 if they are DER).       *)
(***************************************************************************)
LooksPublic(key) == key.form \in {"pem", "ssh", "badssh"}

(* Mutant: the private half also where the public one is wanted.           *)
Bytes_Private(key, use) == [kty |-> key.kty, of |-> key.of, half |-> key.half]

(* A PyJWK hands out the private half to sign with, if it has it.          *)
Bytes(key, use) ==
  [kty |-> key.kty, of |-> key.of,
   half |-> IF key.form = "jwk" /\ key.half = "private" /\ use = "verify"
            THEN "public" ELSE key.half]

(* to_key_bytes fails on an oct key without its k.                         *)
JwkBytes(key) == Require(key.kty = "oct" => key.half # "public", "ValueError")

JwkAlgorithm(key, alg) ==
  Require(key.alg = "" \/ SameName(key.alg, alg),
          IF key.alg \in Ecdsa /\ alg \in Ecdsa THEN "InvalidKey" ELSE "InvalidAlgorithm")

TooShort(key, alg) == alg \in Hmac /\ key.len < MinLength[alg]

RawKey(key, alg, enforce) ==
     Require(alg \in Supported, "InvalidAlgorithm")
  ?? Require(alg \in Hmac => ~LooksPublic(key), "InvalidKey")
  ?? Require(enforce => ~TooShort(key, alg), "InvalidKey")

(* get_key_bytes: Ok, or the error it raises.                              *)
KeyLoads(key, alg, enforce) ==
  IF key.form = "jwk" THEN JwkAlgorithm(key, alg) ?? JwkBytes(key)
  ELSE IF IsNone(alg) THEN Ok
  ELSE IF key.form \in {"other", "absent"} THEN "TypeError"
  ELSE IF key.form = "ssh" THEN Ok
  ELSE RawKey(key, alg, enforce)

(***************************************************************************)
(* Signatures.                                                             *)
(***************************************************************************)
Scheme(alg) == IF alg = "Ed25519" THEN "EdDSA" ELSE alg

(* The kind of key that an algorithm is for.                               *)
KindFor(alg) ==
  IF alg \in Hmac THEN "oct" ELSE IF alg \in Rsa THEN "RSA"
  ELSE IF alg \in Ecdsa THEN Curve[alg] ELSE "OKP"

(* Ed25519 takes any 32 bytes that are no PEM for a seed, a secret and a   *)
(* public half too; anything else must be a private key in PKCS #8.        *)
IsSeed(key) ==
  \/ key.form \in {"str", "badssh", "jwk"} /\ key.len = 32
  \/ key.form \in {"str", "pem"} /\ key.kty = "OKP" /\ key.half = "private"

Fits(alg, bytes, seed) ==
  \/ alg \in Hmac                        \* any bytes are a secret
  \/ alg \in Rsa \cup Ecdsa /\ bytes.kty = KindFor(alg) /\ bytes.half = "private"
  \/ alg \in EdDsa /\ seed

NoSig == [kind |-> "empty"]

(* A signature names the bytes that verify it.  A seed that is no private  *)
(* key is that of another pair, whose public half nobody holds.            *)
Signature(alg, bytes, header, payload) ==
  [kind |-> "sig", scheme |-> Scheme(alg), header |-> header, payload |-> payload,
   by |-> IF alg \in Hmac THEN bytes
          ELSE [bytes EXCEPT !.half = IF @ = "private" THEN "public" ELSE "reseeded"]]

(* crypto::sign *)
Signs(alg, bytes, seed) ==
     Require(alg \in Crypto, "InvalidAlgorithm")
  ?? Require(Fits(alg, bytes, seed), "InvalidKey")

(* crypto::verify.  32 bytes that are no public half are InvalidKey here;  *)
(* if they happen to be a point, the code says InvalidSignature instead.   *)
Verifies(alg, bytes, header, payload, sig) ==
     Require(alg \in Crypto, "InvalidAlgorithm")
  ?? Require(alg \in EdDsa => bytes.kty = "OKP" /\ bytes.half = "public", "InvalidKey")
  ?? Require(sig = [kind |-> "sig", scheme |-> Scheme(alg), header |-> header,
                    payload |-> payload, by |-> bytes], "InvalidSignature")

(***************************************************************************)
(* Tokens.  A token has `parts` segments; its header is an "object" with   *)
(* an alg ("" if it has none, "nonstring" if that is no string) and a b64  *)
(* field, or "invalid"; `plain` says that the header is encoded as         *)
(* peek_algorithm can read it, which accepts two of the four base64        *)
(* alphabets that the parser does.  A payload is a claim set, other bytes  *)
(* ("text"), nothing at all ("empty") or not base64 ("invalid").           *)
(***************************************************************************)
Header(alg, b64) == [kind |-> "object", plain |-> TRUE, alg |-> alg, b64 |-> b64]
Claims(c)  == [kind |-> "claims", claims |-> c]
NoPayload  == [kind |-> "empty"]
Token(header, payload, sig) ==
  [parts |-> 3, header |-> header, payload |-> payload, sig |-> sig]

Named(header) == header.kind = "object" /\ header.alg \notin {"", "nonstring"}

(* Mutant: another default for a header that it cannot read.               *)
Peek_OtherDefault(token) ==
  IF Named(token.header) /\ token.header.plain THEN token.header.alg ELSE "RS256"

(* peek_algorithm, and the default of its caller.                          *)
Peek(token) ==
  IF Named(token.header) /\ token.header.plain THEN token.header.alg ELSE "HS256"

(* handle_detached_content puts the caller's content in the middle.        *)
Attach(token, content) ==
  IF content = NoPayload THEN token ELSE [token EXCEPT !.payload = content]

(***************************************************************************)
(* Options dicts: functions from some option names to JSON-like values.    *)
(***************************************************************************)
NoOptions == [name \in {} |-> Null]

Update(base, over) ==
  [name \in DOMAIN base \cup DOMAIN over |->
     IF name \in DOMAIN over THEN over[name] ELSE base[name]]

Off(opts) == Has(opts, "verify_signature") /\ opts["verify_signature"] = Bool(FALSE)

TurnOff(opts) == Update(opts, [name \in {"verify_signature"} |-> Bool(FALSE)])

(* _merge_options: what an unverified call does not mention is off.        *)
Defaulted(opts) ==
  IF Off(opts)
  THEN Update([name \in Names \ {"verify_signature", "strict_aud"} |-> Bool(FALSE)], opts)
  ELSE opts

(* The dict the Rust side receives, from the defaults of the instance as   *)
(* copied and the options of the call as read.                             *)
Merged(req, base, over) ==
  LET kw(opts) == IF req.verify = Bool(FALSE) THEN TurnOff(opts) ELSE opts
      leeway   == [name \in {"leeway"} |-> Num(req.leeway)]
  IN  IF req.entry = "jwt" THEN Update(Defaulted(kw(Update(base, over))), leeway)
      ELSE IF req.entry = "module" THEN Update(kw(over), leeway)
      ELSE Update(base, over)

(***************************************************************************)
(* decode_complete in lib.rs, up to the release of the interpreter lock:   *)
(* prepare_validation, extract_aud_iss and the guards between them.        *)
(***************************************************************************)
Given(opts, name) == IF Has(opts, name) THEN opts[name] ELSE Bool(TRUE)

Verifying(opts) == Given(opts, "verify_signature") # Bool(FALSE)

Enforcing(opts) ==
  Has(opts, "enforce_minimum_key_length") /\ opts["enforce_minimum_key_length"] = Bool(TRUE)

(* Mutant: a flag the dict does not have is off.                           *)
Flag_Off(opts, name) == Has(opts, name) /\ opts[name].is

(* A flag the dict does not have follows verify_signature.                 *)
Flag(opts, name) == IF Has(opts, name) THEN opts[name].is ELSE Verifying(opts)

Flags(opts) ==
  LET strict == Has(opts, "strict_aud") /\ opts["strict_aud"].is
  IN  [exp |-> Flag(opts, "verify_exp"), nbf |-> Flag(opts, "verify_nbf"),
       iat |-> Flag(opts, "verify_iat"), iss |-> Flag(opts, "verify_iss"),
       sub |-> Flag(opts, "verify_sub"), strict |-> strict,
       aud |-> strict \/ Flag(opts, "verify_aud")]

Settings(opts) ==
  [leeway   |-> IF Has(opts, "leeway") THEN opts["leeway"].at ELSE 0,
   required |-> IF Has(opts, "require") THEN {v.val : v \in opts["require"].vals} ELSE {}]

OptionsReadable(opts) ==
     Require(\A name \in Names \cap DOMAIN opts : opts[name].type = "bool", "TypeError")
  ?? Require(Has(opts, "leeway") => opts["leeway"].at >= 0, "OverflowError")

(* What the caller expects of aud, iss and sub: "any", a set of values     *)
(* ("of"), bytes, or some other object.                                    *)
Expect(vs) == [kind |-> "of", vals |-> vs]
Anything   == [kind |-> "any"]

ExpectationsReadable(req) ==
  LET read(e, error) == IF e.kind = "bytes" THEN error
                        ELSE Require(e.kind # "other", "TypeError")
  IN  read(req.audience, "InvalidAudience") ?? read(req.issuer, "InvalidIssuer")

Expected(req) ==
  LET all == [aud |-> req.audience, iss |-> req.issuer, sub |-> req.subject]
  IN  [name \in {n \in DOMAIN all : all[n].kind = "of"} |-> all[name].vals]

(* The body of decode_async names asyncio, which webtoken.py never imports *)
(* (and hands decode nine positional arguments, where it takes four).      *)
Callable(req) == Require(req.entry # "async", "NameError")

Detached(req) ==
  Require(req.content # NoPayload => req.token.parts = 3, "DecodeError")

AlgorithmsGiven(req, opts) ==
  Require(Verifying(opts) /\ req.key.form # "jwk" => req.algorithms.kind # "any",
          "DecodeError")

NoneRefused(req, opts) ==
  Require(Verifying(opts) => ~IsNone(Peek(req.token)), "DecodeError")

(* The code looks for the prefix "HS"; under a name that has it and is     *)
(* none of these, the key does not load either.                            *)
NotHmacWithPublicKey(req) ==
  Require(Peek(req.token) \in Hmac => ~LooksPublic(req.key), "InvalidKey")

KeyReady(req, opts) ==
  IF Verifying(opts)
  THEN    Require(req.key.form # "absent", "ValueError")
       ?? KeyLoads(req.key, Peek(req.token), Enforcing(opts))
  ELSE Ok

Prepare(req, opts) ==
     Callable(req)
  ?? Detached(req)
  ?? AlgorithmsGiven(req, opts)
  ?? NoneRefused(req, opts)
  ?? NotHmacWithPublicKey(req)
  ?? OptionsReadable(opts)
  ?? ExpectationsReadable(req)
  ?? KeyReady(req, opts)

(***************************************************************************)
(* jwt.rs decode: parse_jws, verify_signature, then the claims.            *)
(***************************************************************************)
(* Mutant: b64 = false taken without detached content.                     *)
Parse_AnyB64(token, content) ==
  Require(/\ token.parts = 3
          /\ "invalid" \notin {token.header.kind, token.payload.kind, token.sig.kind}
          /\ token.header.b64 # "bad", "DecodeError")

Parse(token, content) ==
  Require(/\ token.parts = 3
          /\ "invalid" \notin {token.header.kind, token.payload.kind, token.sig.kind}
          /\ token.header.b64 # "bad"
          /\ token.header.b64 = "false" => content # NoPayload, "DecodeError")

AlgNamed(header) ==
     Require(header.alg # "", "InvalidAlgorithm")
  ?? Require(header.alg # "nonstring", "DecodeError")

Allowed(req) == IF req.algorithms.kind = "any" THEN {"HS256"} ELSE req.algorithms.vals

(* Mutant: the algorithm of the token is not looked up in the caller's.    *)
VerifySignature_AnyAlg(token, key, allowed) ==
  Verifies(token.header.alg, Bytes(key, "verify"), token.header, token.payload, token.sig)

VerifySignature(token, key, allowed) ==
     Require(token.header.alg \in Supported \cap allowed, "InvalidAlgorithm")
  ?? Verifies(token.header.alg, Bytes(key, "verify"), token.header, token.payload, token.sig)

(* The stages that need no clock.                                          *)
Examine(req, opts) ==
  LET token == Attach(req.token, req.content)
  IN     Parse(token, req.content)
      ?? AlgNamed(token.header)
      ?? (IF Verifying(opts) THEN VerifySignature(token, req.key, Allowed(req)) ELSE Ok)

(* PyJWS takes the payload raw; the others want a claim set and check it.  *)
CheckClaims(req, opts, now) ==
  LET payload == Attach(req.token, req.content).payload
  IN  IF req.entry = "jws" THEN Ok
      ELSE    Require(payload.kind = "claims", "DecodeError")
           ?? ValidateClaims(payload.claims, Settings(opts), Flags(opts), Expected(req), now)

Decode(req, opts, now) ==
  Prepare(req, opts) ?? Examine(req, opts) ?? CheckClaims(req, opts, now)

(***************************************************************************)
(* encode: the wrappers of webtoken.py, then encode or sign of lib.rs.     *)
(* `alg` is the argument, `header` what the caller's headers dict says of  *)
(* alg and b64 ("" and "absent" if nothing), `payload` the claims or text, *)
(* `encoder` whether a json_encoder was given.                             *)
(***************************************************************************)
Prepared(req) ==   \* prepare_headers
  Header(IF req.header.alg = "" THEN req.alg ELSE req.header.alg,
         IF req.header.b64 = "true" THEN "absent" ELSE req.header.b64)

SigningAlg(req) == IF req.entry = "jws" THEN Prepared(req).alg ELSE req.alg

LongEnough(req) ==
  LET enforced == req.entry = "jwt" \/ (req.entry = "jws" /\ req.enforce)
      sized    == req.key.form \in {"str", "pem", "ssh", "badssh"}
  IN  Require(enforced /\ sized => ~TooShort(req.key, SigningAlg(req)), "InvalidKey")

(* Mutant: the lookup raises what the dict raises.                         *)
Registered_Raw(req, registry) ==
  Require(req.entry = "jws" => SigningAlg(req) \in registry, "KeyError")

Registered(req, registry) ==
  Require(req.entry = "jws" => SigningAlg(req) \in registry, "NotImplementedError")

ByJwk(req) == req.key.form = "jwk" /\ req.payload.kind = "claims" /\ ~req.encoder

(* perform_signature_jwk signs with the curve of the key.                  *)
JwkAlg(req) ==
  IF ByJwk(req) /\ SigningAlg(req) = "ES256" /\ req.key.kty = "secp256k1"
  THEN "ES256K" ELSE SigningAlg(req)

IssuerIsString(req) ==
  Require(req.payload.kind = "claims" /\ ~req.encoder /\ Has(req.payload.claims, "iss")
            => IsString(req.payload.claims["iss"]), "TypeError")

SigningKey(req) ==
  IF ByJwk(req) THEN JwkBytes(req.key)
  ELSE KeyLoads(req.key, SigningAlg(req), req.entry = "jws" /\ req.enforce)

Encode(req, registry) ==
     Registered(req, registry)
  ?? LongEnough(req)
  ?? IssuerIsString(req)
  ?? SigningKey(req)
  ?? (IF IsNone(JwkAlg(req)) /\ ~ByJwk(req) THEN Ok
      ELSE Signs(JwkAlg(req), Bytes(req.key, "sign"), IsSeed(req.key)))

Encoded(req) ==
  LET header == Prepared(req)
      detach == header.b64 = "false" /\ ~ByJwk(req)
  IN  Token(header, IF detach THEN NoPayload ELSE req.payload,
            IF IsNone(JwkAlg(req)) THEN NoSig
            ELSE Signature(JwkAlg(req), Bytes(req.key, "sign"), header, req.payload))
=============================================================================
