------------------------------- MODULE Paseto -------------------------------
(***************************************************************************)
(* PASETO v4 tokens: paseto_encode and paseto_decode of webtoken.py, the   *)
(* functions of lib.rs they call, and the engine of paseto.rs and          *)
(* crypto.rs below.  As in Paserk, ciphers are ideal: a body opens under   *)
(* exactly the key, footer and implicit assertion it was made with, which  *)
(* is what the pre-authentication encoding (pae) of them all is for.       *)
(***************************************************************************)
EXTENDS PasetoKey, JwtClaims

(***************************************************************************)
(* A token v4.<purpose>.<body>[.<footer>]; an empty footer is left out.    *)
(* A payload is a dict of claims or plain bytes.  `by` is the symmetric    *)
(* key, or the public key of the signer.                                   *)
(***************************************************************************)
Dict(claims) == [dict |-> TRUE, claims |-> claims]
PlainBytes   == [dict |-> FALSE, claims |-> [n \in {} |-> Null]]

Body(box, by, payload, footer, implicit) ==
  [box |-> box, by |-> by, payload |-> payload, footer |-> footer, implicit |-> implicit]

TokenText(purpose, body, footer) == [purpose |-> purpose, body |-> body, footer |-> footer]

(* Fewer than 64 bytes of body.                                            *)
Short == Body("short", <<>>, PlainBytes, "", "")

(***************************************************************************)
(* The `key` argument: a Key object, bytes or text.                        *)
(***************************************************************************)
KeyObject(key) == [as |-> "Key", purpose |-> key.purpose, doc |-> Raw(key.key_bytes, FALSE)]
KeyBytes(doc)  == [as |-> "bytes", purpose |-> "", doc |-> doc]
KeyText(doc)   == [as |-> "text", purpose |-> "", doc |-> doc]

IsRaw(doc) == doc.kind = "raw"

(* `purpose or key.purpose`; "" where there is neither.                    *)
Effective(arg, purpose) == IF purpose # "" THEN purpose ELSE arg.purpose

(***************************************************************************)
(* Encoding.  A 64-byte secret key loses its public half, but only under   *)
(* the purpose "secret"; "secret" signs as "public" does.                  *)
(***************************************************************************)
Engine(purpose) == IF purpose = "secret" THEN "public" ELSE purpose

SigningDoc(doc, purpose) ==
  IF purpose = "secret" /\ IsRaw(doc) /\ Size(doc.public) = 64
  THEN Raw(<<doc.public[1]>>, FALSE) ELSE doc

(* encrypt_v4_local and sign_v4_public: the key must come to 32 bytes.     *)
EngineKeyError(doc, expected) ==
  Require(UniversalError(doc, expected) = Ok /\ Size(Universal(doc, expected)) = 32,
          "ValueError")

EngineEncodeError(arg, purpose, nonceFits) ==
  LET doc == SigningDoc(arg.doc, purpose)
  IN  IF purpose = "local"
      THEN EngineKeyError(doc, "local") ?? Require(nonceFits, "ValueError")
      ELSE Require(Engine(purpose) = "public", "ValueError") ?? EngineKeyError(doc, "secret")

EngineEncode(arg, purpose, payload, footer, implicit) ==
  LET doc == SigningDoc(arg.doc, purpose)
  IN  IF purpose = "local"
      THEN TokenText("local", Body("local", Universal(doc, "local"), payload, footer, implicit),
                     footer)
      ELSE TokenText("public", Body("public", <<EdPublic(Universal(doc, "secret")[1])>>,
                                    payload, footer, implicit), footer)

(***************************************************************************)
(* paseto_encode of webtoken.py: guards, then the dates stamped into the   *)
(* caller's own dict, then more guards.  `serializer` is "json", "none"    *)
(* (falsy), "odd" (without dumps) or "failing" (dumps raises).             *)
(***************************************************************************)
NoExpiry == -1

GuardError(arg, payload, serializer) ==
  Require(/\ payload.dict => serializer # "none"
          /\ ~(arg.as = "Key" /\ arg.purpose = "public"), "ValueError")

(* A date that is already there stays.                                     *)
Stamped(claims, now, add_iat, exp_seconds) ==
  LET dates  == [iat |-> DateStr(now), exp |-> DateStr(now + exp_seconds * Resolution)]
      wanted == {n \in {"iat", "exp"} : IF n = "iat" THEN add_iat ELSE exp_seconds # NoExpiry}
  IN  [n \in DOMAIN claims \cup wanted |-> IF Has(claims, n) THEN claims[n] ELSE dates[n]]

EncodeError(arg, purpose, payload, serializer, nonceFits) ==
  LET effective == Effective(arg, purpose)
  IN     GuardError(arg, payload, serializer)
      ?? Require(/\ serializer \in {"json", "failing"}
                 /\ payload.dict => serializer # "failing", "ValueError")
      ?? Require(effective # "", "TypeError")
      ?? EngineEncodeError(arg, effective, nonceFits)

(***************************************************************************)
(* Decoding: lib.rs.  Without a purpose the one of a Key object counts,    *)
(* and "local" for any other key; a secret key verifies with its public    *)
(* half, which a 64-byte one has and a 32-byte one derives.                *)
(***************************************************************************)
DecodePurpose(arg, purpose) ==
  IF purpose # "" THEN purpose ELSE IF arg.as = "Key" THEN arg.purpose ELSE "local"

(* Mutant: the first half of a pair is taken for the public one.           *)
VerifyingDoc_FirstHalf(doc, purpose) ==
  IF purpose = "secret" /\ IsRaw(doc) /\ Size(doc.public) = 64 THEN Raw(<<doc.public[1]>>, FALSE)
  ELSE IF purpose = "secret" /\ IsRaw(doc) /\ Size(doc.public) = 32
       THEN Raw(<<EdPublic(doc.public[1])>>, FALSE)
  ELSE doc

VerifyingDoc(doc, purpose) ==
  IF purpose = "secret" /\ IsRaw(doc) /\ Size(doc.public) = 64 THEN Raw(<<doc.public[2]>>, FALSE)
  ELSE IF purpose = "secret" /\ IsRaw(doc) /\ Size(doc.public) = 32
       THEN Raw(<<EdPublic(doc.public[1])>>, FALSE)
  ELSE doc

(* Mutant: the footer in the token is not compared with the one signed.    *)
Opens_AnyFooter(token, engine, by, implicit) ==
  /\ token.body.box = engine /\ token.body.by = by /\ token.body.implicit = implicit

(* paseto_v4_decrypt and the signature of verify_v4_public.                *)
Opens(token, engine, by, implicit) ==
  token.body = Body(engine, by, token.body.payload, token.footer, implicit)

(* decrypt_v4_local and verify_v4_public.                                  *)
EngineDecodeError(arg, token, purpose, implicit) ==
  LET actual == DecodePurpose(arg, purpose)
      engine == Engine(actual)
      doc    == VerifyingDoc(arg.doc, actual)
  IN     Require(arg.as # "text" => IsRaw(arg.doc) /\ Size(arg.doc.public) \in {32, 64}, "Rejected")
      ?? Require(/\ engine \in {"local", "public"}
                 /\ UniversalError(doc, engine) = Ok
                 /\ engine = "local" => Size(Universal(doc, engine)) = 32
                 /\ token.purpose = engine
                 /\ token.body.box # "junk", "Rejected")
      ?? Require(token.body.box # "short", "TooShort")
      ?? Require(Opens(token, engine, Universal(doc, engine), implicit),
                 IF engine = "local" THEN "DecryptError" ELSE "Rejected")

(***************************************************************************)
(* paseto_decode of webtoken.py for one key: which exception an error of   *)
(* the engine becomes, then the deserializer ("none", "json", or "odd"     *)
(* without loads), then the claims of a dict unless validate is off.       *)
(***************************************************************************)
(* Mutant: a token that is too short is an error of its own.               *)
Mapped_Raw(error, purpose) ==
  IF error = "Rejected" THEN IF purpose = "local" THEN "DecryptError" ELSE "ValueError"
  ELSE error

Mapped(error, purpose) ==
  IF error = Ok \/ error = "DecryptError" THEN error
  ELSE IF error = "Rejected" /\ purpose = "local" THEN "DecryptError"
  ELSE "ValueError"

(* Mutant: only what the caller mentions is checked.                       *)
ClaimFlags_Mentioned(expected) == [f \in FlagNames |-> Has(expected, f)]

ClaimFlags(expected) ==
  [f \in FlagNames |-> IF f \in {"aud", "iss", "sub"} THEN Has(expected, f) ELSE f # "strict"]

ClaimsVerdict(payload, how, now) ==
  Require(payload.dict /\ how.validate =>
            ValidateClaims(payload.claims, [leeway |-> how.leeway, required |-> {}],
                           ClaimFlags(how.expected), how.expected, now) = Ok,
          "VerifyError")

DecodeOneError(arg, token, how, now) ==
  LET payload == token.body.payload
  IN     Mapped(EngineDecodeError(arg, token, how.purpose, how.implicit), how.purpose)
      ?? Require(/\ how.deserializer # "odd"
                 /\ how.deserializer = "json" => payload.dict, "ValueError")
      ?? ClaimsVerdict(payload, how, now)

(* Token(payload, footer, purpose).                                        *)
Answer(token) == [payload |-> token.body.payload, footer |-> token.footer,
                    purpose |-> token.purpose]
=============================================================================
