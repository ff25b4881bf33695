----------------------------- MODULE JwtClaims -----------------------------
(***************************************************************************)
(* The registered-claim checks of jwt.rs: validate_claims and what it      *)
(* calls.  A verdict is Ok or the name of the error the function returns;  *)
(* the checks run in the order of the code and the first error is the      *)
(* verdict, which is what Rust's `?` and its early returns do.             *)
(*                                                                         *)
(* A JSON value is a record tagged by its JSON type.  Numbers carry an     *)
(* instant counted in ticks, Resolution of them to a second, because dates *)
(* are floating-point seconds while a leeway is a whole number of them.    *)
(* A string that parses as a number or as an RFC 3339 date is a "datestr", *)
(* and "nan" is the string that parses as the float NaN.                   *)
(***************************************************************************)
EXTENDS Integers, FiniteSets, Verdict

CONSTANT Resolution   \* ticks per second

ASSUME ResolutionAssumption == Resolution \in Nat \ {0}

(***************************************************************************)
(* JSON values and claim sets.                                             *)
(***************************************************************************)
Null       == [type |-> "null"]
Bool(b)    == [type |-> "bool", is |-> b]
Num(n)     == [type |-> "num", at |-> n]
DateStr(n) == [type |-> "datestr", at |-> n]
NaNStr     == [type |-> "nan"]
Str(s)     == [type |-> "str", val |-> s]
Arr(vs)    == [type |-> "arr", vals |-> vs]    \* the set of its members
Object     == [type |-> "obj"]

(* A claim set is a function from the names it has to their JSON values.   *)
Has(claims, name) == name \in DOMAIN claims

IsString(v) == v.type \in {"str", "datestr", "nan"}

(* get_numeric_date(v).is_some(): a number, or a string that parses.       *)
IsDate(v) == v.type \in {"num", "datestr", "nan"}

(* What the Rust types allow: instants are numbers.                        *)
IsClaimSet(claims) ==
  \A name \in DOMAIN claims : claims[name].type \in {"num", "datestr"} => claims[name].at \in Int

(* Float comparisons; every comparison with NaN is false.                  *)
Earlier(v, instant) == v.type # "nan" /\ v.at < instant
Later(v, instant)   == v.type # "nan" /\ v.at > instant

(***************************************************************************)
(* Inputs of validate_claims.  `val` is the Validation struct, `flags` the *)
(* seven booleans, and `expected` has a field for each of aud, iss and sub *)
(* the caller gave: the set of values it accepts.                          *)
(***************************************************************************)
FlagNames == {"iat", "exp", "nbf", "aud", "iss", "sub", "strict"}

Leeway(val) == val.leeway * Resolution

DateClaims == {"exp", "iat", "nbf"}

NumericClaims(claims) ==
  LET fine(name) == Has(claims, name) => IsDate(claims[name])
  IN     Require(fine("exp"), "DecodeError")
      ?? Require(fine("iat"), "InvalidIssuedAt")
      ?? Require(fine("nbf"), "DecodeError")

(* Mutant: the comparison the wrong way round.                             *)
Expiration_Swapped(claims, val, flags, now) ==
  Require(flags.exp /\ Has(claims, "exp") => ~Later(claims["exp"], now - Leeway(val)),
          "ExpiredSignature")

Expiration(claims, val, flags, now) ==
  IF flags.exp
  THEN IF Has(claims, "exp")
       THEN Require(~Earlier(claims["exp"], now - Leeway(val)), "ExpiredSignature")
       ELSE Require("exp" \notin val.required, "MissingRequiredClaim")
  ELSE Ok

(* Mutant: the comparison the wrong way round.                             *)
NotBefore_Swapped(claims, val, flags, now) ==
  Require(flags.nbf /\ Has(claims, "nbf") => ~Earlier(claims["nbf"], now + Leeway(val)),
          "ImmatureSignature")

NotBefore(claims, val, flags, now) ==
  Require(flags.nbf /\ Has(claims, "nbf") => ~Later(claims["nbf"], now + Leeway(val)),
          "ImmatureSignature")

Issuer(claims, val, flags, expected) ==
  LET given == Has(expected, "iss")
  IN  IF flags.iss
      THEN    Require(Has(claims, "iss") \/ (~given /\ "iss" \notin val.required),
                      "MissingRequiredClaim")
           ?? Require(Has(claims, "iss") =>
                        IF given THEN claims["iss"] \in expected.iss
                                 ELSE IsString(claims["iss"]), "InvalidIssuer")
      ELSE Ok

(* Mutant: the members that are no strings are skipped.                    *)
Audience_SkipsOthers(claims, auds, strict) ==
  LET members == IF Has(claims, "aud") /\ claims["aud"].type = "arr"
                 THEN claims["aud"].vals ELSE {claims[n] : n \in {"aud"} \cap DOMAIN claims}
  IN     Require(strict => Cardinality(auds) = 1, "InvalidAudience")
      ?? Require(members # {}, "MissingRequiredClaim")
      ?? Require(members \cap auds # {}, "InvalidAudience")

(* validate_audience: the token's audience against the expected set.       *)
Audience(claims, auds, strict) ==
  LET present == Has(claims, "aud") /\ claims["aud"] # Null
      members == IF claims["aud"].type = "arr" THEN claims["aud"].vals
                                               ELSE {claims["aud"]}
  IN     Require(strict => Cardinality(auds) = 1, "InvalidAudience")
      ?? Require(present, "MissingRequiredClaim")
      ?? Require(IF strict THEN claims["aud"] \in auds
                 ELSE (\A v \in members : IsString(v)) /\ members \cap auds # {},
                 "InvalidAudience")

(* Whether an audience nobody asked for counts as one.                     *)
Truthy(v) ==
  v \notin {Null, Bool(FALSE), Str(""), Arr({})}

AudienceCheck(claims, val, flags, expected) ==
  IF flags.aud
  THEN IF Has(expected, "aud") THEN Audience(claims, expected.aud, flags.strict)
       ELSE IF Has(claims, "aud") THEN Require(~Truthy(claims["aud"]), "InvalidAudience")
       ELSE Require("aud" \notin val.required, "MissingRequiredClaim")
  ELSE Ok

Subject(claims, flags, expected) ==
  Require(flags.sub => IF Has(expected, "sub")
                       THEN Has(claims, "sub") /\ claims["sub"] \in expected.sub
                       ELSE Has(claims, "sub") => IsString(claims["sub"]),
          "InvalidSubject")

(* Mutant: a failed downcast that nobody turns into a claim error.         *)
Jti_Raw(claims) == Require(Has(claims, "jti") => IsString(claims["jti"]), "TypeError")

Jti(claims) ==
  Require(Has(claims, "jti") => IsString(claims["jti"]), "InvalidJTI")

(* Mutant: the leeway taken off where it belongs on.                       *)
IssuedAt_LeewayOff(claims, val, flags, now) ==
  Require(flags.iat /\ Has(claims, "iat") => ~Later(claims["iat"], now - Leeway(val)),
          "ImmatureSignature")

IssuedAt(claims, val, flags, now) ==
  Require(flags.iat /\ Has(claims, "iat") => ~Later(claims["iat"], now + Leeway(val)),
          "ImmatureSignature")

Required(claims, val) ==
  Require(val.required \subseteq DOMAIN claims, "MissingRequiredClaim")

(* The whole of validate_claims, its clock read once, at `now`.            *)
ValidateClaims(claims, val, flags, expected, now) ==
     NumericClaims(claims)
  ?? Expiration(claims, val, flags, now)
  ?? NotBefore(claims, val, flags, now)
  ?? Issuer(claims, val, flags, expected)
  ?? AudienceCheck(claims, val, flags, expected)
  ?? Subject(claims, flags, expected)
  ?? Jti(claims)
  ?? IssuedAt(claims, val, flags, now)
  ?? Required(claims, val)
=============================================================================
