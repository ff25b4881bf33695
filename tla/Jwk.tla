-------------------------------- MODULE Jwk --------------------------------
(***************************************************************************)
(* JSON Web Keys and key sets: what normalisation admits (jwk.rs), which   *)
(* bytes a key hands out to sign and to verify, and the PyJWK and PyJWKSet *)
(* objects around them (pyjwt_jwk_api.rs).                                 *)
(*                                                                         *)
(* A JWK is a record: `kty` and `crv` ("" if absent), `has`, the key       *)
(* members it has, `bad`, those of them whose text does not decode (or, in *)
(* an EC key, decodes to the wrong length), its alg, use and kid ("" if    *)
(* absent), `of`, the secret or the key pair its members are from, and     *)
(* `len`, the length of its k or, in an OKP key, of its d and x: they are  *)
(* handed out as they are; what other keys hand out is longer (0).         *)
(***************************************************************************)
EXTENDS JwtToken, SequencesExt

NistCurves == {"P-256", "P-384", "P-521"}
EcCurves   == NistCurves \cup {"secp256k1"}

(* The members that make a private RSA key fast to use.                    *)
Crt     == {"p", "q", "dp", "dq", "qi"}
Private == {"d", "k", "oth"} \cup Crt

JwkOf(kty, crv, has, of) ==
  [kty |-> kty, crv |-> crv, has |-> has, bad |-> {}, alg |-> "", use |-> "",
   kid |-> "", of |-> of, len |-> IF crv \in {"Ed25519", "X25519"} THEN 32 ELSE 0]

Readable(jwk, members) == members \subseteq jwk.has \ jwk.bad

(***************************************************************************)
(* normalize: a JWK is taken as it is, and gets the name of an algorithm.  *)
(***************************************************************************)
EcAlg == [c \in EcCurves |-> CHOOSE a \in Ecdsa : Curve[a] = c]

(* validate_ec_coordinates                                                 *)
CoordinatesFit(jwk) ==
  Require(jwk.kty = "EC" /\ jwk.crv \in EcCurves => jwk.bad \cap {"x", "y", "d"} = {},
          "InvalidKey")

(* deduce_algorithm: whether it knows the key, and what it makes of it.    *)
Deducible(jwk) ==
  Require(\/ jwk.kty \in {"RSA", "oct"}
          \/ jwk.kty = "EC" /\ jwk.crv \in EcCurves \cup {"P-192"}
          \/ jwk.kty = "OKP" /\ jwk.crv \in {"Ed25519", "Ed448"}, "InvalidKey")

Deduced(jwk) ==
  IF jwk.kty = "EC" /\ jwk.crv \in EcCurves THEN EcAlg[jwk.crv]
  ELSE IF jwk.kty = "oct" THEN "HS256"
  ELSE IF jwk.kty = "OKP" THEN "EdDSA"
  ELSE ""

Normalizes(jwk, hint) ==
     Require(jwk.kty # "", "InvalidKey")
  ?? CoordinatesFit(jwk)
  ?? (IF hint # "" \/ jwk.alg # "" THEN Ok ELSE Deducible(jwk))

(* The PyJWK of a JWK that normalises.                                     *)
PyJwk(jwk, hint) ==
  [form |-> "jwk", jwk |-> jwk,
   alg |-> IF hint # "" THEN hint ELSE IF jwk.alg # "" THEN jwk.alg ELSE Deduced(jwk)]

(* The getter algorithm_name: what Python code sees.                       *)
AlgorithmName(key) == IF key.alg = "" /\ key.jwk.kty = "RSA" THEN "RS256" ELSE key.alg

(***************************************************************************)
(* extract_key_bytes: the half of the pair a JWK hands out, as JwtToken    *)
(* names bytes, and whether it can.                                        *)
(***************************************************************************)
TakesPrivate(jwk, publicOnly) == ~publicOnly /\ "d" \in jwk.has

(* The members that are read: a private RSA key with a p wants them all,   *)
(* and without one recovers the primes.                                    *)
RsaMembers(jwk, private) ==
  {"n", "e"} \cup (IF private THEN {"d"} ELSE {})
             \cup (IF private /\ "p" \in jwk.has THEN Crt ELSE {})

Extracts(jwk, publicOnly) ==
  LET private == TakesPrivate(jwk, publicOnly)
  IN  Require(
        \/ jwk.kty = "oct" /\ Readable(jwk, {"k"})
        \/ jwk.kty = "OKP" /\ Readable(jwk, IF private THEN {"d"} ELSE {"x"})
        \/ jwk.kty = "RSA" /\ Readable(jwk, RsaMembers(jwk, private))
        \/ /\ jwk.kty = "EC"
           /\ IF private THEN Readable(jwk, {"d"}) /\ jwk.crv \in EcCurves
              ELSE Readable(jwk, {"x", "y"}), "ValueError")

(* An elliptic curve stands for its keys; Ed25519 alone is JwtToken's OKP. *)
KeyKind(jwk) ==
  IF jwk.kty = "EC" \/ (jwk.kty = "OKP" /\ jwk.crv # "Ed25519") THEN jwk.crv ELSE jwk.kty

KeyBytes(jwk, publicOnly) ==
  [kty |-> KeyKind(jwk), of |-> jwk.of,
   half |-> IF jwk.kty = "oct" THEN "secret"
            ELSE IF TakesPrivate(jwk, publicOnly) THEN "private" ELSE "public"]

(* A PyJWK as JwtToken holds it, for one use; a key that cannot hand out   *)
(* its bytes is to JwtToken what an oct key without its k is.              *)
Held(key, publicOnly) ==
  LET bytes == IF Extracts(key.jwk, publicOnly) = Ok THEN KeyBytes(key.jwk, publicOnly)
               ELSE [kty |-> "oct", of |-> key.jwk.of, half |-> "public"]
  IN  [form |-> "jwk", kty |-> bytes.kty, of |-> bytes.of, half |-> bytes.half,
       alg |-> key.alg, len |-> key.jwk.len]

(***************************************************************************)
(* raw_sign and raw_verify with a PyJWK, as the handlers of webtoken.py    *)
(* call them.                                                              *)
(***************************************************************************)
(* get_key_bytes *)
JwkLoads(key, alg, publicOnly) == JwkAlgorithm(key, alg) ?? Extracts(key.jwk, publicOnly)

(* perform_signature_jwk and perform_verification_jwk                      *)
OfCurve(key, alg) ==
  IF alg = "ES256" /\ key.jwk.crv = "secp256k1" THEN "ES256K" ELSE alg

SignsRaw(key, alg) ==
  JwkLoads(key, alg, FALSE)
    ?? Signs(OfCurve(key, alg), KeyBytes(key.jwk, FALSE), key.jwk.len = 32)

RawSignature(key, alg, message) ==
  Signature(OfCurve(key, alg), KeyBytes(key.jwk, FALSE), "", message)

(* A signature that does not match is the answer False, any other error is *)
(* raised.                                                                 *)
VerifiesRaw(key, alg, message, sig) ==
     JwkLoads(key, alg, TRUE)
  ?? Verifies(OfCurve(key, alg), KeyBytes(key.jwk, TRUE), "", message, sig)

(***************************************************************************)
(* PyJWK.                                                                  *)
(***************************************************************************)
(* Mutant: k is left in.                                                   *)
PublicKey_KeepsSecret(key) ==
  [key EXCEPT !.jwk.has = @ \ (Private \ {"k"}), !.jwk.bad = @ \ (Private \ {"k"})]

PublicKey(key) == [key EXCEPT !.jwk.has = @ \ Private, !.jwk.bad = @ \ Private]

(* validate_rsa_consistency                                                *)
RsaConsistent(jwk) ==
  Require(jwk.kty = "RSA" =>
            /\ {"n", "e"} \subseteq jwk.has /\ "oth" \notin jwk.has
            /\ jwk.has \cap Crt \in {{}, Crt}, "InvalidKey")

(* validate_key_properties; no curve is "".                                *)
Suits(jwk, kty, crv) ==
  Require(/\ jwk.kty = kty
          /\ crv # "" => jwk.crv = crv
          /\ kty = "EC" => jwk.crv # "" /\ {"x", "y"} \subseteq jwk.has
          /\ kty = "OKP" /\ crv = "Ed25519" =>
               Readable(jwk, {"x"}) /\ "d" \notin jwk.bad, "InvalidKey")

(***************************************************************************)
(* PyJWKSet, a sequence of PyJWKs.                                         *)
(***************************************************************************)
Usable(jwk) == jwk.use # "enc" /\ Normalizes(jwk, "") = Ok

(* Mutant: encryption keys stay in the set.                                *)
KeySet_AnyUse(jwks) ==
  LET upTo[n \in 0..Len(jwks)] ==
        IF n = 0 THEN <<>>
        ELSE IF Normalizes(jwks[n], "") = Ok THEN Append(upTo[n - 1], PyJwk(jwks[n], ""))
        ELSE upTo[n - 1]
  IN  upTo[Len(jwks)]

(* Mutant: the set ends at the first key that does not normalise.          *)
KeySet_StopsEarly(jwks) ==
  LET usable == {i \in DOMAIN jwks : \A j \in 1..i : Usable(jwks[j])}
  IN  [i \in usable |-> PyJwk(jwks[i], "")]

(* normalize_key_set: the keys are taken one by one, and those that cannot *)
(* be used are passed over.                                                *)
KeySet(jwks) ==
  LET upTo[n \in 0..Len(jwks)] ==
        IF n = 0 THEN <<>>
        ELSE IF Usable(jwks[n]) THEN Append(upTo[n - 1], PyJwk(jwks[n], ""))
        ELSE upTo[n - 1]
  IN  upTo[Len(jwks)]

(* from_values *)
KeySetLoads(jwks) == Require(KeySet(jwks) # <<>>, "PyJWKSetError")

(* PyJWKSet[kid]: the first key of that name, a JWK without one has none.  *)
HasKid(set, kid) == Require(\E i \in DOMAIN set : set[i].jwk.kid = kid, "KeyError")

ByKid(set, kid) ==
  LET named == {i \in DOMAIN set : set[i].jwk.kid = kid}
  IN  set[CHOOSE i \in named : \A j \in named : i <= j]
=============================================================================
