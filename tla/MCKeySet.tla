------------------------------ MODULE MCKeySet ------------------------------
(***************************************************************************)
(* An issuer with keys of every family in several forms, among them an EC  *)
(* key without its point, RSA keys without all of their CRT members, a JWK *)
(* that names an algorithm, and PyJWKs that do not sign as their kind      *)
(* does; and sets of two keys, one of which may be for encryption,         *)
(* malformed, or another key of the same name.                             *)
(***************************************************************************)
EXTENDS KeySetService

Text(form, kty, half, label, point) ==
  [form |-> form, kty |-> kty, of |-> "pair", half |-> half, alg |-> "", len |-> 100,
   label |-> label, point |-> point]

Secret == [form |-> "str", kty |-> "oct", of |-> "secret", half |-> "secret",
           alg |-> "", len |-> 64]

EcKey(crv, of) == JwkOf("EC", crv, {"x", "y", "d"}, of)

(* PyJWKs that sign, but not as their kind does: a public half, and a      *)
(* secret that declares another kind's algorithm, and is taken for a seed. *)
Odd ==
  {JwkOf("OKP", "Ed25519", {"x"}, "pair"),
   [JwkOf("oct", "", {"k"}, "seed") EXCEPT !.alg = "EdDSA", !.len = 32]}

MCKeys ==
  {PyJwk(jwk, "") : jwk \in Odd} \cup
  {Secret, [Secret EXCEPT !.form = "absent"], [Secret EXCEPT !.form = "other"],
   Text("pem", "P-256", "private", "EC PRIVATE KEY", TRUE),
   Text("pem", "P-256", "private", "PRIVATE KEY", FALSE),
   Text("ssh", "P-256", "public", "PUBLIC KEY", FALSE),
   Text("pem", "RSA", "private", "RSA PRIVATE KEY", FALSE),
   Text("ssh", "RSA", "public", "RSA PUBLIC KEY", FALSE),
   Text("pem", "RSA", "public", "CERTIFICATE", FALSE),
   Text("pem", "OKP", "private", "PRIVATE KEY", FALSE),
   Text("pem", "Ed448", "private", "PRIVATE KEY", FALSE)}

MCJwks ==
  {[EcKey("secp256k1", "other") EXCEPT !.alg = "ES256K"],
   [EcKey("P-384", "other") EXCEPT !.bad = {"y"}],
   JwkOf("RSA", "", {"n", "e", "d", "p", "q"}, "pair"),
   [JwkOf("oct", "", {"k"}, "secret") EXCEPT !.alg = "HS512", !.len = 64]}

Other(jwk) == [jwk EXCEPT !.kid = "k"]

MCPublished ==
  {[Other(JwkOf("EC", "P-256", {"x", "y"}, "pair")) EXCEPT !.use = "enc"],
   [Other(JwkOf("EC", "P-384", {"x", "y"}, "other")) EXCEPT !.bad = {"x"}],
   Other(JwkOf("OKP", "Ed25519", {"x"}, "stranger"))}

MCHandlers == {"HS512", "PS256", "ES256", "ES384", "EdDSA"}
MCKids     == {"k"}
MCPayload  == Claims([iss |-> Str("issuer")])
=============================================================================
