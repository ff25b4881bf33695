--------------------------- MODULE JwkAlgorithms ---------------------------
(***************************************************************************)
(* The handlers of webtoken.py that PyJWT programs hold (HMACAlgorithm,    *)
(* RSAAlgorithm, ECAlgorithm, OKPAlgorithm): how they take a key in each   *)
(* of its forms, sign and verify with it, and turn it into a JWK and back; *)
(* and the reading of PEM and SSH texts into JWKs (key_utils.rs).          *)
(*                                                                         *)
(* A key text is a key of JwtToken's form "pem" or "ssh" that also has a   *)
(* `label`, the words after BEGIN, and `point`: whether a private EC key   *)
(* carries its public point.  "Ed448" is a kty of its own.                 *)
(***************************************************************************)
EXTENDS Jwk

(***************************************************************************)
(* pem_to_jwk.  The parsers are tried in turn, so that the label only      *)
(* tells public from private.                                              *)
(***************************************************************************)
PublicLabels  == {"PUBLIC KEY", "RSA PUBLIC KEY"}
PrivateLabels == {"PRIVATE KEY", "RSA PRIVATE KEY", "EC PRIVATE KEY"}

Labelled(text) ==
  text.label \in IF text.half = "private" THEN PrivateLabels ELSE PublicLabels

(* ssh_to_pem knows three kinds of public keys.                            *)
Converts(text) ==
  text.form = "ssh" => text.half = "public" /\ text.kty \in {"RSA", "OKP"} \cup NistCurves

Parses(text) ==
  Require(/\ text.form \in {"pem", "ssh"} /\ Converts(text) /\ Labelled(text)
          /\ text.kty \in {"RSA", "OKP", "Ed448", "P-192"} \cup EcCurves, "InvalidKey")

(* The public half of a private key is the point the text carries, or      *)
(* derived from the seed of an Ed25519 key, or absent.                     *)
Members(text) ==
  LET private == text.half = "private"
  IN  IF text.kty = "RSA" THEN {"n", "e"} \cup (IF private THEN {"d"} \cup Crt ELSE {})
      ELSE IF text.kty = "OKP" THEN {"x"} \cup (IF private THEN {"d"} ELSE {})
      ELSE IF text.kty = "Ed448" THEN IF private THEN {"d"} ELSE {"x"}
      ELSE (IF private THEN {"d"} ELSE {}) \cup (IF ~private \/ text.point THEN {"x", "y"} ELSE {})

Parsed(text) ==
  IF text.kty = "RSA" THEN JwkOf("RSA", "", Members(text), text.of)
  ELSE IF text.kty = "OKP" THEN JwkOf("OKP", "Ed25519", Members(text), text.of)
  ELSE IF text.kty = "Ed448" THEN JwkOf("OKP", "Ed448", Members(text), text.of)
  ELSE JwkOf("EC", text.kty, Members(text), text.of)

(***************************************************************************)
(* get_default_algorithms: the PS names sign with PKCS #1 v1.5 too.  The   *)
(* handler of "none", which signs with nothing, is left out.               *)
(***************************************************************************)
EcHandler(alg, crv) == [family |-> "EC", alg |-> alg, crv |-> crv]

Handler ==
  [HS256  |-> [family |-> "oct", alg |-> "HS256", crv |-> ""],
   HS384  |-> [family |-> "oct", alg |-> "HS384", crv |-> ""],
   HS512  |-> [family |-> "oct", alg |-> "HS512", crv |-> ""],
   RS256  |-> [family |-> "RSA", alg |-> "RS256", crv |-> ""],
   RS384  |-> [family |-> "RSA", alg |-> "RS384", crv |-> ""],
   RS512  |-> [family |-> "RSA", alg |-> "RS512", crv |-> ""],
   PS256  |-> [family |-> "RSA", alg |-> "RS256", crv |-> ""],
   PS384  |-> [family |-> "RSA", alg |-> "RS384", crv |-> ""],
   PS512  |-> [family |-> "RSA", alg |-> "RS512", crv |-> ""],
   ES256  |-> EcHandler("ES256", "P-256"),
   ES384  |-> EcHandler("ES384", "P-384"),
   ES512  |-> EcHandler("ES512", "P-521"),
   ES521  |-> EcHandler("ES512", "P-521"),
   ES256K |-> EcHandler("ES256", "secp256k1"),
   EdDSA  |-> [family |-> "OKP", alg |-> "EdDSA", crv |-> "Ed25519"]]

(***************************************************************************)
(* prepare_key                                                             *)
(***************************************************************************)
(* HMAC takes every text without "-----BEGIN" and "ssh-" in it, and a key  *)
(* that begins with ecdsa- has neither.                                    *)
NoSecret(key) == key.form = "pem" \/ (key.form = "ssh" /\ key.kty \notin NistCurves)

(* _prepare_asymmetric_key *)
Loads(key) ==
  IF key.form = "jwk" THEN Ok
  ELSE    Require(key.form \notin {"absent", "other"}, "TypeError")
       ?? Parses(key)
       ?? Normalizes(Parsed(key), "")

Loaded(key) == IF key.form = "jwk" THEN key ELSE PyJwk(Parsed(key), "")

Accepts(handler, key) == Suits(Loaded(key).jwk, handler.family, handler.crv)

Prepares(handler, key) ==
  IF handler.family = "oct"
  THEN    Require(key.form \notin {"absent", "other"}, "TypeError")
       ?? Require(~NoSecret(key), "InvalidKey")
  ELSE IF handler.family = "OKP" /\ Loads(key) = "TypeError" THEN "InvalidKey"
  ELSE Loads(key) ?? Accepts(handler, key)

PreparedKey(handler, key) == IF handler.family = "oct" THEN key ELSE Loaded(key)

(***************************************************************************)
(* sign and verify.  An EC key signs with the algorithm of its own curve,  *)
(* whatever the handler.                                                   *)
(***************************************************************************)
HandlerAlg(handler, key) ==
  IF handler.family = "EC" /\ key.form = "jwk" /\ AlgorithmName(key) \in Ecdsa
  THEN AlgorithmName(key) ELSE handler.alg

(* Mutant: with the algorithm of the handler.                              *)
VerifyAlg_OfHandler(handler, key) == handler.alg

VerifyAlg(handler, key) == HandlerAlg(handler, key)

(* A key that is no PyJWK is the text of a secret.                         *)
HandlerSigns(handler, key) ==
  IF key.form = "jwk" THEN SignsRaw(key, HandlerAlg(handler, key))
  ELSE KeyLoads(key, HandlerAlg(handler, key), FALSE)

HandlerSignature(handler, key, message) ==
  IF key.form = "jwk" THEN RawSignature(key, HandlerAlg(handler, key), message)
  ELSE Signature(handler.alg, Bytes(key, "sign"), "", message)

HandlerVerifies(handler, key, message, sig) ==
  IF key.form = "jwk" THEN VerifiesRaw(key, VerifyAlg(handler, key), message, sig)
  ELSE    KeyLoads(key, handler.alg, FALSE)
       ?? Verifies(handler.alg, Bytes(key, "verify"), "", message, sig)

(***************************************************************************)
(* to_jwk and from_jwk.  The key_ops that RSAAlgorithm adds say nothing to *)
(* any reader and are left out.                                            *)
(***************************************************************************)
Exports(handler, key) ==
  LET read == IF key.form = "jwk" THEN Ok ELSE Parses(key)
      jwk  == IF key.form = "jwk" THEN key.jwk ELSE Parsed(key)
      ofRsa == handler.family = "RSA" /\ key.form = "jwk"
  IN  IF handler.family = "oct" /\ key.form # "jwk"
      THEN Require(key.form \notin {"absent", "other"}, "InvalidKey")
      ELSE read ?? Require(jwk.kty = "EC" /\ ~ofRsa => jwk.crv \in EcCurves, "InvalidKey")

Exported(handler, key) ==
  IF key.form = "jwk" THEN key.jwk
  ELSE IF handler.family = "oct"
  THEN [JwkOf("oct", "", {"k"}, key.of) EXCEPT !.len = key.len]
  ELSE Parsed(key)

(* Whatever fails in the loading is an InvalidKeyError here.               *)
Imports(handler, jwk) ==
     Normalizes(jwk, "")
  ?? (IF handler.family \in {"oct", "RSA"}
      THEN Require(jwk.kty = handler.family, "InvalidKey") ?? RsaConsistent(jwk)
      ELSE Suits(jwk, handler.family, IF handler.family = "OKP" THEN "Ed25519" ELSE ""))
=============================================================================
