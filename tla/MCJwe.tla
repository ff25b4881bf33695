-------------------------------- MODULE MCJwe --------------------------------
(***************************************************************************)
(* Two messages between holders of an RSA key, an X25519 key and secrets   *)
(* of 16, 24 and 32 bytes, each as text and as a JWK, with an Ed25519 key  *)
(* among them; every family of key management, with an AEAD whose size the *)
(* key decides, one of a fixed size, and the composite.                    *)
(***************************************************************************)
EXTENDS JweService

Text(form, kty, of, half, len) ==
  [form |-> form, kty |-> kty, of |-> of, half |-> half, len |-> len]

(* The hint stands for a key that names its algorithm, as X25519 must.     *)
KeyOf(jwk) == PyJwk(jwk, "ECDH-ES")

MCKeys ==
  {Text("str", "oct", "short", "secret", 16), Text("str", "oct", "odd", "secret", 24),
   Text("str", "oct", "long", "secret", 32), Text("other", "oct", "long", "secret", 32),
   KeyOf([JwkOf("oct", "", {"k"}, "long") EXCEPT !.len = 32]),
   Text("pem", "RSA", "pair", "private", 1700), Text("pem", "RSA", "pair", "public", 450),
   KeyOf(JwkOf("RSA", "", {"n", "e", "d"}, "pair")),
   Text("pem", "X25519", "agree", "private", 119), Text("pem", "X25519", "agree", "public", 113),
   KeyOf(JwkOf("OKP", "X25519", {"x", "d"}, "agree")),
   KeyOf(JwkOf("OKP", "Ed25519", {"x", "d"}, "sign"))}

HeaderOf(alg, enc, zip) ==
  [alg |-> alg, enc |-> enc, zip |-> zip, epk |-> NoPoint, p2s |-> 0, p2c |-> 0,
   spelling |-> "own"]

MCHeaders ==
  {HeaderOf(alg, enc, FALSE) :
     alg \in {"dir", "RSA-OAEP", "A192KW", "A256KW", "ECDH-ES", "ECDH-ES+A128KW"},
     enc \in {"A128GCM", "C20P", "A128CBC-HS256"}}
  \cup {HeaderOf("ECDH-ES+A192KW", "A128GCM", FALSE), HeaderOf("PBES2-HS384+A192KW", "A128GCM", FALSE),
        HeaderOf("PBES2-HS256+A128KW", "XC20P", FALSE), HeaderOf("dir", "A192GCM", FALSE),
        HeaderOf("RSA-OAEP-256", "XC20P", TRUE), HeaderOf("", "C20P", FALSE),
        HeaderOf("A128GCMKW", "A128GCM", FALSE), HeaderOf("dir", "A512GCM", FALSE)}
=============================================================================
