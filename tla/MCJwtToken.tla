----------------------------- MODULE MCJwtToken -----------------------------
(***************************************************************************)
(* Every encode request of a small universe, and, for the tokens of some   *)
(* of them, every way to present and to decode one.  A behaviour issues a  *)
(* token, sends it, and decodes what arrived.                              *)
(***************************************************************************)
EXTENDS JwtTrip, TLC

(* Keys.                                                                   *)
Secret(of, len) == [form |-> "str", kty |-> "oct", of |-> of, half |-> "secret",
                    alg |-> "", len |-> len]
Pem(kty, half)  == [form |-> "pem", kty |-> kty, of |-> "pair", half |-> half,
                    alg |-> "", len |-> 100]
Ssh             == [form |-> "ssh", kty |-> "OKP", of |-> "pair", half |-> "public",
                    alg |-> "", len |-> 100]
Jwk(kty, half, alg) == [form |-> "jwk", kty |-> kty, of |-> "pair", half |-> half,
                        alg |-> alg, len |-> IF kty \in {"oct", "OKP"} THEN 32 ELSE 0]
Nothing         == [form |-> "absent", kty |-> "oct", of |-> "", half |-> "secret",
                    alg |-> "", len |-> 0]

PrivateKeys == {Secret("short", 32), Secret("long", 64), Pem("RSA", "private"),
                Pem("P-256", "private"), Pem("OKP", "private"),
                Jwk("oct", "secret", "HS256"), Jwk("oct", "secret", "HS512"),
                Jwk("RSA", "private", ""), Jwk("secp256k1", "private", "ES256K"),
                Jwk("P-384", "private", "ES384"), Jwk("OKP", "private", "EdDSA")}
PublicKeys  == {Ssh, Pem("RSA", "public"), Pem("P-256", "public"), Pem("OKP", "public"),
                Jwk("RSA", "public", ""), Jwk("OKP", "public", "EdDSA"),
                Jwk("oct", "public", "HS256")}
OddKeys     == {Nothing, [Nothing EXCEPT !.form = "other"],
                [Ssh EXCEPT !.form = "badssh"], Secret("other", 32)}
Keys        == PrivateKeys \cup PublicKeys \cup OddKeys

(* Requests to encode.                                                     *)
Good == Claims([iss |-> Str("a"), exp |-> Num(2)])
Text == [kind |-> "text"]

Algs == {"HS256", "HS512", "PS256", "ES256", "ES384", "ES256K", "EdDSA", "Ed25519",
         "BLAKE2b512", "hs256", "none"}

MCEncodeRequests ==
  [entry : {"jwt", "module", "jws"}, alg : Algs, key : Keys,
   header : [alg : {"", "HS256"}, b64 : {"absent", "true", "false", "bad"}],
   payload : {Good, Claims([iss |-> Num(2)]), Text}, encoder : BOOLEAN, enforce : BOOLEAN]

MCRegistry == Algs \ {"hs256", "BLAKE2b512"}

(* The requests whose tokens are sent on.                                  *)
Senders ==
  {[entry |-> "module", alg |-> ka[2], key |-> ka[1],
    header |-> [alg |-> "", b64 |-> b], payload |-> p, encoder |-> FALSE, enforce |-> FALSE] :
      ka \in {<<Secret("short", 32), "HS256">>, <<Secret("short", 32), "HS512">>,
              <<Secret("long", 64), "HS512">>,
              <<Pem("P-256", "private"), "ES256">>, <<Pem("OKP", "private"), "Ed25519">>,
              <<Jwk("oct", "secret", "HS256"), "HS256">>,
              <<Jwk("P-384", "private", "ES384"), "ES384">>,
              <<Secret("short", 32), "EdDSA">>, <<Secret("short", 32), "none">>},
      b \in {"absent", "false"}, p \in {Good, Text}}

(* What can arrive: the token itself, one whose payload, header or number  *)
(* of segments changed on the way, one with an unreadable part, and one    *)
(* another library signed, its header in the padded base64 alphabet or its *)
(* secret the text of a public key.                                        *)
Resigned(header, alg, bytes, payload) ==
  Token(header, payload, Signature(alg, bytes, header, payload))

Arrivals(req) ==
  LET token  == Encoded(req)
      padded == [token.header EXCEPT !.plain = FALSE]
      public == Pem("P-256", "public")
  IN  {token,
       [token EXCEPT !.payload = Claims([iss |-> Str("b")])],
       [token EXCEPT !.header.alg = "HS256"],
       [token EXCEPT !.header.alg = "none", !.sig = NoSig],
       [token EXCEPT !.header.alg = ""], [token EXCEPT !.header.alg = "nonstring"],
       [token EXCEPT !.parts = 2],
       [token EXCEPT !.header = [kind |-> "invalid"]],
       [token EXCEPT !.sig = [kind |-> "invalid"]]}
      \cup (IF req.alg \in Crypto
            THEN {Resigned(padded, req.alg, Bytes(req.key, "sign"), req.payload),
                  Resigned([token.header EXCEPT !.b64 = "bad"], req.alg,
                           Bytes(req.key, "sign"), req.payload),
                  Resigned([padded EXCEPT !.alg = "HS512"], "HS512",
                           Bytes(public, "sign"), req.payload)}
            ELSE {})

(* Requests to decode.                                                     *)
Overrides == {NoOptions, [verify_signature |-> Bool(FALSE)], [verify_exp |-> Bool(FALSE)],
              [verify_iss |-> Null], [enforce_minimum_key_length |-> Bool(TRUE)]}

MCDecodeRequests(req) ==
  IF req \notin Senders THEN {} ELSE
  {[entry |-> e, token |-> t, key |-> k, algorithms |-> a, options |-> o, verify |-> v,
    leeway |-> x.leeway, content |-> c, audience |-> Anything, issuer |-> x.issuer,
    subject |-> Anything] :
     e \in {"jwt", "module", "jws", "async"}, t \in Arrivals(req),
     k \in {req.key, Nothing, Secret("short", 32), Pem("P-256", "public"), Pem("OKP", "public")},
     a \in {Anything, Expect({"HS256", "HS512", req.alg})},
     o \in Overrides, v \in {Bool(FALSE), Null}, c \in {NoPayload, req.payload},
     x \in {[leeway |-> 0, issuer |-> Anything], [leeway |-> -1, issuer |-> Anything],
            [leeway |-> 0, issuer |-> [kind |-> "bytes"]]}}

MCInstants == {1, 5}   \* before and after the expiry of Good
=============================================================================
