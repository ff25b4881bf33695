-------------------------------- MODULE Jwe --------------------------------
(***************************************************************************)
(* JWE compact encryption: encrypt_compact and decrypt_compact of lib.rs   *)
(* and the engine of jwe.rs.                                               *)
(*                                                                         *)
(* Ciphers are ideal.  A content key, or a key that wraps one, is a record *)
(* of what it was made from and its length in bytes; a box opens under the *)
(* key it was closed with; a tag is the record of what was authenticated.  *)
(* Random values are numbered, and never repeat.                           *)
(*                                                                         *)
(* A protected header is a record: `alg` and `enc` ("" if they are absent  *)
(* or no string), `zip`, whether that is "DEF", the parameters `epk`,      *)
(* `p2s` and `p2c` (NoPoint and 0 if absent), and `spelling`, which tells  *)
(* its text from other texts that decode to the same members.              *)
(***************************************************************************)
EXTENDS Jwk

(***************************************************************************)
(* Names and lengths.                                                      *)
(***************************************************************************)
Gcm       == {"A128GCM", "A192GCM", "A256GCM"}
ChaCha    == {"C20P", "XC20P"}
Composite == {"A128CBC-HS256", "A192CBC-HS384", "A256CBC-HS512"}

CekLength ==   \* get_cek_length
  [enc \in Gcm \cup ChaCha \cup Composite |->
     CASE enc = "A128GCM" -> 16 [] enc = "A192GCM" -> 24
       [] enc = "A192CBC-HS384" -> 48 [] enc = "A256CBC-HS512" -> 64 [] OTHER -> 32]

Padding ==     \* RSA-OAEP is RSA-OAEP-256
  [alg \in {"RSA1_5", "RSA-OAEP", "RSA-OAEP-256", "RSA-OAEP-384", "RSA-OAEP-512"} |->
     CASE alg = "RSA1_5" -> "PKCS1" [] alg = "RSA-OAEP-384" -> "SHA-384"
       [] alg = "RSA-OAEP-512" -> "SHA-512" [] OTHER -> "SHA-256"]

KeyWrap == {"A128KW", "A192KW", "A256KW"}

(* get_key_wrap_length and the PBES2 parameters: of derived keys only.     *)
AgreedLength ==
  [alg \in {"ECDH-ES+A128KW", "ECDH-ES+A192KW", "ECDH-ES+A256KW"} |->
     CASE alg = "ECDH-ES+A128KW" -> 16 [] alg = "ECDH-ES+A192KW" -> 24 [] OTHER -> 32]

PasswordLength ==
  [alg \in {"PBES2-HS256+A128KW", "PBES2-HS384+A192KW", "PBES2-HS512+A256KW"} |->
     CASE alg = "PBES2-HS256+A128KW" -> 16 [] alg = "PBES2-HS384+A192KW" -> 24 [] OTHER -> 32]

Agreement == {"ECDH-ES"} \cup DOMAIN AgreedLength
Pbes2     == DOMAIN PasswordLength

(* A header has its members.                                               *)
IsJweHeader(header) ==
  /\ header = [alg |-> header.alg, enc |-> header.enc, zip |-> header.zip, epk |-> header.epk,
               p2s |-> header.p2s, p2c |-> header.p2c, spelling |-> header.spelling]
  /\ header.zip \in BOOLEAN

NamesAlgorithms(header) ==
     Require(header.alg # "" /\ header.enc # "", "InvalidToken")
  ?? Require(header.enc \in DOMAIN CekLength, "ValueError")
  ?? Require(header.alg \in {"dir"} \cup DOMAIN Padding \cup KeyWrap \cup Agreement \cup Pbes2,
             "InvalidAlgorithm")

(***************************************************************************)
(* get_jwe_key_bytes.  A key is as in JwtToken, or a PyJWK as in Jwk.  No  *)
(* algorithm here asks for the length of a DER or of a point.              *)
(***************************************************************************)
JweKeyLoads(key, publicOnly) ==
  IF key.form = "jwk" THEN Extracts(key.jwk, publicOnly)
  ELSE Require(key.form \notin {"absent", "other"}, "TypeError")

JweKeyBytes(key, publicOnly) ==
  IF key.form = "jwk" THEN KeyBytes(key.jwk, publicOnly) @@ [len |-> key.jwk.len]
  ELSE [kty |-> key.kty, of |-> key.of, half |-> key.half, len |-> key.len]

(***************************************************************************)
(* Content and wrapping keys.                                              *)
(***************************************************************************)
GivenKey(bytes) == [made |-> "given", bytes |-> bytes, len |-> bytes.len]
RandomCek(n, enc) == [made |-> "random", n |-> n, len |-> CekLength[enc]]

(* x25519_derive: any 32 bytes are a private key and a public key; a PEM   *)
(* text must hold an X25519 key, of either half.                           *)
NoPoint      == [point |-> "none"]
Ephemeral(n) == [point |-> "ephemeral", n |-> n]
PointOf(bytes)  == [point |-> "key", of |-> bytes.of, half |-> bytes.half]
PublicOf(bytes) ==
  [point |-> "key", of |-> bytes.of,
   half |-> IF bytes.kty = "X25519" /\ bytes.half = "private" THEN "public" ELSE "reseeded"]

AsX25519(bytes) == Require(bytes.kty = "X25519" \/ bytes.len = 32, "ValueError")

(* concat_kdf_sha256 *)
Agreed(a, b, info, length) ==
  [made |-> "agreed", shared |-> {a, b}, info |-> info, len |-> length]

(* What wraps the content key, given the point on either side.             *)
Kek(header, bytes, a, b) ==
  IF header.alg \in KeyWrap THEN GivenKey(bytes)
  ELSE IF header.alg \in Pbes2
  THEN [made |-> "password", bytes |-> bytes, alg |-> header.alg, p2s |-> header.p2s,
        p2c |-> header.p2c, len |-> PasswordLength[header.alg]]
  ELSE Agreed(a, b, header.alg, AgreedLength[header.alg])

(* aes_key_wrap has no AES-192 and does not look at the alg.               *)
KekFits(length) == Require(length \in {16, 32}, "InvalidToken")

KekLength(alg, bytes) ==
  IF alg \in KeyWrap THEN bytes.len
  ELSE IF alg \in Pbes2 THEN PasswordLength[alg] ELSE AgreedLength[alg]

(***************************************************************************)
(* Encryption number n.                                                    *)
(***************************************************************************)
(* Mutant: parameters that the caller's header has already are kept.       *)
Completed_Keeps(header, n) ==
  IF header.alg \in Agreement /\ header.epk = NoPoint
  THEN [header EXCEPT !.epk = Ephemeral(n)]
  ELSE IF header.alg \in Pbes2 /\ header.p2s = 0
  THEN [header EXCEPT !.p2s = n, !.p2c = 8192] ELSE header

Completed(header, n) ==
  IF header.alg \in Agreement THEN [header EXCEPT !.epk = Ephemeral(n)]
  ELSE IF header.alg \in Pbes2 THEN [header EXCEPT !.p2s = n, !.p2c = 8192]
  ELSE header

(* manage_cek_encrypt: whether there is a content key, it, and its box.    *)
Wraps(header, bytes) ==
  LET alg == header.alg
  IN  CASE alg = "dir" -> Require(bytes.len = CekLength[header.enc], "InvalidToken")
        [] alg \in DOMAIN Padding ->
             Require(bytes.kty = "RSA" /\ bytes.half = "public", "InvalidToken")
        [] alg = "ECDH-ES" -> AsX25519(bytes)
        [] OTHER -> (IF alg \in Agreement THEN AsX25519(bytes) ELSE Ok)
                      ?? KekFits(KekLength(alg, bytes))

NewCek(header, bytes, n) ==
  CASE header.alg = "dir" -> GivenKey(bytes)
    [] header.alg = "ECDH-ES" ->
         Agreed(Ephemeral(n), PointOf(bytes), header.enc, CekLength[header.enc])
    [] OTHER -> RandomCek(n, header.enc)

NoBox == [box |-> "none"]

Pair(bytes) == [made |-> "pair", of |-> bytes.of]

EncryptedKey(header, bytes, n) ==
  CASE header.alg \in {"dir", "ECDH-ES"} -> NoBox
    [] header.alg \in DOMAIN Padding ->
         [box |-> Padding[header.alg], to |-> Pair(bytes), cek |-> RandomCek(n, header.enc)]
    [] OTHER ->
         [box |-> "wrap", to |-> Kek(header, bytes, Ephemeral(n), PointOf(bytes)),
          cek |-> RandomCek(n, header.enc)]

(* encrypt_content and decrypt_content: the AES-GCM key size is that of    *)
(* the key, not of the enc.                                                *)
Cipher(enc) == IF enc \in Gcm THEN "GCM" ELSE enc

NonceLength(enc) == CASE enc = "XC20P" -> 24 [] enc \in Composite -> 16 [] OTHER -> 12

(* Mutant: the header as it decodes is authenticated, not its text.        *)
Aad_Decoded(header) == [header EXCEPT !.spelling = ""]

Aad(header) == header

Tag(header, cek, iv, ct) ==
  [cipher |-> Cipher(header.enc), cek |-> cek, aad |-> Aad(header), iv |-> iv, ct |-> ct]

(* encrypt_compact *)
Encrypts(header, key) ==
     JweKeyLoads(key, TRUE)
  ?? NamesAlgorithms(header)
  ?? Wraps(header, JweKeyBytes(key, TRUE))
  ?? Require(header.enc # "A192GCM", "InvalidToken")

Encrypted(header, key, payload, n) ==
  LET bytes == JweKeyBytes(key, TRUE)
      own   == [Completed(header, n) EXCEPT !.spelling = "own"]
      cek   == NewCek(header, bytes, n)
      iv    == [n |-> n, len |-> NonceLength(header.enc)]
      ct    == [cipher |-> Cipher(header.enc), cek |-> cek, iv |-> iv,
                plain |-> [payload |-> payload, deflated |-> header.zip]]
  IN  [parts |-> 5, header |-> own, ek |-> EncryptedKey(own, bytes, n), iv |-> iv, ct |-> ct,
       tag |-> Tag(own, cek, iv, ct)]

(***************************************************************************)
(* Decryption.                                                             *)
(***************************************************************************)
OpensBox(ek, box, to, error) == Require(ek.box = box /\ ek.to = to, error)

ReceivedKek(header, bytes) == Kek(header, bytes, header.epk, PublicOf(bytes))

(* manage_cek_decrypt.  ECDH-ES does not look at the encrypted key.        *)
Unwraps(header, bytes, ek) ==
  LET alg == header.alg
  IN  CASE alg = "dir" -> Require(ek = NoBox, "InvalidToken")
        [] alg \in DOMAIN Padding ->
                Require(bytes.kty = "RSA" /\ bytes.half = "private", "InvalidToken")
             ?? OpensBox(ek, Padding[alg], Pair(bytes), "InvalidToken")
        [] OTHER ->
                Require(alg \in Agreement => header.epk # NoPoint, "InvalidToken")
             ?? Require(alg \in Pbes2 => 0 \notin {header.p2s, header.p2c}, "InvalidToken")
             ?? (IF alg \in Agreement THEN AsX25519(bytes) ELSE Ok)
             ?? (IF alg = "ECDH-ES" THEN Ok
                 ELSE    KekFits(KekLength(alg, bytes))
                      ?? Require(ek # NoBox, "InvalidToken")
                      ?? OpensBox(ek, "wrap", ReceivedKek(header, bytes), "ValueError"))

ReceivedCek(header, bytes, ek) ==
  CASE header.alg = "dir" -> GivenKey(bytes)
    [] header.alg = "ECDH-ES" ->
         Agreed(header.epk, PublicOf(bytes), header.enc, CekLength[header.enc])
    [] OTHER -> ek.cek

OpensContent(token, cek) ==
  LET enc     == token.header.enc
      matches == token.tag = Tag(token.header, cek, token.iv, token.ct)
      fits    == token.iv.len = NonceLength(enc)
  IN  CASE enc \in Gcm -> Require(cek.len \in {16, 32} /\ fits /\ matches, "InvalidToken")
        [] enc \in ChaCha ->    Require(cek.len = 32, "InvalidKey")
                             ?? Require(fits, "ValueError")
                             ?? Require(matches, "InvalidSignature")
        [] OTHER -> Require(matches, "InvalidSignature")

(* decrypt_compact *)
Decrypts(token, key) ==
  LET bytes == JweKeyBytes(key, FALSE)
  IN     JweKeyLoads(key, FALSE)
      ?? Require(token.parts = 5, "InvalidToken")
      ?? NamesAlgorithms(token.header)
      ?? Unwraps(token.header, bytes, token.ek)
      ?? OpensContent(token, ReceivedCek(token.header, bytes, token.ek))
      ?? Require(token.header.zip => token.ct.plain.deflated, "ValueError")

Decrypted(token) ==
  IF token.header.zip THEN [token.ct.plain EXCEPT !.deflated = FALSE] ELSE token.ct.plain
=============================================================================
