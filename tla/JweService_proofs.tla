------------------------- MODULE JweService_proofs -------------------------
(***************************************************************************)
(* Type correctness, completeness and authenticity of JWE, for any keys    *)
(* and any headers.                                                        *)
(***************************************************************************)
EXTENDS JweService, TLAPS

(***************************************************************************)
(* The inductive invariant: encrypting again with the header that came     *)
(* with message i gives message i.                                         *)
(***************************************************************************)
Sealed(message, i) ==
  LET header == message.token.header
  IN  /\ message.key \in Keys
      /\ IsJweHeader(header)
      /\ header = [Completed(header, i) EXCEPT !.spelling = "own"]
      /\ Encrypts(header, message.key) = Ok
      /\ message.token = Encrypted(header, message.key, i, i)

IInv ==
  /\ Len(sent) \in 0..MaxSent /\ DOMAIN sent = 1..Len(sent)
  /\ \A i \in Messages : Sealed(sent[i], i)

(***************************************************************************)
(* Chains of checks, lengths and headers.                                  *)
(***************************************************************************)
LEMMA Chain ==
  /\ \A x, y : (x ?? y) = Ok <=> x = Ok /\ y = Ok
  /\ \A e : e # Ok => \A condition \in BOOLEAN : Require(condition, e) = Ok <=> condition
BY DEF ??, Require

LEMMA Errors ==
  /\ "InvalidToken" # Ok /\ "ValueError" # Ok /\ "InvalidAlgorithm" # Ok
  /\ "TypeError" # Ok /\ "InvalidKey" # Ok /\ "InvalidSignature" # Ok
BY DEF Ok

(* Which content keys the ciphers take.                                    *)
LEMMA Lengths ==
  ASSUME NEW enc \in DOMAIN CekLength
  PROVE  /\ enc \in Gcm /\ enc # "A192GCM" => CekLength[enc] \in {16, 32}
         /\ enc \in ChaCha => CekLength[enc] = 32
BY DEF CekLength, Gcm, ChaCha, Composite

(* Encryption writes key management parameters and the spelling, and       *)
(* nothing else; what it writes does not depend on what was there.         *)
LEMMA Owned ==
  ASSUME NEW header, IsJweHeader(header), NEW n
  PROVE  LET own == [Completed(header, n) EXCEPT !.spelling = "own"]
         IN  /\ IsJweHeader(own) /\ own.spelling = "own"
             /\ own.alg = header.alg /\ own.enc = header.enc /\ own.zip = header.zip
             /\ header.alg \in Agreement => own.epk = Ephemeral(n)
             /\ header.alg \in Pbes2 => own.p2s = n /\ own.p2c = 8192
             /\ [Completed(own, n) EXCEPT !.spelling = "own"] = own
<1> DEFINE own == [Completed(header, n) EXCEPT !.spelling = "own"]
           Written(h) ==
             [alg |-> h.alg, enc |-> h.enc, zip |-> h.zip,
              epk |-> IF h.alg \in Agreement THEN Ephemeral(n) ELSE h.epk,
              p2s |-> IF h.alg \in Pbes2 /\ h.alg \notin Agreement THEN n ELSE h.p2s,
              p2c |-> IF h.alg \in Pbes2 /\ h.alg \notin Agreement THEN 8192 ELSE h.p2c,
              spelling |-> "own"]
<1>1. ASSUME NEW h, IsJweHeader(h)
      PROVE  [Completed(h, n) EXCEPT !.spelling = "own"] = Written(h)
  <2>1. DOMAIN h = {"alg", "enc", "zip", "epk", "p2s", "p2c", "spelling"}
    BY <1>1 DEF IsJweHeader
  <2>2. CASE h.alg \in Agreement
    <3>1. Completed(h, n)
            = [alg |-> h.alg, enc |-> h.enc, zip |-> h.zip, epk |-> Ephemeral(n),
               p2s |-> h.p2s, p2c |-> h.p2c, spelling |-> h.spelling]
      BY <1>1, <2>1, <2>2 DEF IsJweHeader, Completed
    <3> QED
      BY <2>2, <3>1
  <2>3. CASE h.alg \notin Agreement /\ h.alg \in Pbes2
    <3>1. Completed(h, n)
            = [alg |-> h.alg, enc |-> h.enc, zip |-> h.zip, epk |-> h.epk,
               p2s |-> n, p2c |-> 8192, spelling |-> h.spelling]
      <4> DEFINE salted == [h EXCEPT !.p2s = n]
      <4>1. salted = [alg |-> h.alg, enc |-> h.enc, zip |-> h.zip, epk |-> h.epk,
                      p2s |-> n, p2c |-> h.p2c, spelling |-> h.spelling]
        BY <1>1, <2>1 DEF IsJweHeader
      <4>2. Completed(h, n) = [salted EXCEPT !.p2c = 8192]
        BY <2>3 DEF Completed
      <4> HIDE DEF salted
      <4> QED
        BY <4>1, <4>2
    <3> QED
      BY <2>3, <3>1
  <2>4. CASE h.alg \notin Agreement /\ h.alg \notin Pbes2
    BY <1>1, <2>1, <2>4 DEF IsJweHeader, Completed
  <2> QED
    BY <2>2, <2>3, <2>4
<1>2. own = Written(header)
  BY <1>1
<1>3. IsJweHeader(own)
  BY <1>2 DEF IsJweHeader
<1>4. Pbes2 \cap Agreement = {}
  BY DEF Pbes2, Agreement, PasswordLength, AgreedLength
<1>5. Written(own) = own
  BY <1>2
<1>6. [Completed(own, n) EXCEPT !.spelling = "own"] = own
  BY <1>1, <1>3, <1>5
<1> QED
  BY <1>2, <1>3, <1>4, <1>6

LEMMA Extended ==
  ASSUME NEW s, NEW e, Len(s) \in Nat, DOMAIN s = 1..Len(s)
  PROVE  /\ Len(Append(s, e)) = Len(s) + 1
         /\ DOMAIN Append(s, e) = 1..(Len(s) + 1)
         /\ Append(s, e)[Len(s) + 1] = e
         /\ \A i \in 1..Len(s) : Append(s, e)[i] = s[i]
OBVIOUS

LEMMA Families ==
  /\ DOMAIN Padding = {"RSA1_5", "RSA-OAEP", "RSA-OAEP-256", "RSA-OAEP-384", "RSA-OAEP-512"}
  /\ Agreement = {"ECDH-ES", "ECDH-ES+A128KW", "ECDH-ES+A192KW", "ECDH-ES+A256KW"}
  /\ Pbes2 = {"PBES2-HS256+A128KW", "PBES2-HS384+A192KW", "PBES2-HS512+A256KW"}
  /\ KeyWrap = {"A128KW", "A192KW", "A256KW"}
BY DEF Padding, Agreement, AgreedLength, Pbes2, PasswordLength, KeyWrap

LEMMA Admitted ==
  ASSUME NEW header, NamesAlgorithms(header) = Ok
  PROVE  /\ header.enc \in DOMAIN CekLength
         /\ header.alg \in {"dir"} \cup DOMAIN Padding \cup KeyWrap \cup Agreement \cup Pbes2
BY DEF NamesAlgorithms, ??, Require, Ok

(* The bytes a message was encrypted to.                                   *)
To(message) == JweKeyBytes(message.key, TRUE)

LEMMA Owner ==
  ASSUME NEW message, NEW i, Sealed(message, i)
  PROVE  message.key \in Keys /\ JweKeyLoads(message.key, TRUE) = Ok
BY DEF Sealed, Encrypts, ??, Require, Ok

(* What there is to know of message i.                                     *)
Consists(token, header, to, i) ==
  /\ token.parts = 5 /\ token.ek = EncryptedKey(header, to, i)
  /\ DOMAIN token = {"parts", "header", "ek", "iv", "ct", "tag"}
  /\ token.iv = [n |-> i, len |-> NonceLength(header.enc)]
  /\ token.ct = [cipher |-> Cipher(header.enc), cek |-> NewCek(header, to, i),
                 iv |-> token.iv, plain |-> [payload |-> i, deflated |-> header.zip]]
  /\ token.tag = Tag(header, NewCek(header, to, i), token.iv, token.ct)
  /\ header.spelling = "own" /\ header.zip \in BOOLEAN
  /\ header.alg \in Agreement => header.epk = Ephemeral(i)
  /\ header.alg \in Pbes2 => header.p2s = i /\ header.p2c = 8192
  /\ NamesAlgorithms(header) = Ok /\ Wraps(header, to) = Ok
  /\ header.enc # "A192GCM"

LEMMA Parts ==
  ASSUME NEW message, NEW i, Sealed(message, i),
         NEW token, token = message.token, NEW header, header = token.header,
         NEW to, to = To(message)
  PROVE  Consists(token, header, to, i)
<1> DEFINE cek == NewCek(header, to, i)
<1>1. /\ IsJweHeader(header) /\ header = [Completed(header, i) EXCEPT !.spelling = "own"]
      /\ Encrypts(header, message.key) = Ok
      /\ message.token = Encrypted(header, message.key, i, i) /\ message.key \in Keys
  BY DEF Sealed
<1>2. /\ header.spelling = "own" /\ header.zip \in BOOLEAN
      /\ header.alg \in Agreement => header.epk = Ephemeral(i)
      /\ header.alg \in Pbes2 => header.p2s = i /\ header.p2c = 8192
  BY <1>1, Owned DEF IsJweHeader
<1>3. /\ NamesAlgorithms(header) = Ok /\ Wraps(header, to) = Ok /\ header.enc # "A192GCM"
  BY <1>1 DEF To, Encrypts, ??, Require, Ok
<1> DEFINE iv  == [n |-> i, len |-> NonceLength(header.enc)]
           ct  == [cipher |-> Cipher(header.enc), cek |-> cek, iv |-> iv,
                   plain |-> [payload |-> i, deflated |-> header.zip]]
           tag == Tag(header, cek, iv, ct)
<1>4. message.token = [parts |-> 5, header |-> header, ek |-> EncryptedKey(header, to, i),
                       iv |-> iv, ct |-> ct, tag |-> tag]
  <2> DEFINE own == [Completed(header, i) EXCEPT !.spelling = "own"]
  <2>1. own = header
    BY <1>1
  <2>2. Encrypted(header, message.key, i, i)
          = [parts |-> 5, header |-> own, ek |-> EncryptedKey(own, to, i),
             iv |-> iv, ct |-> ct, tag |-> Tag(own, cek, iv, ct)]
    BY DEF Encrypted, To
  <2> HIDE DEF own
  <2> QED
    BY <1>1, <2>1, <2>2
<1> HIDE DEF tag
<1>5. token.iv = iv /\ token.ct = ct /\ token.tag = tag
  BY <1>4
<1>6. token.tag = Tag(header, cek, token.iv, token.ct)
  BY <1>5 DEF tag
<1>7. token.ct = [cipher |-> Cipher(header.enc), cek |-> cek, iv |-> token.iv,
                  plain |-> [payload |-> i, deflated |-> header.zip]]
  <2> HIDE DEF iv
  <2> QED
    BY <1>5
<1>8. token.iv = [n |-> i, len |-> NonceLength(header.enc)]
  BY <1>5
<1> HIDE DEF iv, ct
<1>9. /\ token.parts = 5 /\ token.ek = EncryptedKey(header, to, i)
      /\ DOMAIN token = {"parts", "header", "ek", "iv", "ct", "tag"}
  BY <1>4
<1> QED
  BY ONLY <1>2, <1>3, <1>6, <1>7, <1>8, <1>9 DEF Consists

(***************************************************************************)
(* The invariant.                                                          *)
(***************************************************************************)
LEMMA EncryptStep ==
  ASSUME IInv, Encrypt
  PROVE  IInv'
<1> DEFINE n == Len(sent) + 1
<1>1. PICK header \in Chosen, key \in Keys :
        /\ Encrypts(header, key) = Ok
        /\ sent' = Append(sent, [token |-> Encrypted(header, key, n, n), key |-> key])
  BY DEF Encrypt
<1> DEFINE own     == [Completed(header, n) EXCEPT !.spelling = "own"]
           message == [token |-> Encrypted(header, key, n, n), key |-> key]
<1>2. IsJweHeader(header)
  <2>1. CASE header \in Headers
    BY <2>1, ShapeAssumption
  <2>2. CASE header \notin Headers
    <3>1. PICK i \in DOMAIN sent, h \in Headers :
            header = Renamed(sent[i].token.header, h.alg, h.enc)
      BY <2>2 DEF Chosen
    <3> DEFINE was == sent[i].token.header
               renamed == [was EXCEPT !.alg = h.alg]
    <3>2. IsJweHeader(was)
      BY DEF IInv, Sealed, Messages
    <3> HIDE DEF was
    <3>3. DOMAIN was = {"alg", "enc", "zip", "epk", "p2s", "p2c", "spelling"}
      BY <3>2 DEF IsJweHeader
    <3>4. renamed = [alg |-> h.alg, enc |-> was.enc, zip |-> was.zip, epk |-> was.epk,
                     p2s |-> was.p2s, p2c |-> was.p2c, spelling |-> was.spelling]
      BY <3>2, <3>3 DEF IsJweHeader
    <3>5. header = [renamed EXCEPT !.enc = h.enc]
      BY <3>1 DEF was, Renamed
    <3>6. was.zip \in BOOLEAN
      BY <3>2 DEF IsJweHeader
    <3> HIDE DEF renamed
    <3> QED
      BY <3>4, <3>5, <3>6 DEF IsJweHeader
  <2> QED
    BY <2>1, <2>2
<1>3. /\ IsJweHeader(own) /\ own.alg = header.alg /\ own.enc = header.enc
      /\ own.zip = header.zip
      /\ own = [Completed(own, n) EXCEPT !.spelling = "own"]
  BY <1>2, Owned
<1>4. Encrypted(own, key, n, n) = Encrypted(header, key, n, n)
  BY <1>3 DEF Encrypted, NewCek
<1>5. Encrypts(own, key) = Ok
  BY <1>1, <1>3 DEF Encrypts, NamesAlgorithms, Wraps
<1>6. message.token.header = own
  BY DEF Encrypted
<1>7. Sealed(message, n)
  <2> HIDE DEF own
  <2> QED
    BY <1>3, <1>4, <1>5, <1>6 DEF Sealed
<1>8. /\ Len(sent) \in Nat /\ DOMAIN sent = 1..Len(sent) /\ Len(sent) + 1 <= MaxSent
  BY JweAssumption DEF IInv, Encrypt
<1>9. /\ Len(sent') = Len(sent) + 1 /\ DOMAIN sent' = 1..n
      /\ sent'[n] = message /\ \A i \in 1..Len(sent) : sent'[i] = sent[i]
  BY <1>1, <1>8, Extended
<1> HIDE DEF message
<1>10. \A i \in 1..n : Sealed(sent'[i], i)
  BY <1>7, <1>8, <1>9 DEF IInv, Messages
<1> QED
  BY <1>8, <1>9, <1>10, JweAssumption DEF IInv, Messages, Sealed

THEOREM IInvAlways == Spec => []IInv
<1>1. Init => IInv
  BY JweAssumption DEF Init, IInv, Messages
<1>2. IInv /\ [Encrypt]_sent => IInv'
  <2> SUFFICES ASSUME IInv, UNCHANGED sent
               PROVE  IInv'
    BY EncryptStep
  <2> QED
    BY DEF IInv, Messages, Sealed
<1> QED
  BY <1>1, <1>2, PTL DEF Spec

(* There is an encrypted key where there is one to wrap.                   *)
LEMMA Boxes ==
  ASSUME NEW header, NEW to, NEW n
  PROVE  (EncryptedKey(header, to, n) = NoBox) <=> header.alg \in {"dir", "ECDH-ES"}
<1> DEFINE ek == EncryptedKey(header, to, n)
<1>1. CASE header.alg \in {"dir", "ECDH-ES"}
  <2>1. header.alg \notin DOMAIN Padding
    BY <1>1, Families
  <2>2. ek = NoBox
    BY <1>1, <2>1 DEF EncryptedKey
  <2> QED
    BY <1>1, <2>2
<1>2. CASE header.alg \notin {"dir", "ECDH-ES"} /\ header.alg \in DOMAIN Padding
  <2>1. ek = [box |-> Padding[header.alg], to |-> Pair(to), cek |-> RandomCek(n, header.enc)]
    BY <1>2 DEF EncryptedKey
  <2> QED
    BY <1>2, <2>1 DEF NoBox
<1>3. CASE header.alg \notin {"dir", "ECDH-ES"} /\ header.alg \notin DOMAIN Padding
  <2>1. ek = [box |-> "wrap", to |-> Kek(header, to, Ephemeral(n), PointOf(to)),
              cek |-> RandomCek(n, header.enc)]
    BY <1>3 DEF EncryptedKey
  <2> QED
    BY <1>3, <2>1 DEF NoBox
<1> QED
  BY <1>1, <1>2, <1>3

(* Type correctness: segments and parameters of every message.             *)
THEOREM TypeAlways == Spec => []TypeOK
<1>1. ASSUME IInv
      PROVE  TypeOK
  <2> SUFFICES ASSUME NEW i \in Messages
               PROVE  LET token == sent[i].token
                          alg   == token.header.alg
                      IN  /\ token.parts = 5 /\ token.header.spelling = "own"
                          /\ (token.ek = NoBox) <=> alg \in {"dir", "ECDH-ES"}
                          /\ alg \in Agreement => token.header.epk = Ephemeral(i)
                          /\ alg \in Pbes2 => token.header.p2s = i /\ token.header.p2c > 0
    BY <1>1, JweAssumption DEF TypeOK, IInv
  <2> DEFINE token  == sent[i].token
             header == token.header
             to     == To(sent[i])
  <2>1. Sealed(sent[i], i)
    BY <1>1 DEF IInv
  <2> HIDE DEF to
  <2>2. /\ token.parts = 5 /\ header.spelling = "own"
        /\ token.ek = EncryptedKey(header, to, i)
        /\ header.alg \in Agreement => header.epk = Ephemeral(i)
        /\ header.alg \in Pbes2 => header.p2s = i /\ header.p2c = 8192
    <3>1. token = sent[i].token /\ header = token.header /\ to = To(sent[i])
      BY DEF to
    <3> HIDE DEF token, header
    <3>2. Consists(token, header, to, i)
      BY <2>1, <3>1, Parts
    <3> QED
      BY <3>2 DEF Consists
  <2>3. (token.ek = NoBox) <=> header.alg \in {"dir", "ECDH-ES"}
    BY <2>2, Boxes
  <2> HIDE DEF token
  <2> QED
    BY <2>2, <2>3 DEF token
<1> QED
  BY <1>1, IInvAlways, PTL

(***************************************************************************)
(* Completeness.                                                           *)
(***************************************************************************)
(* Whose key bytes open what was encrypted to other key bytes.             *)
Matches(header, theirs, to) ==
  IF Symmetric(header.alg) THEN theirs = to
  ELSE /\ to.kty \in {"RSA", "X25519"} /\ to.half = "public"
       /\ theirs.kty = to.kty /\ theirs.of = to.of /\ theirs.half = "private"

(* The recipient comes to the content key, whichever way it went.          *)
LEMMA KeyComesBack ==
  ASSUME NEW header, NEW n \in Nat \ {0}, NEW to, NEW theirs,
         NamesAlgorithms(header) = Ok, Wraps(header, to) = Ok,
         header.alg \in Agreement => header.epk = Ephemeral(n),
         header.alg \in Pbes2 => header.p2s = n /\ header.p2c = 8192,
         to.kty = "RSA" => to.len # 32, Matches(header, theirs, to)
  PROVE  /\ Unwraps(header, theirs, EncryptedKey(header, to, n)) = Ok
         /\ ReceivedCek(header, theirs, EncryptedKey(header, to, n)) = NewCek(header, to, n)
<1> DEFINE alg == header.alg
           ek  == EncryptedKey(header, to, n)
<1>1. CASE alg = "dir"
  <2>1. alg \notin DOMAIN Padding /\ Symmetric(alg)
    BY <1>1, Families DEF Symmetric
  <2>2. theirs = to
    BY <2>1 DEF Matches
  <2>3. ek = NoBox
    BY <1>1, <2>1 DEF EncryptedKey
  <2> QED
    BY <1>1, <2>1, <2>2, <2>3 DEF Unwraps, ReceivedCek, NewCek, Require
<1>2. CASE alg \in DOMAIN Padding
  <2>1. alg \notin {"dir", "ECDH-ES"} \cup Agreement \cup KeyWrap \cup Pbes2
    BY <1>2, Families
  <2>2. ek = [box |-> Padding[alg], to |-> Pair(to), cek |-> RandomCek(n, header.enc)]
    BY <1>2, <2>1 DEF EncryptedKey
  <2>3. to.kty = "RSA"
    BY <1>2, <2>1, Chain, Errors DEF Wraps
  <2>4. theirs.kty = "RSA" /\ theirs.half = "private" /\ Pair(theirs) = Pair(to)
    BY <2>1, <2>3 DEF Matches, Symmetric, Pair
  <2>5. Unwraps(header, theirs, ek)
          = (Require(theirs.kty = "RSA" /\ theirs.half = "private", "InvalidToken")
               ?? OpensBox(ek, Padding[alg], Pair(theirs), "InvalidToken"))
    BY <1>2, <2>1 DEF Unwraps
  <2>6. OpensBox(ek, Padding[alg], Pair(theirs), "InvalidToken") = Ok
    BY <2>2, <2>4 DEF OpensBox, Require
  <2> QED
    BY <2>1, <2>2, <2>4, <2>5, <2>6 DEF ReceivedCek, NewCek, Require, ??
<1>3. CASE alg \in Agreement
  <2>1. alg \notin {"dir"} \cup DOMAIN Padding \cup KeyWrap \cup Pbes2
    BY <1>3, Families
  <2>2. AsX25519(to) = Ok
    BY <1>3, <2>1, Chain DEF Wraps
  <2>3. to.kty = "X25519"
    BY <2>1, <2>2 DEF AsX25519, Require, Ok, Matches, Symmetric
  <2>4. AsX25519(theirs) = Ok /\ PublicOf(theirs) = PointOf(to)
    BY <2>1, <2>3 DEF AsX25519, Require, Matches, Symmetric, PublicOf, PointOf
  <2>5. header.epk = Ephemeral(n) /\ header.epk # NoPoint
    BY <1>3 DEF Ephemeral, NoPoint
  <2>6. CASE alg = "ECDH-ES"
    <3>1. Unwraps(header, theirs, ek)
            = (Require(alg \in Agreement => header.epk # NoPoint, "InvalidToken")
               ?? Require(alg \in Pbes2 => 0 \notin {header.p2s, header.p2c}, "InvalidToken")
               ?? AsX25519(theirs) ?? Ok)
      BY <1>3, <2>1, <2>6 DEF Unwraps
    <3> QED
      BY <2>1, <2>4, <2>5, <2>6, <3>1 DEF ReceivedCek, NewCek, Require, ??
  <2>7. CASE alg # "ECDH-ES"
    <3>1. ek = [box |-> "wrap", to |-> Kek(header, to, Ephemeral(n), PointOf(to)),
                cek |-> RandomCek(n, header.enc)]
      BY <2>1, <2>7 DEF EncryptedKey
    <3>2. ReceivedKek(header, theirs) = Kek(header, to, Ephemeral(n), PointOf(to))
      BY <2>1, <2>4, <2>5 DEF ReceivedKek, Kek
    <3>3. OpensBox(ek, "wrap", ReceivedKek(header, theirs), "ValueError") = Ok
      BY <3>1, <3>2 DEF OpensBox, Require
    <3>4. KekLength(alg, theirs) = KekLength(alg, to)
      BY <2>1 DEF KekLength
    <3>5. KekFits(KekLength(alg, to)) = Ok
      BY <2>1, <2>7, <2>2, Chain DEF Wraps
    <3>6. ek # NoBox
      BY <3>1 DEF NoBox
    <3>7. Unwraps(header, theirs, ek)
            = (Require(alg \in Agreement => header.epk # NoPoint, "InvalidToken")
               ?? Require(alg \in Pbes2 => 0 \notin {header.p2s, header.p2c}, "InvalidToken")
               ?? AsX25519(theirs)
               ?? (KekFits(KekLength(alg, theirs)) ?? Require(ek # NoBox, "InvalidToken")
                     ?? OpensBox(ek, "wrap", ReceivedKek(header, theirs), "ValueError")))
      BY <1>3, <2>1, <2>7 DEF Unwraps
    <3>8. Unwraps(header, theirs, ek) = Ok
      BY <2>1, <2>4, <2>5, <3>3, <3>4, <3>5, <3>6, <3>7 DEF Require, ??
    <3> QED
      BY <2>1, <2>7, <3>1, <3>8 DEF ReceivedCek, NewCek
  <2> QED
    BY <2>6, <2>7
<1>4. CASE alg \in KeyWrap \cup Pbes2
  <2>1. alg \notin {"dir"} \cup DOMAIN Padding \cup Agreement /\ alg # "ECDH-ES"
    BY <1>4, Families
  <2>2. theirs = to
    BY <1>4 DEF Matches, Symmetric
  <2>3. ek = [box |-> "wrap", to |-> Kek(header, to, Ephemeral(n), PointOf(to)),
              cek |-> RandomCek(n, header.enc)]
    BY <2>1 DEF EncryptedKey
  <2>4. ReceivedKek(header, theirs) = Kek(header, to, Ephemeral(n), PointOf(to))
    BY <1>4, <2>2 DEF ReceivedKek, Kek
  <2>5. OpensBox(ek, "wrap", ReceivedKek(header, theirs), "ValueError") = Ok
    BY <2>3, <2>4 DEF OpensBox, Require
  <2>6. KekFits(KekLength(alg, to)) = Ok
    BY <2>1, Chain DEF Wraps
  <2>7. ek # NoBox
    BY <2>3 DEF NoBox
  <2>8. alg \in Pbes2 => 0 \notin {header.p2s, header.p2c}
    OBVIOUS
  <2>9. Unwraps(header, theirs, ek)
          = (Require(alg \in Agreement => header.epk # NoPoint, "InvalidToken")
             ?? Require(alg \in Pbes2 => 0 \notin {header.p2s, header.p2c}, "InvalidToken")
             ?? Ok
             ?? (KekFits(KekLength(alg, theirs)) ?? Require(ek # NoBox, "InvalidToken")
                   ?? OpensBox(ek, "wrap", ReceivedKek(header, theirs), "ValueError")))
    BY <2>1 DEF Unwraps
  <2>10. Unwraps(header, theirs, ek) = Ok
    BY <2>1, <2>2, <2>5, <2>6, <2>7, <2>8, <2>9 DEF Require, ??
  <2> QED
    BY <2>1, <2>3, <2>10 DEF ReceivedCek, NewCek
<1>5. alg \in {"dir"} \cup DOMAIN Padding \cup KeyWrap \cup Agreement \cup Pbes2
  BY Admitted
<1> QED
  BY <1>1, <1>2, <1>3, <1>4, <1>5

(* The content key is as long as the AEAD wants it.                        *)
LEMMA CekFits ==
  ASSUME NEW header, NEW to, NEW n, NamesAlgorithms(header) = Ok, Wraps(header, to) = Ok
  PROVE  NewCek(header, to, n).len = CekLength[header.enc]
<1>1. CASE header.alg = "dir"
  <2>1. to.len = CekLength[header.enc]
    BY <1>1, Families, Chain, Errors DEF Wraps
  <2> QED
    BY <1>1, <2>1 DEF NewCek, GivenKey
<1>2. CASE header.alg = "ECDH-ES"
  BY <1>2 DEF NewCek, Agreed
<1>3. CASE header.alg \notin {"dir", "ECDH-ES"}
  BY <1>3 DEF NewCek, RandomCek
<1> QED
  BY <1>1, <1>2, <1>3

LEMMA ContentOpens ==
  ASSUME NEW token, NEW header, header = token.header, NEW to, NEW n,
         Consists(token, header, to, n)
  PROVE  OpensContent(token, NewCek(header, to, n)) = Ok
<1> DEFINE cek     == NewCek(header, to, n)
           matches == token.tag = Tag(header, cek, token.iv, token.ct)
           fits    == token.iv.len = NonceLength(header.enc)
<1>1. matches /\ fits
  BY DEF Consists
<1>2. header.enc \in DOMAIN CekLength /\ header.enc # "A192GCM"
  BY Admitted DEF Consists
<1>3. cek.len = CekLength[header.enc]
  BY CekFits DEF Consists
<1>4. /\ header.enc \in Gcm => cek.len \in {16, 32}
      /\ header.enc \in ChaCha => cek.len = 32
  BY <1>2, <1>3, Lengths
<1>5. OpensContent(token, cek)
        = CASE header.enc \in Gcm ->
                 Require(cek.len \in {16, 32} /\ fits /\ matches, "InvalidToken")
            [] header.enc \in ChaCha ->    Require(cek.len = 32, "InvalidKey")
                                        ?? Require(fits, "ValueError")
                                        ?? Require(matches, "InvalidSignature")
            [] OTHER -> Require(matches, "InvalidSignature")
  BY DEF OpensContent
<1>6. Gcm \cap ChaCha = {}
  BY DEF Gcm, ChaCha
<1> HIDE DEF cek, matches, fits
<1>7. OpensContent(token, cek) = Ok
  BY <1>1, <1>4, <1>5, <1>6 DEF Require, ??
<1> QED
  BY <1>7 DEF cek

LEMMA Inflated ==
  ASSUME NEW payload, NEW deflated, NEW plain,
         plain = [payload |-> payload, deflated |-> deflated]
  PROVE  [plain EXCEPT !.deflated = FALSE] = [payload |-> payload, deflated |-> FALSE]
<1> DEFINE no == FALSE
<1>1. [plain EXCEPT !.deflated = no] = [payload |-> payload, deflated |-> no]
  <2> HIDE DEF no
  <2> QED
    OBVIOUS
<1> QED
  BY <1>1

LEMMA ReadBack ==
  ASSUME NEW message, NEW n \in Nat \ {0}, Sealed(message, n),
         NEW key \in Keys, Recipient(message, key)
  PROVE  /\ Decrypts(message.token, key) = Ok
         /\ Decrypted(message.token) = [payload |-> n, deflated |-> FALSE]
<1> DEFINE token  == message.token
           header == token.header
           to     == To(message)
           theirs == JweKeyBytes(key, FALSE)
           cek    == NewCek(header, to, n)
<1>1. Consists(token, header, to, n)
  <2> HIDE DEF to
  <2>1. to = To(message)
    BY DEF to
  <2> QED
    BY <2>1, Parts
<1>2. JweKeyLoads(key, FALSE) = Ok /\ Matches(header, theirs, to)
  BY DEF Recipient, Matches, To
<1>3. to.kty = "RSA" => to.len # 32
  BY <1>2, Owner, ShapeAssumption DEF To
<1> HIDE DEF to, theirs, header
<1>4. /\ Unwraps(header, theirs, EncryptedKey(header, to, n)) = Ok
      /\ ReceivedCek(header, theirs, EncryptedKey(header, to, n)) = cek
  BY <1>1, <1>2, <1>3, KeyComesBack DEF Consists
<1>5. OpensContent(token, cek) = Ok
  BY <1>1, ContentOpens DEF header
<1>6. /\ token.parts = 5 /\ token.ek = EncryptedKey(header, to, n)
      /\ token.ct.plain = [payload |-> n, deflated |-> header.zip]
      /\ NamesAlgorithms(header) = Ok /\ header.zip \in BOOLEAN
  BY <1>1 DEF Consists
<1> HIDE DEF token, cek
<1>7. token.header = header
  BY DEF header, token
<1>8. Require(header.zip => token.ct.plain.deflated, "ValueError") = Ok
  BY <1>6 DEF Require
<1>9. Decrypts(token, key) = Ok
  <2>1. Decrypts(token, key)
          = (JweKeyLoads(key, FALSE) ?? Require(token.parts = 5, "InvalidToken")
             ?? NamesAlgorithms(header) ?? Unwraps(header, theirs, token.ek)
             ?? OpensContent(token, ReceivedCek(header, theirs, token.ek))
             ?? Require(header.zip => token.ct.plain.deflated, "ValueError"))
    BY <1>7 DEF Decrypts, theirs
  <2> QED
    BY <1>2, <1>4, <1>5, <1>6, <1>8, <2>1 DEF Require, ??
<1>10. Decrypted(token) = [payload |-> n, deflated |-> FALSE]
  <2>1. CASE header.zip
    <3>1. token.ct.plain = [payload |-> n, deflated |-> header.zip]
      BY <1>6
    <3>2. Decrypted(token) = [token.ct.plain EXCEPT !.deflated = FALSE]
      BY <1>7, <2>1 DEF Decrypted
    <3>3. [token.ct.plain EXCEPT !.deflated = FALSE] = [payload |-> n, deflated |-> FALSE]
      BY <3>1, Inflated
    <3> QED
      BY <3>2, <3>3, Zenon
  <2>2. CASE ~header.zip
    <3>1. header.zip = FALSE
      BY <1>6, <2>2
    <3> QED
      BY <1>6, <1>7, <3>1 DEF Decrypted
  <2> QED
    BY <2>1, <2>2
<1> QED
  BY <1>9, <1>10 DEF token

(* A token that encrypt_compact makes is one that decrypt_compact opens,   *)
(* whatever header it was made with and in whatever form the recipient     *)
(* holds the key.                                                          *)
THEOREM RoundTripAlways == Spec => []RoundTrip
<1>1. IInv => RoundTrip
  BY ReadBack DEF IInv, RoundTrip, Messages
<1> QED
  BY <1>1, IInvAlways, PTL

(***************************************************************************)
(* Authenticity.                                                           *)
(***************************************************************************)
LEMMA OtherOfTwo ==
  ASSUME NEW a, NEW b, NEW c, {a, b} = {a, c}, a # b
  PROVE  b = c
OBVIOUS

(* Whose X25519 key the far end of an agreement is.                        *)
LEMMA SamePoint ==
  ASSUME NEW to, NEW theirs, to.half \in {"secret", "private", "public"},
         to.of = theirs.of => to.kty = theirs.kty, PublicOf(theirs) = PointOf(to)
  PROVE  /\ theirs.kty = "X25519" /\ to.kty = "X25519" /\ theirs.of = to.of
         /\ theirs.half = "private" /\ to.half = "public"
<1>1. theirs.of = to.of /\ PublicOf(theirs).half = to.half
  BY DEF PublicOf, PointOf
<1>2. theirs.kty = "X25519" /\ theirs.half = "private"
  BY <1>1 DEF PublicOf
<1> QED
  BY <1>1, <1>2 DEF PublicOf

LEMMA SameAgreement ==
  ASSUME NEW n, NEW to, NEW theirs, NEW info, NEW length,
         Agreed(Ephemeral(n), PublicOf(theirs), info, length)
           = Agreed(Ephemeral(n), PointOf(to), info, length)
  PROVE  PublicOf(theirs) = PointOf(to)
<1>1. {Ephemeral(n), PublicOf(theirs)} = {Ephemeral(n), PointOf(to)}
  BY DEF Agreed
<1>2. Ephemeral(n).point = "ephemeral" /\ PublicOf(theirs).point = "key"
  BY DEF Ephemeral, PublicOf
<1>3. Ephemeral(n) # PublicOf(theirs)
  BY <1>2
<1> QED
  BY <1>1, <1>3, OtherOfTwo

(* Who comes to the content key of message n is its recipient, and comes   *)
(* to it from the message's own encrypted key, if it has one.              *)
LEMMA OnlyTheRecipient ==
  ASSUME NEW header, NEW n, NEW to, NEW theirs, NEW ek,
         NamesAlgorithms(header) = Ok, Wraps(header, to) = Ok,
         Unwraps(header, theirs, ek) = Ok,
         ReceivedCek(header, theirs, ek) = NewCek(header, to, n),
         header.alg \in Agreement => header.epk = Ephemeral(n),
         to.half \in {"secret", "private", "public"},
         to.of = theirs.of => to.kty = theirs.kty,
         ek # NoBox /\ ek.cek = RandomCek(n, header.enc) => ek = EncryptedKey(header, to, n)
  PROVE  /\ Matches(header, theirs, to)
         /\ header.alg = "ECDH-ES" \/ ek = EncryptedKey(header, to, n)
<1> DEFINE alg == header.alg
<1>1. CASE alg = "dir"
  <2>1. alg \notin DOMAIN Padding /\ Symmetric(alg)
    BY <1>1, Families DEF Symmetric
  <2>2. ek = NoBox
    BY <1>1, <2>1, Errors DEF Unwraps, Require
  <2>3. GivenKey(theirs) = GivenKey(to)
    BY <1>1 DEF ReceivedCek, NewCek
  <2>4. theirs = to
    BY <2>3 DEF GivenKey
  <2>5. EncryptedKey(header, to, n) = NoBox
    BY <1>1, <2>1 DEF EncryptedKey
  <2> QED
    BY <2>1, <2>2, <2>4, <2>5 DEF Matches
<1>2. CASE alg \in DOMAIN Padding
  <2>1. alg \notin {"dir", "ECDH-ES"} \cup Agreement \cup KeyWrap \cup Pbes2
    BY <1>2, Families
  <2>2. to.kty = "RSA" /\ to.half = "public"
    BY <1>2, <2>1, Chain, Errors DEF Wraps
  <2>3. /\ theirs.kty = "RSA" /\ theirs.half = "private"
        /\ ek.box = Padding[alg] /\ ek.to = Pair(theirs)
    <3>1. (Require(theirs.kty = "RSA" /\ theirs.half = "private", "InvalidToken")
             ?? OpensBox(ek, Padding[alg], Pair(theirs), "InvalidToken")) = Ok
      BY <1>2, <2>1 DEF Unwraps
    <3> QED
      BY <3>1 DEF OpensBox, Require, ??, Ok
  <2>4. ek # NoBox
    <3>1. NoBox.box = "none" /\ Padding[alg] # "none"
      BY <1>2 DEF NoBox, Padding
    <3> QED
      BY <2>3, <3>1
  <2>5. ek.cek = RandomCek(n, header.enc)
    BY <2>1 DEF ReceivedCek, NewCek
  <2>6. EncryptedKey(header, to, n).to = Pair(to)
    BY <1>2, <2>1 DEF EncryptedKey
  <2>7. theirs.of = to.of
    BY <2>3, <2>4, <2>5, <2>6 DEF Pair
  <2> QED
    BY <2>1, <2>2, <2>3, <2>4, <2>5, <2>7 DEF Matches, Symmetric
<1>3. CASE alg = "ECDH-ES"
  <2>1. alg \notin {"dir"} \cup DOMAIN Padding \cup KeyWrap \cup Pbes2 /\ alg \in Agreement
    BY <1>3, Families
  <2>2. PublicOf(theirs) = PointOf(to)
    BY <1>3, <2>1, SameAgreement DEF ReceivedCek, NewCek
  <2>3. /\ theirs.kty = "X25519" /\ to.kty = "X25519" /\ theirs.of = to.of
        /\ theirs.half = "private" /\ to.half = "public"
    BY <2>2, SamePoint
  <2> QED
    BY <1>3, <2>1, <2>3 DEF Matches, Symmetric
<1>4. CASE alg \in (Agreement \ {"ECDH-ES"}) \cup KeyWrap \cup Pbes2
  <2>1. alg \notin {"dir", "ECDH-ES"} \cup DOMAIN Padding
    BY <1>4, Families
  <2>2. /\ ek # NoBox /\ ek.to = ReceivedKek(header, theirs)
    <3>1. (Require(alg \in Agreement => header.epk # NoPoint, "InvalidToken")
           ?? Require(alg \in Pbes2 => 0 \notin {header.p2s, header.p2c}, "InvalidToken")
           ?? (IF alg \in Agreement THEN AsX25519(theirs) ELSE Ok)
           ?? (KekFits(KekLength(alg, theirs)) ?? Require(ek # NoBox, "InvalidToken")
                 ?? OpensBox(ek, "wrap", ReceivedKek(header, theirs), "ValueError"))) = Ok
      BY <2>1 DEF Unwraps
    <3> QED
      BY <3>1 DEF OpensBox, Require, ??, Ok
  <2>3. ek.cek = RandomCek(n, header.enc)
    BY <2>1 DEF ReceivedCek, NewCek
  <2>4. ek = EncryptedKey(header, to, n)
    BY <2>2, <2>3
  <2>5. EncryptedKey(header, to, n).to = Kek(header, to, Ephemeral(n), PointOf(to))
    BY <2>1 DEF EncryptedKey
  <2>6. Kek(header, theirs, header.epk, PublicOf(theirs))
          = Kek(header, to, Ephemeral(n), PointOf(to))
    BY <2>2, <2>4, <2>5 DEF ReceivedKek
  <2>7. CASE alg \in KeyWrap
    <3>1. GivenKey(theirs) = GivenKey(to)
      BY <2>6, <2>7 DEF Kek
    <3>2. theirs = to
      BY <3>1 DEF GivenKey
    <3> QED
      BY <2>4, <2>7, <3>2 DEF Matches, Symmetric
  <2>8. CASE alg \in Pbes2
    <3>1. alg \notin KeyWrap
      BY <2>8, Families
    <3>2. Kek(header, theirs, header.epk, PublicOf(theirs)).bytes = theirs
      BY <2>8, <3>1 DEF Kek
    <3>3. Kek(header, to, Ephemeral(n), PointOf(to)).bytes = to
      BY <2>8, <3>1 DEF Kek
    <3> QED
      BY <2>4, <2>6, <2>8, <3>2, <3>3 DEF Matches, Symmetric
  <2>9. CASE alg \in Agreement
    <3>1. alg \notin {"dir"} \cup KeyWrap \cup Pbes2 /\ header.epk = Ephemeral(n)
      BY <2>9, Families
    <3>2. PublicOf(theirs) = PointOf(to)
      BY <2>6, <3>1, SameAgreement DEF Kek
    <3>3. /\ theirs.kty = "X25519" /\ to.kty = "X25519" /\ theirs.of = to.of
          /\ theirs.half = "private" /\ to.half = "public"
      BY <3>2, SamePoint
    <3> QED
      BY <2>4, <3>1, <3>3 DEF Matches, Symmetric
  <2> QED
    BY <1>4, <2>7, <2>8, <2>9
<1>5. alg \in {"dir"} \cup DOMAIN Padding \cup KeyWrap \cup Agreement \cup Pbes2
  BY Admitted
<1> QED
  BY <1>1, <1>2, <1>3, <1>4, <1>5

(* A tag opens with what it was made over, and nothing else.               *)
LEMMA TagNames ==
  ASSUME NEW header, NEW cek, NEW iv, NEW ct,
         NEW header2, NEW cek2, NEW iv2, NEW ct2,
         Tag(header, cek, iv, ct) = Tag(header2, cek2, iv2, ct2)
  PROVE  header = header2 /\ cek = cek2 /\ iv = iv2 /\ ct = ct2
BY DEF Tag, Aad

LEMMA TagMatches ==
  ASSUME NEW token, NEW cek, OpensContent(token, cek) = Ok
  PROVE  token.tag = Tag(token.header, cek, token.iv, token.ct)
<1> DEFINE enc     == token.header.enc
           matches == token.tag = Tag(token.header, cek, token.iv, token.ct)
           fits    == token.iv.len = NonceLength(enc)
<1>1. OpensContent(token, cek)
        = CASE enc \in Gcm ->
                 Require(cek.len \in {16, 32} /\ fits /\ matches, "InvalidToken")
            [] enc \in ChaCha ->    Require(cek.len = 32, "InvalidKey")
                                 ?? Require(fits, "ValueError")
                                 ?? Require(matches, "InvalidSignature")
            [] OTHER -> Require(matches, "InvalidSignature")
  BY DEF OpensContent
<1>2. Gcm \cap ChaCha = {}
  BY DEF Gcm, ChaCha
<1>3. matches
  <2> HIDE DEF matches, fits
  <2> QED
    BY <1>1, <1>2 DEF Require, ??, Ok
<1> QED
  BY <1>3

(* An encrypted key is of one message.                                     *)
LEMMA BoxNames ==
  ASSUME NEW header, NEW to, NEW n, EncryptedKey(header, to, n) # NoBox
  PROVE  EncryptedKey(header, to, n).cek = RandomCek(n, header.enc)
<1>1. header.alg \notin {"dir", "ECDH-ES"}
  BY Boxes
<1>2. CASE header.alg \in DOMAIN Padding
  BY <1>1, <1>2 DEF EncryptedKey
<1>3. CASE header.alg \notin DOMAIN Padding
  BY <1>1, <1>3 DEF EncryptedKey
<1> QED
  BY <1>2, <1>3

(* What arrives has the tag of a message, and an encrypted key of one.     *)
IsToken(token) ==
  token = [parts |-> token.parts, header |-> token.header, ek |-> token.ek,
           iv |-> token.iv, ct |-> token.ct, tag |-> token.tag]

LEMMA SentIsToken ==
  ASSUME IInv, NEW i \in Messages
  PROVE  IsToken(sent[i].token)
<1> DEFINE token == sent[i].token
<1>1. token = Encrypted(token.header, sent[i].key, i, i)
  BY DEF IInv, Sealed
<1>2. ASSUME NEW header, NEW key, NEW n
      PROVE  IsToken(Encrypted(header, key, n, n))
  BY DEF Encrypted, IsToken
<1> HIDE DEF token
<1> QED
  BY <1>1, <1>2 DEF token

LEMMA Arrived ==
  ASSUME IInv, NEW token \in Received
  PROVE  /\ IsToken(token)
         /\ \E i \in Messages : token.tag = sent[i].token.tag
         /\ token.ek = NoBox \/ \E i \in Messages : token.ek = sent[i].token.ek
<1>1. CASE token \in Mixed
  <2>1. PICK m \in Messages \X Messages \X Messages \X Messages \X Messages :
          token = [parts |-> 5, header |-> sent[m[1]].token.header, ek |-> sent[m[2]].token.ek,
                   iv |-> sent[m[3]].token.iv, ct |-> sent[m[4]].token.ct,
                   tag |-> sent[m[5]].token.tag]
    BY <1>1 DEF Mixed
  <2>2. m[2] \in Messages /\ m[5] \in Messages
    OBVIOUS
  <2> QED
    BY <2>1, <2>2 DEF IsToken
<1>2. CASE \E i \in Messages : \/ token = [sent[i].token EXCEPT !.header.spelling = "other"]
                               \/ token = [sent[i].token EXCEPT !.ek = NoBox]
                               \/ token = [sent[i].token EXCEPT !.parts = 4]
  <2>1. PICK i \in Messages : \/ token = [sent[i].token EXCEPT !.header.spelling = "other"]
                              \/ token = [sent[i].token EXCEPT !.ek = NoBox]
                              \/ token = [sent[i].token EXCEPT !.parts = 4]
    BY <1>2
  <2> DEFINE was == sent[i].token
  <2>2. IsToken(was)
    BY SentIsToken
  <2>3. \/ token = [was EXCEPT !.header = [was.header EXCEPT !.spelling = "other"]]
        \/ token = [was EXCEPT !.ek = NoBox]
        \/ token = [was EXCEPT !.parts = 4]
    BY <2>1
  <2> HIDE DEF was
  <2>4. DOMAIN was = {"parts", "header", "ek", "iv", "ct", "tag"}
    BY <2>2 DEF IsToken
  <2>5. IsToken(token) /\ token.tag = was.tag /\ token.ek \in {NoBox, was.ek}
    BY <2>2, <2>3, <2>4 DEF IsToken
  <2> QED
    BY <2>5 DEF was
<1> QED
  BY <1>1, <1>2 DEF Received

LEMMA SealedBefore ==
  ASSUME IInv, NEW token \in Received, NEW key \in Keys, Decrypts(token, key) = Ok
  PROVE  \E i \in Messages :
           /\ token = [sent[i].token EXCEPT !.ek = token.ek]
           /\ token.header.alg = "ECDH-ES" \/ token.ek = sent[i].token.ek
           /\ Recipient(sent[i], key) /\ Decrypted(token).payload = i
<1>1. IsToken(token)
  BY Arrived
<1>2. PICK i \in Messages : token.tag = sent[i].token.tag
  BY Arrived
<1> DEFINE was    == sent[i].token
           header == was.header
           to     == To(sent[i])
           theirs == JweKeyBytes(key, FALSE)
           cek    == ReceivedCek(token.header, theirs, token.ek)
<1>3. Consists(was, header, to, i)
  <2>1. Sealed(sent[i], i)
    BY DEF IInv
  <2>2. to = To(sent[i])
    OBVIOUS
  <2> HIDE DEF to
  <2> QED
    BY <2>1, <2>2, Parts
<1>4. /\ JweKeyLoads(key, FALSE) = Ok /\ token.parts = 5
      /\ Unwraps(token.header, theirs, token.ek) = Ok /\ OpensContent(token, cek) = Ok
  BY DEF Decrypts, Require, ??, Ok
<1>5. /\ token.header = header /\ cek = NewCek(header, to, i)
      /\ token.iv = was.iv /\ token.ct = was.ct
  <2>1. token.tag = Tag(token.header, cek, token.iv, token.ct)
    BY <1>4, TagMatches
  <2>2. was.tag = Tag(header, NewCek(header, to, i), was.iv, was.ct)
    BY <1>3 DEF Consists
  <2>3. token.tag = was.tag
    BY <1>2
  <2> HIDE DEF was, header, to, theirs, cek
  <2>4. Tag(token.header, cek, token.iv, token.ct)
          = Tag(header, NewCek(header, to, i), was.iv, was.ct)
    BY <2>1, <2>2, <2>3
  <2> QED
    BY <2>4, TagNames
<1>6. /\ to.half \in {"secret", "private", "public"}
      /\ to.of = theirs.of => to.kty = theirs.kty
  <2>1. sent[i].key \in Keys /\ JweKeyLoads(sent[i].key, TRUE) = Ok
    BY Owner DEF IInv
  <2> QED
    BY <1>4, <2>1, ShapeAssumption DEF To
<1>7. token.ek # NoBox /\ token.ek.cek = RandomCek(i, header.enc)
        => token.ek = EncryptedKey(header, to, i)
  <2> SUFFICES ASSUME token.ek # NoBox, token.ek.cek = RandomCek(i, header.enc)
               PROVE  token.ek = EncryptedKey(header, to, i)
    OBVIOUS
  <2>1. PICK j \in Messages : token.ek = sent[j].token.ek
    BY Arrived
  <2>2. PICK header2, to2 : token.ek = EncryptedKey(header2, to2, j)
    <3>1. Sealed(sent[j], j)
      BY DEF IInv
    <3>2. Consists(sent[j].token, sent[j].token.header, To(sent[j]), j)
      BY <3>1, Parts
    <3> QED
      BY <2>1, <3>2 DEF Consists
  <2>3. RandomCek(j, header2.enc) = RandomCek(i, header.enc)
    BY <2>2, BoxNames
  <2>4. j = i
    BY <2>3 DEF RandomCek
  <2> QED
    BY <1>3, <2>1, <2>4 DEF Consists
<1> HIDE DEF was, header, to, theirs, cek
<1>8. /\ NamesAlgorithms(header) = Ok /\ Wraps(header, to) = Ok
      /\ header.alg \in Agreement => header.epk = Ephemeral(i)
      /\ was.parts = 5 /\ was.ek = EncryptedKey(header, to, i)
      /\ was.ct.plain = [payload |-> i, deflated |-> header.zip]
      /\ DOMAIN was = {"parts", "header", "ek", "iv", "ct", "tag"}
  BY <1>3 DEF Consists
<1>9. /\ Matches(header, theirs, to)
      /\ header.alg = "ECDH-ES" \/ token.ek = was.ek
  BY <1>4, <1>5, <1>6, <1>7, <1>8, OnlyTheRecipient DEF cek
<1>10. Recipient(sent[i], key)
  BY <1>4, <1>9 DEF Recipient, Matches, To, to, theirs, header, was
<1>11. token = [was EXCEPT !.ek = token.ek]
  <2>1. IsToken(was)
    BY SentIsToken DEF was
  <2>2. token.tag = was.tag /\ token.header = was.header
    BY <1>2, <1>5 DEF was, header
  <2> QED
    BY <1>1, <1>4, <1>5, <1>8, <2>1, <2>2 DEF IsToken
<1>12. Decrypted(token).payload = i
  <2>1. token.ct.plain = [payload |-> i, deflated |-> header.zip]
    BY <1>5, <1>8
  <2>2. [token.ct.plain EXCEPT !.deflated = FALSE].payload = i
    BY <2>1, Inflated
  <2> QED
    BY <2>1, <2>2 DEF Decrypted
<1> QED
  BY <1>5, <1>9, <1>10, <1>11, <1>12 DEF was

(* What decrypt_compact accepts of all that can be put together from       *)
(* segments sent is one message, under a recipient's key.                  *)
THEOREM OnlyWhatWasSealedAlways == Spec => []OnlyWhatWasSealed
<1>1. IInv => OnlyWhatWasSealed
  BY SealedBefore DEF OnlyWhatWasSealed
<1> QED
  BY <1>1, IInvAlways, PTL
=============================================================================
