------------------------------- MODULE Paserk -------------------------------
(***************************************************************************)
(* PASERK v4, the text form of PASETO keys: what paseto.rs writes and      *)
(* reads (encode_paserk, decode_paserk, calculate_paserk_id) and the       *)
(* second reader and writer that lib.rs exports beside it (paserk_wrap,    *)
(* paserk_unwrap).                                                         *)
(*                                                                         *)
(* Bytes are sequences of 32-byte blocks, so that a key of a legal length  *)
(* has one or two of them and <<>> and longer sequences stand for the      *)
(* wrong lengths.  A block is a sequence of strings: <<"a">> is random     *)
(* material, and every derivation puts its name in front of the block it   *)
(* starts from.  Ciphers are ideal: a protected key is a box that shows    *)
(* nothing but its length, and its MAC holds for exactly the header and    *)
(* the secret it was made with.                                            *)
(***************************************************************************)
EXTENDS Naturals, Sequences, Verdict

Size(bytes) == 32 * Len(bytes)

IsList(s) == s \in Seq({s[i] : i \in DOMAIN s})

IsBytes(bytes) ==
  IsList(bytes) /\ \A i \in DOMAIN bytes : IsList(bytes[i]) /\ bytes[i] # <<>>

EdPublic(seed)   == <<"ed">> \o seed     \* ed25519_public_from_seed
XPublic(private) == <<"x">> \o private   \* x25519_public_from_private
XPrivate(seed)   == <<"sha">> \o seed    \* the clamped hash of an Ed25519 seed

(***************************************************************************)
(* The optional arguments of both readers and both writers: a wrapping     *)
(* key, a password, and the X25519 key that seals or unseals.  PEM and DER *)
(* forms of the last lose their wrapper in extract_x25519_bytes.           *)
(***************************************************************************)
Absent  == << <<"absent">> >>
Given(bytes) == bytes # Absent

Nothing     == [wk |-> Absent, pw |-> Absent, x |-> Absent]
Wrapping(b) == [Nothing EXCEPT !.wk = b]
Password(b) == [Nothing EXCEPT !.pw = b]
Sealing(b)  == [Nothing EXCEPT !.x = b]

(* Three arguments; no block of real bytes is the block of Absent.         *)
IsUsing(using) ==
  /\ using = [wk |-> using.wk, pw |-> using.pw, x |-> using.x]
  /\ IsBytes(using.wk) /\ IsBytes(using.pw) /\ IsBytes(using.x)
  /\ Given(using.x) => \A i \in DOMAIN using.x : \A j \in DOMAIN using.x[i] :
                         using.x[i][j] # "absent"

(***************************************************************************)
(* A PASERK is k4.<type>[-wrap.pie|-pw].<data>: `form` is the suffix of    *)
(* the second part and `pie` says that a third part "pie" precedes the     *)
(* data, which is what makes four parts.  Data is a box, or bytes in the   *)
(* clear, or not base64 at all.                                            *)
(***************************************************************************)
Purposes == {"local", "public", "secret"}
Lockable == {"local", "secret"}     \* the types that have -wrap and -pw

Box(kind, type, by, key) == [box |-> kind, type |-> type, by |-> by, holds |-> key]
Clear(key) == Box("none", "", <<>>, key)
NotBase64  == Box("junk", "", <<>>, <<>>)

(* What base64 alone shows: of a box, bytes longer than any key.           *)
Contents(data) ==
  IF data.box = "none" THEN data.holds
  ELSE [i \in 1..(Len(data.holds) + 2) |-> <<"cipher">>]

PaserkText(type, form, data) ==
  [version |-> "k4", type |-> type, form |-> form, pie |-> form = "wrap", data |-> data]

PieText(type, wk, key) == PaserkText(type, "wrap", Box("pie", type, wk, key))
PwText(type, pw, key)  == PaserkText(type, "pw", Box("pw", type, pw, key))
SealText(public, key)  == PaserkText("seal", "plain", Box("seal", "seal", public, key))
PlainText(type, key)   == PaserkText(type, "plain", Clear(key))

(***************************************************************************)
(* encode_paserk.  A 32-byte secret key is stored with its public half; a  *)
(* password wins over a sealing key, and that over a wrapping key.         *)
(***************************************************************************)
(* Mutant: the public half is appended to every secret key.                *)
Stored_Twice(purpose, key) ==
  IF purpose = "secret" THEN key \o <<EdPublic(key[1])>> ELSE key

Stored(purpose, key) ==
  IF purpose = "secret" /\ Size(key) = 32 THEN key \o <<EdPublic(key[1])>> ELSE key

CanEncode(purpose, key, using) ==
  /\ ~(Given(using.wk) /\ Given(using.pw))
  /\ purpose = "public" => ~Given(using.wk) /\ ~Given(using.pw)
  /\ purpose \in Purposes
  /\ Size(key) = 32 \/ (purpose = "secret" /\ Size(key) = 64)
  /\ ~Given(using.pw) /\ Given(using.x)  => purpose = "local" /\ Size(using.x) = 32
  /\ ~Given(using.x)  /\ Given(using.wk) => Size(using.wk) = 32

Encoded(purpose, key, using) ==
  LET stored == Stored(purpose, key)
  IN  IF Given(using.pw) THEN PwText(purpose, using.pw, stored)
      ELSE IF Given(using.x) THEN SealText(using.x, stored)
      ELSE IF Given(using.wk) THEN PieText(purpose, using.wk, stored)
      ELSE PlainText(purpose, stored)

(***************************************************************************)
(* decode_paserk.  `expected` is a purpose or Any.  "FailedToUnwrap" is    *)
(* the one message its callers tell from the other errors.                 *)
(***************************************************************************)
Any == "any"

Is(expected, type) == expected \in {Any, type}

PieError(paserk, expected, using) ==
     Require(paserk.pie /\ Is(expected, paserk.type) /\ paserk.data.box # "junk", "InvalidKey")
  ?? Require(Given(using.wk), "FailedToUnwrap")
  ?? Require(Size(using.wk) = 32, "InvalidKey")
  ?? Require(paserk.data = Box("pie", paserk.type, using.wk, paserk.data.holds), "FailedToUnwrap")

(* Mutant: the header is left out of what the tag covers.                  *)
PwError_NoHeader(paserk, expected, using) ==
     Require(/\ ~paserk.pie /\ Is(expected, paserk.type)
             /\ Given(using.pw) /\ paserk.data.box # "junk", "InvalidKey")
  ?? Require(/\ paserk.data = Box("pw", paserk.data.type, using.pw, paserk.data.holds)
             /\ Len(paserk.data.holds) >= 1, "FailedToUnwrap")

(* 120 bytes at least: the box and one block.                              *)
PwError(paserk, expected, using) ==
     Require(/\ ~paserk.pie /\ Is(expected, paserk.type)
             /\ Given(using.pw) /\ paserk.data.box # "junk", "InvalidKey")
  ?? Require(/\ paserk.data = Box("pw", paserk.type, using.pw, paserk.data.holds)
             /\ Len(paserk.data.holds) >= 1, "FailedToUnwrap")

(* Mutant: a key of 32 bytes is one byte too short.                        *)
SealError_TooShort(paserk, using) ==
  Require(/\ Given(using.x) /\ Size(using.x) = 32
          /\ ~paserk.pie
          /\ paserk.data = Box("seal", "seal", <<XPublic(using.x[1])>>, paserk.data.holds)
          /\ Len(paserk.data.holds) > 1, "InvalidKey")

(* The expected purpose is not looked at.                                  *)
SealError(paserk, using) ==
  Require(/\ Given(using.x) /\ Size(using.x) = 32
          /\ ~paserk.pie
          /\ paserk.data = Box("seal", "seal", <<XPublic(using.x[1])>>, paserk.data.holds)
          /\ Len(paserk.data.holds) >= 1, "InvalidKey")

PlainError(paserk, expected, using) ==
  Require(/\ ~paserk.pie /\ paserk.form = "plain"
          /\ ~Given(using.wk) /\ ~Given(using.pw)
          /\ paserk.type \in (IF expected = Any THEN Purposes ELSE {expected})
          /\ paserk.data.box # "junk", "InvalidKey")

Wrapped(paserk)  == paserk.type \in Lockable /\ paserk.form = "wrap"
WithPw(paserk)   == paserk.type \in Lockable /\ paserk.form = "pw"
Sealed(paserk)   == paserk.type = "seal" /\ paserk.form = "plain"
Locked(paserk)   == Wrapped(paserk) \/ WithPw(paserk) \/ Sealed(paserk)

DecodeError(paserk, expected, using) ==
     Require(~(Given(using.wk) /\ Given(using.pw)) /\ paserk.version = "k4", "InvalidKey")
  ?? IF Wrapped(paserk) THEN PieError(paserk, expected, using)
     ELSE IF WithPw(paserk) THEN PwError(paserk, expected, using)
     ELSE IF Sealed(paserk) THEN SealError(paserk, using)
     ELSE PlainError(paserk, expected, using)

Decoded(paserk) == IF Locked(paserk) THEN paserk.data.holds ELSE Contents(paserk.data)

(***************************************************************************)
(* calculate_paserk_id and paserk_peer_id: a hash of the plain PASERK, for *)
(* which that PASERK stands.  NoId is the empty string.                    *)
(***************************************************************************)
NoId == PlainText("", <<>>)

IdError(purpose, key) == Require(CanEncode(purpose, key, Nothing), "InvalidKey")
Id(purpose, key) == Encoded(purpose, key, Nothing)

PeerIdError(purpose, key) == Require(purpose = "secret" => Size(key) = 32, "InvalidKey")
PeerId(purpose, key) ==
  IF purpose = "secret" THEN Id("public", <<EdPublic(key[1])>>) ELSE NoId

(***************************************************************************)
(* The second writer, paserk_wrap of lib.rs: the key is stored as it is,   *)
(* whatever its length; `limits` says whether Argon2 takes the memory and  *)
(* time limits of the options.  A wrapping key of more than 64 bytes       *)
(* panics.  paserk_seal takes the 32 bytes it is given for a private key   *)
(* and seals to the public key of that.                                    *)
(***************************************************************************)
CanWrap(purpose, key, using, limits) ==
  IF Given(using.pw) THEN purpose \in Lockable /\ limits
  ELSE IF Given(using.wk) THEN purpose \in Lockable /\ Size(using.wk) <= 64
  ELSE IF Given(using.x) THEN Size(using.x) = 32
  ELSE purpose \in Purposes

WrappedText(purpose, key, using) ==
  IF Given(using.pw) THEN PwText(purpose, using.pw, key)
  ELSE IF Given(using.wk) THEN PieText(purpose, using.wk, key)
  ELSE IF Given(using.x) THEN SealText(<<XPublic(using.x[1])>>, key)
  ELSE PlainText(purpose, key)

(***************************************************************************)
(* The second reader, paserk_unwrap of lib.rs.  It unseals with a 64-byte  *)
(* Ed25519 pair too, and without a secret it takes any k4 text apart.      *)
(***************************************************************************)
Unsealer(x) == IF Size(x) = 64 THEN XPrivate(x[1]) ELSE x[1]

(* Mutant: the prefix of a wrapped secret key is forgotten.                *)
CanUnwrap_LocalOnly(paserk, using) ==
  /\ paserk.version = "k4"
  /\ IF Given(using.pw)
     THEN /\ WithPw(paserk) /\ ~paserk.pie
          /\ paserk.data = Box("pw", paserk.type, using.pw, paserk.data.holds)
     ELSE IF Given(using.wk)
     THEN /\ Wrapped(paserk) /\ paserk.pie /\ paserk.type = "local"
          /\ paserk.data = Box("pie", "local", using.wk, paserk.data.holds)
     ELSE IF Given(using.x)
     THEN /\ Sealed(paserk) /\ ~paserk.pie /\ Size(using.x) \in {32, 64}
          /\ paserk.data = Box("seal", "seal", <<XPublic(Unsealer(using.x))>>, paserk.data.holds)
     ELSE ~paserk.pie /\ paserk.data.box # "junk"

CanUnwrap(paserk, using) ==
  /\ paserk.version = "k4"
  /\ IF Given(using.pw)
     THEN /\ WithPw(paserk) /\ ~paserk.pie
          /\ paserk.data = Box("pw", paserk.type, using.pw, paserk.data.holds)
     ELSE IF Given(using.wk)
     THEN /\ Wrapped(paserk) /\ paserk.pie /\ Size(using.wk) <= 64
          /\ paserk.data = Box("pie", paserk.type, using.wk, paserk.data.holds)
     ELSE IF Given(using.x)
     THEN /\ Sealed(paserk) /\ ~paserk.pie /\ Size(using.x) \in {32, 64}
          /\ paserk.data = Box("seal", "seal", <<XPublic(Unsealer(using.x))>>, paserk.data.holds)
          /\ Len(paserk.data.holds) >= 1
     ELSE ~paserk.pie /\ paserk.data.box # "junk"

Unwrapped(paserk, using) ==
  IF using = Nothing THEN Contents(paserk.data) ELSE paserk.data.holds
=============================================================================
