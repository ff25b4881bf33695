----------------------------- MODULE PasetoKey -----------------------------
(***************************************************************************)
(* The Key class of webtoken.py: how a PASETO key object comes from raw    *)
(* bytes, a JWK, a PEM or a PASERK, and goes back to a PASERK.             *)
(*                                                                         *)
(* A document is what an application holds a key in.  Its two halves are   *)
(* bytes, `private` Absent in a public key; `spells` says that its text    *)
(* has what Key.new takes for the mark of a private key: the word PRIVATE, *)
(* "k4.secret", or a brace and a letter d.                                 *)
(***************************************************************************)
EXTENDS Paserk

Document(kind, private, public, spells, paserk) ==
  [kind |-> kind, private |-> private, public |-> public,
   spells |-> spells, paserk |-> paserk]

NoPaserk == PlainText("", <<>>)

(* Random bytes may spell a mark by chance.                                *)
Raw(bytes, spells) == Document("raw", Absent, bytes, spells, NoPaserk)

(* A JWK as a dict shows its members; as text only its letters.            *)
JwkDict(private, public) ==
  Document("dict", private, public, Given(private), NoPaserk)
JwkText(private, public, spells) ==
  Document("text", private, public, spells \/ Given(private), NoPaserk)
Pem(private, public) == Document("pem", private, public, Given(private), NoPaserk)
InPaserk(paserk) ==
  Document("paserk", Absent, Absent,
           paserk.version = "k4" /\ paserk.type = "secret", paserk)

(* A document in one piece: 64 raw bytes are a seed and its own public     *)
(* half, and what has a private half has the public half that goes with it. *)
IsDocument(doc) ==
  IF doc.kind = "paserk"
  THEN /\ IsBytes(doc.paserk.data.holds) /\ Given(doc.paserk.data.holds)
       /\ doc.private = Absent /\ doc.public = Absent
  ELSE /\ IsBytes(doc.public) /\ Given(doc.public)
       /\ IF doc.kind = "raw"
          THEN /\ doc.private = Absent
               /\ Size(doc.public) = 64 => doc.public[2] = EdPublic(doc.public[1])
          ELSE Given(doc.private) =>
                 IsBytes(doc.private) /\ doc.public = <<EdPublic(doc.private[1])>>

(* The text of an Ed25519 JWK names its curve, and so has a letter d.      *)
Ed25519Text(private, public) == JwkText(private, public, TRUE)

(***************************************************************************)
(* decode_paserk_key, the universal parser: JWK or PEM (extract_key_bytes  *)
(* of an OKP key gives the private half unless the public one is asked     *)
(* for), PASERK without any secret, or bytes as they are.                  *)
(***************************************************************************)
UniversalError(doc, expected) ==
  IF doc.kind = "paserk" THEN DecodeError(doc.paserk, expected, Nothing) ELSE Ok

Universal(doc, expected) ==
  IF doc.kind = "paserk" THEN Decoded(doc.paserk)
  ELSE IF expected # "public" /\ Given(doc.private) THEN doc.private
  ELSE doc.public

(***************************************************************************)
(* A Key and its constructors.                                             *)
(***************************************************************************)
Key(purpose, bytes) == [purpose |-> purpose, key_bytes |-> bytes]

Raw32(doc) == doc.kind = "raw" /\ Size(doc.public) = 32

(* The purpose Key.new settles on.                                         *)
PurposeOf(purpose, doc) ==
  IF Raw32(doc) THEN purpose
  ELSE IF purpose = "secret" \/ doc.spells THEN "secret"
  ELSE "public"

NewError(purpose, doc) ==
  LET actual == PurposeOf(purpose, doc)
      sizes  == IF actual = "public" THEN {32} ELSE {32, 64}
  IN  Require(purpose \in Purposes, "ValueError")
      ?? IF Raw32(doc) THEN Ok
         ELSE Require(/\ purpose # "local"
                      /\ UniversalError(doc, actual) = Ok
                      /\ Size(Universal(doc, actual)) \in sizes, "ValueError")

New(purpose, doc) ==
  LET actual == PurposeOf(purpose, doc)
  IN  Key(actual, IF Raw32(doc) THEN doc.public ELSE Universal(doc, actual))

(* from_asymmetric_key_params: exactly one of x and d, of 32 bytes.        *)
ParamsError(x, d) ==
  Require(/\ Given(x) # Given(d)
          /\ Size(IF Given(d) THEN d ELSE x) = 32, "ValueError")
FromParams(x, d) ==
  IF Given(d) THEN Key("secret", d) ELSE Key("public", x)

(* Mutant: the purpose is the second part of the text as it stands.        *)
FromPaserk_Type(paserk) == Key(paserk.type, Decoded(paserk))

(***************************************************************************)
(* from_paserk and to_paserk.  The purpose is read off the text, and what  *)
(* is neither secret nor public, a sealed key for one, is local.           *)
(***************************************************************************)
FromPaserkError(paserk, using) ==
  LET error == DecodeError(paserk, Any, using)
  IN  IF error = "FailedToUnwrap" THEN "DecryptError"
      ELSE Require(error = Ok, "ValueError")

FromPaserk(paserk) ==
  Key(IF paserk.type \in {"secret", "public"} THEN paserk.type ELSE "local",
      Decoded(paserk))

CanExport(key, using) == CanEncode(key.purpose, key.key_bytes, using)
ToPaserk(key, using)  == Encoded(key.purpose, key.key_bytes, using)
=============================================================================
