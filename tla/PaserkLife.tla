----------------------------- MODULE PaserkLife -----------------------------
(***************************************************************************)
(* A key on its way between programs.  One holder at a time has it as a    *)
(* Key object, writes it as a PASERK with either writer, and the next one  *)
(* reads it with either reader; on the way a text can be relabelled or     *)
(* spoilt, and any reader can be called with any secrets.                  *)
(***************************************************************************)
EXTENDS PasetoKey

CONSTANTS Documents,   \* what keys are made from
          Usings,      \* the secrets writers and readers are called with
          MaxBlocks    \* bound: no longer key is written again

ASSUME PaserkAssumption == Nothing \in Usings /\ MaxBlocks \in Nat

ASSUME ShapeAssumption ==
  (\A doc \in Documents : IsDocument(doc)) /\ (\A using \in Usings : IsUsing(using))

NoKey == Key("none", <<>>)

VARIABLES key,       \* the Key object of the present holder
          text,      \* the PASERK in transit, or NoPaserk
          outcome,   \* of the last call: Ok or its exception
          first,     \* history: the key when it was created
          sent,      \* history: how and from what `text` was written
          kept       \* history: every import was of a text as it was written

vars == <<key, text, outcome, first, sent, kept>>

NotSent == [by |-> "none", using |-> Nothing, key |-> NoKey, intact |-> TRUE]

Init == /\ key = NoKey /\ first = NoKey
        /\ text = NoPaserk /\ sent = NotSent
        /\ outcome = Ok /\ kept = TRUE

(***************************************************************************)
(* Creation: Key.new and Key.from_asymmetric_key_params.                   *)
(***************************************************************************)
Fails(error) == /\ outcome' = error
                /\ UNCHANGED <<key, text, first, sent, kept>>

Creates(new) == /\ key' = new /\ first' = new
                /\ text' = NoPaserk /\ sent' = NotSent
                /\ outcome' = Ok /\ kept' = TRUE

Create(purpose, doc) ==
  IF NewError(purpose, doc) = Ok
  THEN Creates(New(purpose, doc))
  ELSE Fails(NewError(purpose, doc))

CreateFromParams(doc) ==
  \E x \in {Absent, doc.public}, d \in {Absent, doc.private} :
    IF ParamsError(x, d) = Ok
    THEN Creates(FromParams(x, d))
    ELSE Fails(ParamsError(x, d))

(***************************************************************************)
(* The two writers.                                                        *)
(***************************************************************************)
Sends(paserk, by, using) ==
  /\ text' = paserk
  /\ sent' = [by |-> by, using |-> using, key |-> key, intact |-> TRUE]
  /\ outcome' = Ok
  /\ UNCHANGED <<key, first, kept>>

Export(using) ==
  /\ key # NoKey
  /\ IF CanExport(key, using)
     THEN Sends(ToPaserk(key, using), "to_paserk", using)
     ELSE Fails("ValueError")

WrapOut(using, limits) ==
  /\ key # NoKey /\ Len(key.key_bytes) <= MaxBlocks
  /\ IF CanWrap(key.purpose, key.key_bytes, using, limits)
     THEN Sends(WrappedText(key.purpose, key.key_bytes, using), "paserk_wrap", using)
     ELSE Fails("ValueError")

(***************************************************************************)
(* What can happen to a text: another type, form or version on the same    *)
(* data, or data that is no longer base64; it happens once to a text.      *)
(***************************************************************************)
Relabel(type, form, version) ==
  /\ text # NoPaserk /\ sent.intact
  /\ text' = [text EXCEPT !.type = type, !.form = form, !.version = version,
                          !.pie = (form = "wrap")]
  /\ text' # text
  /\ sent' = [sent EXCEPT !.intact = FALSE]
  /\ UNCHANGED <<key, outcome, first, kept>>

Spoil ==
  /\ text # NoPaserk /\ sent.intact
  /\ text' = [text EXCEPT !.data = NotBase64]
  /\ sent' = [sent EXCEPT !.intact = FALSE]
  /\ UNCHANGED <<key, outcome, first, kept>>

(***************************************************************************)
(* The two readers.  from_paserk makes a Key; after paserk_unwrap the      *)
(* program has bytes, and makes a Key of them for the purpose it expects.  *)
(* paserk_wrap seals a key of any purpose, which a sealed text does not    *)
(* tell, so that a key it sealed comes back with its purpose lost.         *)
(***************************************************************************)
Faithful == sent.intact /\ (Sealed(text) => sent.key.purpose = "local")

Receives(new) == /\ key' = new
                 /\ outcome' = Ok
                 /\ kept' = (kept /\ Faithful)
                 /\ UNCHANGED <<text, first, sent>>

Import(using) ==
  /\ text # NoPaserk
  /\ IF FromPaserkError(text, using) = Ok
     THEN Receives(FromPaserk(text))
     ELSE Fails(FromPaserkError(text, using))

ImportBytes(using) ==
  /\ text # NoPaserk
  /\ \E spells \in BOOLEAN :
       LET doc == Raw(Unwrapped(text, using), spells)
       IN  IF CanUnwrap(text, using) /\ NewError(first.purpose, doc) = Ok
           THEN Receives(New(first.purpose, doc))
           ELSE Fails("ValueError")

Next ==
  \/ \E purpose \in Purposes, doc \in Documents : Create(purpose, doc)
  \/ \E doc \in Documents : CreateFromParams(doc)
  \/ \E using \in Usings : Export(using)
  \/ \E using \in Usings, limits \in BOOLEAN : WrapOut(using, limits)
  \/ \E type \in Purposes \cup {"seal"}, form \in {"plain", "wrap", "pw"},
        version \in {"k4", "k3"} : Relabel(type, form, version)
  \/ Spoil
  \/ \E using \in Usings : Import(using)
  \/ \E using \in Usings : ImportBytes(using)

Spec == Init /\ [][Next]_vars

(***************************************************************************)
(* Properties.                                                             *)
(***************************************************************************)
SameKey(k, l) == /\ k.purpose = l.purpose
                 /\ Stored(k.purpose, k.key_bytes) = Stored(l.purpose, l.key_bytes)

(* A key that was kept has a length PASETO can use for its purpose, calls  *)
(* end in the two exceptions the shim documents, and a text is one of the  *)
(* forms k4 has.                                                           *)
TypeOK ==
  /\ kept /\ key # NoKey =>
       /\ key.purpose \in Purposes
       /\ Size(key.key_bytes) \in IF key.purpose = "secret" THEN {32, 64} ELSE {32}
  /\ outcome \in {Ok, "ValueError", "DecryptError"}
  /\ text.form = "wrap" <=> text.pie

(* However often a key is written by either writer and read by either      *)
(* reader, with whatever secrets worked, it is still the key that was      *)
(* created, and has its purpose; a secret key may have grown its public    *)
(* half.  Its id is still the same, and so is its peer id, though a key    *)
(* that has grown is refused one.  (encode_paserk, decode_paserk,          *)
(* Key.from_paserk, calculate_paserk_id, paserk_peer_id)                   *)
KeyKept ==
  kept /\ key # NoKey =>
    /\ SameKey(key, first)
    /\ IdError(key.purpose, key.key_bytes) = Ok
    /\ Id(key.purpose, key.key_bytes) = Id(first.purpose, first.key_bytes)
    /\ PeerIdError(key.purpose, key.key_bytes) = Ok =>
         PeerId(key.purpose, key.key_bytes) = PeerId(first.purpose, first.key_bytes)

(* `using` carries the secret the text was locked with, and only it.       *)
Unlocks(using) ==
  IF sent.by = "to_paserk" /\ Given(sent.using.x) /\ ~Given(sent.using.pw)
  THEN <<XPublic(Unsealer(using.x))>> = sent.using.x
  ELSE IF Given(sent.using.pw) THEN using.pw = sent.using.pw
  ELSE IF Given(sent.using.wk) THEN using.wk = sent.using.wk
  ELSE Unsealer(using.x) = sent.using.x[1]

Protected == text.data.box \in {"pie", "pw", "seal"}

OpensTo(using, bytes) ==
  \/ FromPaserkError(text, using) = Ok /\ FromPaserk(text).key_bytes = bytes
  \/ CanUnwrap(text, using) /\ Unwrapped(text, using) = bytes

(* A wrapped, password-protected or sealed key comes out of either reader  *)
(* only for the secret it was locked with, and only under the header it    *)
(* was written with: the header is part of what the tag authenticates.     *)
OnlyTheRightSecretOpens ==
  Protected => \A using \in Usings :
                 OpensTo(using, text.data.holds) => Unlocks(using) /\ sent.intact

(* The secret the kind of text asks for and no other.                      *)
Suited(using) ==
  IF Wrapped(text) THEN using = Wrapping(using.wk)
  ELSE IF WithPw(text) THEN using = Password(using.pw)
  ELSE IF Sealed(text) THEN using = Sealing(using.x)
  ELSE using = Nothing

(* What from_paserk reads with the secret the text asks for, paserk_unwrap *)
(* reads too, and as the same bytes: the two independent readers of        *)
(* paseto.rs and lib.rs do not drift apart, on damaged texts either.       *)
ReadersAgree ==
  text # NoPaserk =>
    \A using \in Usings :
      Suited(using) /\ FromPaserkError(text, using) = Ok =>
        CanUnwrap(text, using) /\ Unwrapped(text, using) = Decoded(text)

(* The private key whose public half a text is sealed to.                  *)
OpenedBy(using) ==
  IF Given(using.x) /\ sent.by = "to_paserk" /\ Head(using.x[1]) = "x"
  THEN Sealing(<<Tail(using.x[1])>>)
  ELSE using

(* A text as written opens with its secret, and gives back the key it was  *)
(* written from.  (paserk_wrap takes wrapping keys from_paserk refuses,    *)
(* and to_paserk seals to any 32 bytes; both are left out.)                *)
WrittenOpens ==
  LET using  == sent.using
      single == using \in {Nothing, Wrapping(using.wk), Password(using.pw), Sealing(using.x)}
  IN  /\ text # NoPaserk /\ sent.intact /\ single
      /\ Given(using.wk) => Size(using.wk) = 32
      /\ Given(using.x) /\ sent.by = "to_paserk" => Head(using.x[1]) = "x"
      => /\ FromPaserkError(text, OpenedBy(using)) = Ok
         /\ Stored(sent.key.purpose, Decoded(text))
              = Stored(sent.key.purpose, sent.key.key_bytes)

(* Not so: a key sealed with paserk_wrap to the public half of an X25519   *)
(* key opens with the private half.                                        *)
SealedToPublicOpens ==
  sent.by = "paserk_wrap" /\ sent.intact =>
    \A using \in Usings :
      Given(using.x) /\ sent.using = Sealing(<<XPublic(using.x[1])>>) =>
        CanUnwrap(text, Sealing(using.x))
=============================================================================
