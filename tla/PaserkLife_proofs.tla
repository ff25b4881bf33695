------------------------- MODULE PaserkLife_proofs -------------------------
(***************************************************************************)
(* The journeys of a PASETO key, for any documents, any secrets and any    *)
(* number of writers and readers.                                          *)
(***************************************************************************)
EXTENDS PaserkLife, TLAPS

(***************************************************************************)
(* The inductive invariant.                                                *)
(***************************************************************************)
(* Key material is never empty.                                            *)
Holds(bytes) == IsList(bytes) /\ Len(bytes) >= 1

IsUsable(k) ==
  /\ k.purpose \in Purposes
  /\ Size(k.key_bytes) \in IF k.purpose = "secret" THEN {32, 64} ELSE {32}

Holding == key # NoKey => Holds(key.key_bytes)

(* Which call wrote the text, and what it was when it was written.         *)
CouldWrite(s) ==
  \/ s.by = "to_paserk" /\ CanExport(s.key, s.using)
  \/ /\ s.by = "paserk_wrap"
     /\ \E limits \in BOOLEAN : CanWrap(s.key.purpose, s.key.key_bytes, s.using, limits)

Original(s) ==
  IF s.by = "to_paserk" THEN ToPaserk(s.key, s.using)
  ELSE WrappedText(s.key.purpose, s.key.key_bytes, s.using)

(* A text that is not as it was written has lost its data or has another   *)
(* header.                                                                 *)
Altered(t, original) ==
  \/ t.data = NotBase64
  \/ t.data = original.data /\ t # original

IsText(t) ==
  /\ t = [version |-> t.version, type |-> t.type, form |-> t.form, pie |-> t.pie,
          data |-> t.data]
  /\ t.pie = (t.form = "wrap")

Written ==
  text # NoPaserk =>
    /\ sent.using \in Usings /\ Holds(sent.key.key_bytes) /\ CouldWrite(sent)
    /\ sent.intact \in BOOLEAN
    /\ sent.intact => text = Original(sent)
    /\ ~sent.intact => Altered(text, Original(sent))

(* What was written from a key that was kept is that key.                  *)
Kept ==
  /\ kept \in BOOLEAN
  /\ kept /\ key # NoKey => IsUsable(key) /\ SameKey(key, first) /\ Holds(first.key_bytes)
  /\ kept /\ text # NoPaserk =>
       /\ IsUsable(sent.key) /\ SameKey(sent.key, first) /\ Holds(first.key_bytes)

Outcomes == outcome \in {Ok, "ValueError", "DecryptError"}

IInv == Holding /\ IsText(text) /\ Written /\ Kept /\ Outcomes

(***************************************************************************)
(* Bytes.                                                                  *)
(***************************************************************************)
LEMMA Listed ==
  ASSUME NEW s, IsList(s)
  PROVE  Len(s) \in Nat /\ DOMAIN s = 1..Len(s) /\ (Len(s) = 1 => s = <<s[1]>>)
<1> DEFINE S == {s[i] : i \in DOMAIN s}
<1>1. s \in Seq(S)
  BY DEF IsList
<1> HIDE DEF S
<1> QED
  BY <1>1

LEMMA ListOf ==
  ASSUME NEW S, NEW s \in Seq(S)
  PROVE  IsList(s)
<1> DEFINE T == {s[i] : i \in DOMAIN s}
<1>1. Len(s) \in Nat /\ s \in [1..Len(s) -> T]
  OBVIOUS
<1> HIDE DEF T
<1>2. s \in Seq(T)
  BY <1>1
<1> QED
  BY <1>2 DEF IsList, T

(* Two keys or boxes of one block have one size, and so on.                *)
LEMMA Sizes ==
  ASSUME NEW b, IsList(b)
  PROVE  /\ Size(b) = 32 <=> Len(b) = 1
         /\ Size(b) = 64 <=> Len(b) = 2
<1>1. Len(b) \in Nat
  BY Listed
<1>2. \A n \in Nat : (32 * n = 32 <=> n = 1) /\ (32 * n = 64 <=> n = 2)
  OBVIOUS
<1> QED
  BY <1>1, <1>2 DEF Size

(* A public half is added once, and behind the seed.                       *)
LEMMA StoredOnce ==
  ASSUME NEW purpose, NEW b, Holds(b)
  PROVE  /\ Holds(Stored(purpose, b)) /\ Stored(purpose, b)[1] = b[1]
         /\ Stored(purpose, Stored(purpose, b)) = Stored(purpose, b)
         /\ purpose # "secret" => Stored(purpose, b) = b
         /\ purpose = "secret" /\ Size(b) \in {32, 64} => Size(Stored(purpose, b)) = 64
<1>1. CASE purpose = "secret" /\ Size(b) = 32
  <2> DEFINE e == EdPublic(b[1])
             S == {b[i] : i \in DOMAIN b} \cup {e}
             t == b \o <<e>>
  <2>1. Len(b) = 1 /\ b \in Seq(S) /\ <<e>> \in Seq(S) /\ Len(<<e>>) = 1
    BY <1>1, Sizes DEF IsList, Holds
  <2> HIDE DEF e, S
  <2>2. t \in Seq(S) /\ Len(t) = 2
    BY <2>1
  <2>6. t[1] = b[1]
    BY <2>1
  <2>3. Stored(purpose, b) = t
    BY <1>1 DEF Stored, e
  <2>4. IsList(t)
    BY <2>2, ListOf
  <2> HIDE DEF t
  <2>5. Size(t) = 64
    BY <2>2 DEF Size
  <2>7. Stored(purpose, t) = t
    BY <2>5 DEF Stored
  <2> QED
    BY <1>1, <2>2, <2>3, <2>4, <2>5, <2>6, <2>7 DEF Holds
<1>2. CASE ~(purpose = "secret" /\ Size(b) = 32)
  BY <1>2 DEF Stored
<1> QED
  BY <1>1, <1>2

(* A box shows more bytes than it holds, and more than any key has.        *)
LEMMA Shown ==
  ASSUME NEW data, Holds(data.holds)
  PROVE  /\ data.box = "none" => Contents(data) = data.holds
         /\ data.box # "none" =>
              /\ Holds(Contents(data)) /\ Contents(data) # data.holds
              /\ Size(Contents(data)) \notin {32, 64}
<1> SUFFICES ASSUME data.box # "none"
             PROVE  /\ Holds(Contents(data)) /\ Contents(data) # data.holds
                    /\ Size(Contents(data)) \notin {32, 64}
  BY DEF Contents
<1> DEFINE n == Len(data.holds) + 2
           t == [i \in 1..n |-> <<"cipher">>]
<1>1. n \in Nat /\ n >= 3 /\ Len(data.holds) = n - 2
  BY Listed DEF Holds
<1> HIDE DEF n
<1>2. t \in Seq({<<"cipher">>}) /\ Len(t) = n
  BY <1>1
<1>3. Contents(data) = t
  BY DEF Contents, n
<1>4. IsList(t)
  BY <1>2, ListOf
<1> HIDE DEF t
<1> QED
  BY <1>1, <1>2, <1>3, <1>4 DEF Holds, Size

(* What Key.new makes of a document.                                       *)
LEMMA UniversalList ==
  ASSUME NEW doc, IsDocument(doc), NEW e, UniversalError(doc, e) = Ok
  PROVE  IsList(Universal(doc, e))
<1>1. CASE doc.kind = "paserk"
  <2>1. ~Given(Nothing.wk) /\ ~Given(Nothing.pw) /\ ~Given(Nothing.x)
    BY DEF Nothing, Given
  <2>2. DecodeError(doc.paserk, e, Nothing) = Ok
    BY <1>1 DEF UniversalError
  <2>3. ~Locked(doc.paserk)
    BY <2>1, <2>2
       DEF DecodeError, Locked, PieError, PwError, SealError, Require, Ok, ??
  <2>4. Universal(doc, e) = Contents(doc.paserk.data) /\ IsList(doc.paserk.data.holds)
    BY <1>1, <2>3 DEF Universal, Decoded, IsDocument, IsBytes
  <2> DEFINE n == Len(doc.paserk.data.holds) + 2
             t == [i \in 1..n |-> <<"cipher">>]
  <2>5. n \in Nat
    BY <2>4, Listed
  <2> HIDE DEF n
  <2>6. t \in Seq({<<"cipher">>})
    BY <2>5
  <2>7. Contents(doc.paserk.data) \in {doc.paserk.data.holds, t}
    BY DEF Contents, n
  <2> HIDE DEF t
  <2>8. IsList(t)
    BY <2>6, ListOf
  <2> QED
    BY <2>4, <2>7, <2>8
<1>2. CASE doc.kind # "paserk"
  BY <1>2 DEF Universal, IsDocument, IsBytes, Given
<1> QED
  BY <1>1, <1>2

LEMMA Created ==
  ASSUME NEW purpose, NEW doc, NewError(purpose, doc) = Ok,
         Raw32(doc) => IsList(doc.public),
         \A e : UniversalError(doc, e) = Ok => IsList(Universal(doc, e))
  PROVE  Holds(New(purpose, doc).key_bytes) /\ IsUsable(New(purpose, doc))
<1> DEFINE actual == PurposeOf(purpose, doc)
<1>1. purpose \in Purposes
  BY DEF NewError, ??, Require, Ok
<1>2. CASE Raw32(doc)
  <2>1. New(purpose, doc) = Key(purpose, doc.public) /\ Size(doc.public) = 32
    BY <1>2 DEF New, PurposeOf, Raw32
  <2> QED
    BY <1>1, <1>2, <2>1, Sizes DEF Holds, IsUsable, Key
<1>3. CASE ~Raw32(doc)
  <2>1. /\ UniversalError(doc, actual) = Ok
        /\ Size(Universal(doc, actual)) \in IF actual = "public" THEN {32} ELSE {32, 64}
    BY <1>3 DEF NewError, ??, Require, Ok
  <2>2. actual \in {"secret", "public"}
    BY <1>3 DEF PurposeOf
  <2>3. New(purpose, doc) = Key(actual, Universal(doc, actual))
    BY <1>3 DEF New
  <2>4. IsList(Universal(doc, actual))
    BY <2>1
  <2> HIDE DEF actual
  <2>5. Holds(Universal(doc, actual))
    BY <2>1, <2>4, Sizes DEF Holds
  <2> QED
    BY <2>1, <2>2, <2>3, <2>5 DEF IsUsable, Key, Purposes
<1> QED
  BY <1>2, <1>3

(***************************************************************************)
(* The four kinds of text, and what they hold.                             *)
(***************************************************************************)
AsPw(t, s, h) ==
  /\ Given(s.using.pw) /\ s.key.purpose \in Lockable
  /\ t = PwText(s.key.purpose, s.using.pw, h)

AsPie(t, s, h) ==
  /\ ~Given(s.using.pw) /\ Given(s.using.wk) /\ s.key.purpose \in Lockable
  /\ s.by = "to_paserk" => ~Given(s.using.x)
  /\ t = PieText(s.key.purpose, s.using.wk, h)

AsSeal(t, s, h) ==
  /\ ~Given(s.using.pw) /\ Given(s.using.x) /\ Size(s.using.x) = 32
  /\ IF s.by = "to_paserk"
     THEN s.key.purpose = "local" /\ t = SealText(s.using.x, h)
     ELSE ~Given(s.using.wk) /\ t = SealText(<<XPublic(s.using.x[1])>>, h)

AsPlain(t, s, h) ==
  /\ ~Given(s.using.pw) /\ ~Given(s.using.wk) /\ ~Given(s.using.x)
  /\ s.key.purpose \in Purposes /\ t = PlainText(s.key.purpose, h)

LEMMA FourKinds ==
  ASSUME NEW s, Holds(s.key.key_bytes), CouldWrite(s)
  PROVE  \E h \in {s.key.key_bytes, Stored(s.key.purpose, s.key.key_bytes)} :
           \/ AsPw(Original(s), s, h) \/ AsPie(Original(s), s, h)
           \/ AsSeal(Original(s), s, h) \/ AsPlain(Original(s), s, h)
<1> DEFINE purpose == s.key.purpose
           bytes   == s.key.key_bytes
<1>1. CASE s.by = "to_paserk"
  <2>1. CanEncode(purpose, bytes, s.using) /\ Original(s) = Encoded(purpose, bytes, s.using)
    BY <1>1 DEF CouldWrite, CanExport, Original, ToPaserk
  <2>2. purpose \in Purposes /\ (Given(s.using.pw) \/ Given(s.using.wk) => purpose \in Lockable)
    BY <2>1 DEF CanEncode, Purposes, Lockable
  <2>3. ~Given(s.using.pw) /\ Given(s.using.x) => purpose = "local" /\ Size(s.using.x) = 32
    BY <2>1 DEF CanEncode
  <2> DEFINE h == Stored(purpose, bytes)
  <2>4. \/ AsPw(Original(s), s, h) \/ AsPie(Original(s), s, h)
        \/ AsSeal(Original(s), s, h) \/ AsPlain(Original(s), s, h)
    BY <1>1, <2>1, <2>2, <2>3 DEF Encoded, AsPw, AsPie, AsSeal, AsPlain
  <2> QED
    BY <2>4
<1>2. CASE s.by # "to_paserk"
  <2>1. PICK limits \in BOOLEAN : CanWrap(purpose, bytes, s.using, limits)
    BY <1>2 DEF CouldWrite
  <2>2. Original(s) = WrappedText(purpose, bytes, s.using)
    BY <1>2 DEF Original
  <2>3. \/ AsPw(Original(s), s, bytes) \/ AsPie(Original(s), s, bytes)
        \/ AsSeal(Original(s), s, bytes) \/ AsPlain(Original(s), s, bytes)
    BY <1>2, <2>1, <2>2 DEF CanWrap, WrappedText, AsPw, AsPie, AsSeal, AsPlain
  <2> QED
    BY <2>3
<1> QED
  BY <1>1, <1>2

LEMMA KindFacts ==
  ASSUME NEW t, NEW s, NEW h, Holds(h),
         AsPw(t, s, h) \/ AsPie(t, s, h) \/ AsSeal(t, s, h) \/ AsPlain(t, s, h)
  PROVE  /\ IsText(t) /\ t.data.holds = h /\ Decoded(t) = h
         /\ t.data.box \in {"pw", "pie", "seal", "none"}
<1>1. CASE AsPw(t, s, h)
  BY <1>1 DEF AsPw, PwText, PaserkText, Box, IsText, Decoded, Locked, Wrapped, WithPw
<1>2. CASE AsPie(t, s, h)
  BY <1>2 DEF AsPie, PieText, PaserkText, Box, IsText, Decoded, Locked, Wrapped
<1>3. CASE AsSeal(t, s, h)
  <2>1. PICK public : t = SealText(public, h)
    BY <1>3 DEF AsSeal
  <2> QED
    BY <2>1 DEF SealText, PaserkText, Box, IsText, Decoded, Locked, Sealed
<1>4. CASE AsPlain(t, s, h)
  <2>1. t = PlainText(s.key.purpose, h) /\ s.key.purpose # "seal"
    BY <1>4 DEF AsPlain, Purposes
  <2>2. t.data.box = "none" /\ t.data.holds = h /\ IsText(t)
    BY <2>1 DEF PlainText, PaserkText, Clear, Box, IsText
  <2>3. ~Locked(t)
    BY <2>1 DEF PlainText, PaserkText, Locked, Wrapped, WithPw, Sealed
  <2>4. Contents(t.data) = h
    BY <2>2, Shown
  <2> QED
    BY <2>2, <2>3, <2>4 DEF Decoded
<1> QED
  BY <1>1, <1>2, <1>3, <1>4

(* What is in transit holds the key it was written from.                   *)
LEMMA InTransit ==
  ASSUME text # NoPaserk, Written, Holding
  PROVE  \E h \in {sent.key.key_bytes, Stored(sent.key.purpose, sent.key.key_bytes)} :
           /\ Holds(h)
           /\ LET t == Original(sent)
              IN  /\ AsPw(t, sent, h) \/ AsPie(t, sent, h) \/ AsSeal(t, sent, h)
                       \/ AsPlain(t, sent, h)
                  /\ IsText(t) /\ t.data.holds = h /\ Decoded(t) = h
                  /\ t.data.box \in {"pw", "pie", "seal", "none"}
<1>1. Holds(sent.key.key_bytes) /\ CouldWrite(sent)
  BY DEF Written
<1>2. PICK h \in {sent.key.key_bytes, Stored(sent.key.purpose, sent.key.key_bytes)} :
           \/ AsPw(Original(sent), sent, h) \/ AsPie(Original(sent), sent, h)
           \/ AsSeal(Original(sent), sent, h) \/ AsPlain(Original(sent), sent, h)
  BY <1>1, FourKinds
<1>3. Holds(h)
  BY <1>1, <1>2, StoredOnce
<1> QED
  BY <1>2, <1>3, KindFacts

(***************************************************************************)
(* The invariant.                                                          *)
(***************************************************************************)
LEMMA DataHolds ==
  ASSUME text # NoPaserk, Written, Holding, text.data.box # "junk"
  PROVE  Holds(text.data.holds)
<1>1. PICK h : Holds(h) /\ Original(sent).data.holds = h
  BY InTransit
<1>2. text.data # NotBase64
  <2>1. NotBase64.box = "junk"
    BY DEF NotBase64, Box
  <2> QED
    BY <2>1
<1>3. text.data = Original(sent).data
  BY <1>2 DEF Written, Altered
<1> QED
  BY <1>1, <1>3

(* Neither reader takes data that is not base64.                           *)
LEMMA ReadData ==
  ASSUME NEW t, NEW using,
         FromPaserkError(t, using) = Ok \/ CanUnwrap(t, using)
  PROVE  t.data.box # "junk"
<1>1. CASE FromPaserkError(t, using) = Ok
  <2>1. DecodeError(t, Any, using) = Ok
    BY <1>1 DEF FromPaserkError, Require, Ok
  <2>2. CASE Wrapped(t)
    BY <2>1, <2>2 DEF DecodeError, PieError, ??, Require, Ok
  <2>3. CASE ~Wrapped(t) /\ WithPw(t)
    BY <2>1, <2>3 DEF DecodeError, PwError, ??, Require, Ok
  <2>4. CASE ~Wrapped(t) /\ ~WithPw(t) /\ Sealed(t)
    <3>1. t.data = Box("seal", "seal", <<XPublic(using.x[1])>>, t.data.holds)
      BY <2>1, <2>4 DEF DecodeError, SealError, ??, Require, Ok
    <3>2. Box("seal", "seal", <<XPublic(using.x[1])>>, t.data.holds).box = "seal"
      BY DEF Box
    <3> QED
      BY <3>1, <3>2
  <2>5. CASE ~Wrapped(t) /\ ~WithPw(t) /\ ~Sealed(t)
    BY <2>1, <2>5 DEF DecodeError, PlainError, ??, Require, Ok
  <2> QED
    BY <2>2, <2>3, <2>4, <2>5
<1>2. CASE CanUnwrap(t, using)
  <2>1. \A kind, type, by, held : Box(kind, type, by, held).box = kind
    BY DEF Box
  <2> QED
    BY <1>2, <2>1 DEF CanUnwrap
<1> QED
  BY <1>1, <1>2

LEMMA CreateStep ==
  ASSUME IInv, NEW new, Creates(new), Holds(new.key_bytes), IsUsable(new)
  PROVE  IInv'
<1>1. Holding' /\ Outcomes'
  BY DEF Creates, Holding, Outcomes
<1>2. IsText(text)' /\ Written'
  BY DEF Creates, IsText, Written, NoPaserk, PlainText, PaserkText, Clear, Box
<1>3. Kept'
  BY DEF Creates, Kept, SameKey
<1> QED
  BY <1>1, <1>2, <1>3 DEF IInv

LEMMA FailStep ==
  ASSUME IInv, NEW error \in {"ValueError", "DecryptError"}, Fails(error)
  PROVE  IInv'
<1>1. Holding' /\ IsText(text)' /\ Outcomes'
  BY DEF Fails, IInv, Holding, IsText, Outcomes
<1>2. Written'
  BY DEF Fails, IInv, Written
<1>3. Kept'
  BY DEF Fails, IInv, Kept
<1> QED
  BY <1>1, <1>2, <1>3 DEF IInv

LEMMA SendStep ==
  ASSUME IInv, key # NoKey, NEW using \in Usings, NEW by, NEW paserk, Sends(paserk, by, using),
         CouldWrite([by |-> by, using |-> using, key |-> key, intact |-> TRUE]),
         paserk = Original([by |-> by, using |-> using, key |-> key, intact |-> TRUE])
  PROVE  IInv'
<1> DEFINE s == [by |-> by, using |-> using, key |-> key, intact |-> TRUE]
<1>1. /\ text' = Original(s) /\ sent' = s /\ key' = key /\ first' = first /\ kept' = kept
      /\ outcome' = Ok
  BY DEF Sends
<1>2. s.using = using /\ s.key = key /\ s.intact = TRUE
  OBVIOUS
<1>3. CouldWrite(s)
  OBVIOUS
<1> HIDE DEF s
<1>4. Holds(key.key_bytes)
  BY DEF IInv, Holding
<1>5. IsText(Original(s))
  <2>1. PICK h \in {s.key.key_bytes, Stored(s.key.purpose, s.key.key_bytes)} :
          \/ AsPw(Original(s), s, h) \/ AsPie(Original(s), s, h)
          \/ AsSeal(Original(s), s, h) \/ AsPlain(Original(s), s, h)
    BY <1>2, <1>3, <1>4, FourKinds
  <2>2. Holds(h)
    BY <1>2, <1>4, <2>1, StoredOnce
  <2> QED
    BY <2>1, <2>2, KindFacts
<1>6. Holding' /\ Outcomes' /\ IsText(text)'
  BY <1>1, <1>5 DEF IInv, Holding, Outcomes, IsText
<1>7. Written'
  BY <1>1, <1>2, <1>3, <1>4 DEF Written
<1>8. Kept'
  BY <1>1, <1>2 DEF IInv, Kept
<1> QED
  BY <1>6, <1>7, <1>8 DEF IInv

(* Relabel and Spoil.                                                      *)
LEMMA AlterStep ==
  ASSUME IInv, text # NoPaserk, sent.intact, IsText(text'), Altered(text', text),
         sent' = [sent EXCEPT !.intact = FALSE], UNCHANGED <<key, outcome, first, kept>>
  PROVE  IInv'
<1>1. /\ sent'.by = sent.by /\ sent'.using = sent.using /\ sent'.key = sent.key
      /\ sent'.intact = FALSE
  OBVIOUS
<1>2. Holding' /\ IsText(text)' /\ Outcomes'
  BY DEF IInv, Holding, IsText, Outcomes
<1>3. Original(sent') = text /\ CouldWrite(sent')
  BY <1>1 DEF IInv, Written, Original, CouldWrite
<1>4. Written'
  BY <1>1, <1>3 DEF IInv, Written
<1>5. Kept'
  BY <1>1 DEF IInv, Kept
<1> QED
  BY <1>2, <1>4, <1>5 DEF IInv

LEMMA ReceiveStep ==
  ASSUME IInv, NEW new, Receives(new), Holds(new.key_bytes),
         kept /\ Faithful => IsUsable(new) /\ SameKey(new, first) /\ Holds(first.key_bytes)
  PROVE  IInv'
<1>1. Holding' /\ IsText(text)' /\ Outcomes'
  BY DEF Receives, IInv, Holding, IsText, Outcomes
<1>2. Written'
  BY DEF Receives, IInv, Written
<1>3. Kept'
  BY DEF Receives, IInv, Kept, Faithful, Written
<1> QED
  BY <1>1, <1>2, <1>3 DEF IInv

(* A key that comes out of its text, growing its public half or not, is    *)
(* the key that went in.                                                   *)
LEMMA SameAgain ==
  ASSUME NEW purpose, NEW bytes, Holds(bytes), NEW old, old.purpose = purpose,
         IsUsable(old), Holds(old.key_bytes), SameKey(old, first),
         bytes \in {old.key_bytes, Stored(old.purpose, old.key_bytes)}
  PROVE  IsUsable(Key(purpose, bytes)) /\ SameKey(Key(purpose, bytes), first)
<1>1. /\ Stored(purpose, bytes) = Stored(purpose, old.key_bytes)
      /\ purpose # "secret" => bytes = old.key_bytes
      /\ purpose = "secret" => Size(bytes) \in {32, 64}
  <2>1. purpose = "secret" => Size(old.key_bytes) \in {32, 64}
    BY DEF IsUsable
  <2> QED
    BY <2>1, StoredOnce
<1> QED
  BY <1>1 DEF IsUsable, SameKey, Key

LEMMA ImportStep ==
  ASSUME IInv, NEW using \in Usings, Import(using)
  PROVE  IInv'
<1>1. CASE FromPaserkError(text, using) # Ok
  <2>1. Fails(FromPaserkError(text, using))
    BY <1>1 DEF Import
  <2>2. FromPaserkError(text, using) \in {"ValueError", "DecryptError"}
    BY <1>1 DEF FromPaserkError, Require
  <2> QED
    BY <2>1, <2>2, FailStep
<1>2. CASE FromPaserkError(text, using) = Ok
  <2>1. Receives(FromPaserk(text)) /\ text # NoPaserk
    BY <1>2 DEF Import
  <2>2. Holds(text.data.holds)
    BY <1>2, <2>1, ReadData, DataHolds DEF IInv
  <2>3. Holds(FromPaserk(text).key_bytes)
    <3>1. Decoded(text) \in {text.data.holds, Contents(text.data)}
      BY DEF Decoded
    <3> QED
      BY <2>2, <3>1, Shown DEF FromPaserk, Key
  <2>4. ASSUME kept, Faithful
        PROVE  /\ IsUsable(FromPaserk(text)) /\ SameKey(FromPaserk(text), first)
               /\ Holds(first.key_bytes)
    <3>1. text = Original(sent) /\ (Sealed(text) => sent.key.purpose = "local")
      BY <2>1, <2>4 DEF Faithful, IInv, Written
    <3>2. IsUsable(sent.key) /\ SameKey(sent.key, first) /\ Holds(first.key_bytes)
      BY <2>1, <2>4 DEF IInv, Kept
    <3>3. PICK h \in {sent.key.key_bytes, Stored(sent.key.purpose, sent.key.key_bytes)} :
            /\ Holds(h) /\ Decoded(text) = h
            /\ AsPw(text, sent, h) \/ AsPie(text, sent, h) \/ AsSeal(text, sent, h)
                 \/ AsPlain(text, sent, h)
      BY <2>1, <3>1, InTransit DEF IInv
    <3>4. \/ text.type = sent.key.purpose
          \/ text.type = "seal" /\ sent.key.purpose = "local"
      <4>1. CASE AsSeal(text, sent, h)
        <5>1. PICK public : text = SealText(public, h)
          BY <4>1 DEF AsSeal
        <5>2. Sealed(text) /\ text.type = "seal"
          BY <5>1 DEF SealText, PaserkText, Sealed
        <5> QED
          BY <3>1, <5>2
      <4>2. CASE ~AsSeal(text, sent, h)
        BY <3>3, <4>2 DEF AsPw, AsPie, AsPlain, PwText, PieText, PlainText, PaserkText
      <4> QED
        BY <4>1, <4>2
    <3>5. FromPaserk(text) = Key(sent.key.purpose, h)
      BY <3>2, <3>3, <3>4 DEF FromPaserk, IsUsable, Purposes
    <3>6. Holds(sent.key.key_bytes)
      BY <2>1 DEF IInv, Written
    <3> QED
      BY <3>2, <3>3, <3>5, <3>6, SameAgain
  <2> QED
    BY <2>1, <2>3, <2>4, ReceiveStep
<1> QED
  BY <1>1, <1>2

LEMMA ImportBytesStep ==
  ASSUME IInv, NEW using \in Usings, ImportBytes(using)
  PROVE  IInv'
<1>1. PICK spells \in BOOLEAN :
        LET doc == Raw(Unwrapped(text, using), spells)
        IN  IF CanUnwrap(text, using) /\ NewError(first.purpose, doc) = Ok
            THEN Receives(New(first.purpose, doc))
            ELSE Fails("ValueError")
  BY DEF ImportBytes
<1> DEFINE bytes == Unwrapped(text, using)
           doc   == Raw(bytes, spells)
<1>2. CASE Fails("ValueError")
  BY <1>2, FailStep
<1>3. CASE /\ CanUnwrap(text, using) /\ NewError(first.purpose, doc) = Ok
           /\ Receives(New(first.purpose, doc))
  <2>1. text # NoPaserk
    BY DEF ImportBytes
  <2>2. Holds(text.data.holds)
    BY <1>3, <2>1, ReadData, DataHolds DEF IInv
  <2>3. bytes \in {text.data.holds, Contents(text.data)}
    BY DEF Unwrapped
  <2>4. Holds(bytes)
    BY <2>2, <2>3, Shown
  <2>5. /\ doc.kind = "raw" /\ doc.public = bytes /\ doc.private = Absent
        /\ \A e : Universal(doc, e) = bytes
    BY DEF Raw, Document, Universal, Given
  <2> HIDE DEF doc, bytes
  <2>6. Holds(New(first.purpose, doc).key_bytes) /\ IsUsable(New(first.purpose, doc))
    BY <1>3, <2>4, <2>5, Created DEF Holds
  <2>7. ASSUME kept, Faithful
        PROVE  SameKey(New(first.purpose, doc), first) /\ Holds(first.key_bytes)
    <3>1. text = Original(sent)
      BY <2>1, <2>7 DEF Faithful, IInv, Written
    <3>2. IsUsable(sent.key) /\ SameKey(sent.key, first) /\ Holds(first.key_bytes)
      BY <2>1, <2>7 DEF IInv, Kept
    <3>3. PICK h \in {sent.key.key_bytes, Stored(sent.key.purpose, sent.key.key_bytes)} :
            Holds(h) /\ text.data.holds = h
      BY <2>1, <3>1, InTransit DEF IInv
    <3>4. Size(bytes) \in {32, 64}
      BY <1>3, <2>5 DEF NewError, Raw32, ??, Require, Ok
    <3>5. bytes = h
      BY <2>2, <2>3, <3>3, <3>4, Shown
    <3>6. Holds(sent.key.key_bytes)
      BY <2>1 DEF IInv, Written
    <3>7. /\ IsUsable(Key(first.purpose, bytes))
          /\ SameKey(Key(first.purpose, bytes), first)
      BY <3>2, <3>3, <3>5, <3>6, SameAgain DEF SameKey
    <3>8. New(first.purpose, doc) = Key(first.purpose, bytes)
      <4>1. CASE Size(bytes) = 32
        BY <2>5, <4>1 DEF New, PurposeOf, Raw32
      <4>2. CASE Size(bytes) = 64
        <5>1. first.purpose = "secret"
          BY <3>7, <4>2 DEF IsUsable, Key
        <5> QED
          BY <2>5, <4>2, <5>1 DEF New, PurposeOf, Raw32
      <4> QED
        BY <3>4, <4>1, <4>2
    <3> QED
      BY <3>2, <3>7, <3>8
  <2> QED
    BY <1>3, <2>6, <2>7, ReceiveStep
<1> QED
  BY <1>1, <1>2, <1>3

LEMMA NextStep ==
  ASSUME IInv, Next
  PROVE  IInv'
<1>1. CASE \E purpose \in Purposes, doc \in Documents : Create(purpose, doc)
  <2>1. PICK purpose \in Purposes, doc \in Documents : Create(purpose, doc)
    BY <1>1
  <2>2. CASE NewError(purpose, doc) = Ok
    <3>1. IsDocument(doc)
      BY ShapeAssumption
    <3>2. /\ Raw32(doc) => IsList(doc.public)
          /\ \A e : UniversalError(doc, e) = Ok => IsList(Universal(doc, e))
      BY <3>1, UniversalList DEF Raw32, IsDocument, IsBytes
    <3>3. Creates(New(purpose, doc))
      BY <2>1, <2>2 DEF Create
    <3> QED
      BY <2>2, <3>2, <3>3, Created, CreateStep
  <2>3. CASE NewError(purpose, doc) # Ok
    <3>1. Fails(NewError(purpose, doc))
      BY <2>1, <2>3 DEF Create
    <3>2. NewError(purpose, doc) = "ValueError"
      BY <2>3 DEF NewError, ??, Require
    <3> QED
      BY <3>1, <3>2, FailStep
  <2> QED
    BY <2>2, <2>3
<1>2. CASE \E doc \in Documents : CreateFromParams(doc)
  <2>1. PICK doc \in Documents : CreateFromParams(doc)
    BY <1>2
  <2>2. PICK x \in {Absent, doc.public}, d \in {Absent, doc.private} :
          IF ParamsError(x, d) = Ok THEN Creates(FromParams(x, d)) ELSE Fails(ParamsError(x, d))
    BY <2>1 DEF CreateFromParams
  <2>3. CASE ParamsError(x, d) = Ok
    <3>1. IsDocument(doc)
      BY ShapeAssumption
    <3>2. Given(x) # Given(d) /\ Size(IF Given(d) THEN d ELSE x) = 32
      BY <2>3 DEF ParamsError, Require, Ok
    <3>3. CASE Given(d)
      <4>1. d = doc.private
        BY <3>3 DEF Given
      <4>2. IsList(d)
        BY <3>1, <3>3, <4>1 DEF IsDocument, IsBytes, Given
      <4>3. FromParams(x, d) = Key("secret", d) /\ Size(d) = 32
        BY <3>2, <3>3 DEF FromParams
      <4>4. Holds(FromParams(x, d).key_bytes) /\ IsUsable(FromParams(x, d))
        BY <4>2, <4>3, Sizes DEF Holds, IsUsable, Key, Purposes
      <4> QED
        BY <2>2, <2>3, <4>4, CreateStep
    <3>4. CASE ~Given(d)
      <4>1. Given(x) /\ Size(x) = 32
        BY <3>2, <3>4 DEF Given
      <4>2. x = doc.public
        BY <4>1 DEF Given
      <4>3. IsList(x)
        BY <3>1, <4>1, <4>2 DEF IsDocument, IsBytes, Given
      <4>4. FromParams(x, d) = Key("public", x)
        BY <3>4 DEF FromParams
      <4>5. Holds(FromParams(x, d).key_bytes) /\ IsUsable(FromParams(x, d))
        BY <4>1, <4>3, <4>4, Sizes DEF Holds, IsUsable, Key, Purposes
      <4> QED
        BY <2>2, <2>3, <4>5, CreateStep
    <3> QED
      BY <3>3, <3>4
  <2>4. CASE ParamsError(x, d) # Ok
    <3>1. ParamsError(x, d) = "ValueError"
      BY <2>4 DEF ParamsError, Require
    <3> QED
      BY <2>2, <2>4, <3>1, FailStep
  <2> QED
    BY <2>3, <2>4
<1>3. CASE \E using \in Usings : Export(using)
  <2>1. PICK using \in Usings : Export(using)
    BY <1>3
  <2> DEFINE s == [by |-> "to_paserk", using |-> using, key |-> key, intact |-> TRUE]
  <2>2. CASE CanExport(key, using)
    <3>1. CouldWrite(s) /\ ToPaserk(key, using) = Original(s)
      BY <2>2 DEF CouldWrite, Original
    <3>2. Sends(ToPaserk(key, using), "to_paserk", using) /\ key # NoKey
      BY <2>1, <2>2 DEF Export
    <3> QED
      BY <3>1, <3>2, SendStep
  <2>3. CASE ~CanExport(key, using)
    BY <2>1, <2>3, FailStep DEF Export
  <2> QED
    BY <2>2, <2>3
<1>4. CASE \E using \in Usings, limits \in BOOLEAN : WrapOut(using, limits)
  <2>1. PICK using \in Usings, limits \in BOOLEAN : WrapOut(using, limits)
    BY <1>4
  <2> DEFINE s == [by |-> "paserk_wrap", using |-> using, key |-> key, intact |-> TRUE]
             paserk == WrappedText(key.purpose, key.key_bytes, using)
  <2>2. CASE CanWrap(key.purpose, key.key_bytes, using, limits)
    <3>1. CouldWrite(s) /\ paserk = Original(s)
      BY <2>2 DEF CouldWrite, Original
    <3>2. Sends(paserk, "paserk_wrap", using) /\ key # NoKey
      BY <2>1, <2>2 DEF WrapOut
    <3> QED
      BY <3>1, <3>2, SendStep
  <2>3. CASE ~CanWrap(key.purpose, key.key_bytes, using, limits)
    BY <2>1, <2>3, FailStep DEF WrapOut
  <2> QED
    BY <2>2, <2>3
<1>5. CASE \E type \in Purposes \cup {"seal"}, form \in {"plain", "wrap", "pw"},
              version \in {"k4", "k3"} : Relabel(type, form, version)
  <2>1. PICK type \in Purposes \cup {"seal"}, form \in {"plain", "wrap", "pw"},
             version \in {"k4", "k3"} : Relabel(type, form, version)
    BY <1>5
  <2>2. text' = [version |-> version, type |-> type, form |-> form, pie |-> form = "wrap",
                 data |-> text.data]
    BY <2>1 DEF Relabel, IInv, IsText
  <2>3. IsText(text') /\ Altered(text', text)
    BY <2>1, <2>2 DEF Relabel, IsText, Altered
  <2> QED
    BY <2>1, <2>3, AlterStep DEF Relabel
<1>6. CASE Spoil
  <2>1. text' = [version |-> text.version, type |-> text.type, form |-> text.form,
                 pie |-> text.pie, data |-> NotBase64]
    BY <1>6 DEF Spoil, IInv, IsText
  <2>2. IsText(text') /\ Altered(text', text)
    BY <2>1 DEF IInv, IsText, Altered
  <2> QED
    BY <1>6, <2>2, AlterStep DEF Spoil
<1>7. CASE \E using \in Usings : Import(using)
  BY <1>7, ImportStep
<1>8. CASE \E using \in Usings : ImportBytes(using)
  BY <1>8, ImportBytesStep
<1> QED
  BY <1>1, <1>2, <1>3, <1>4, <1>5, <1>6, <1>7, <1>8 DEF Next

THEOREM IInvAlways == Spec => []IInv
<1>1. Init => IInv
  <2> SUFFICES ASSUME Init
               PROVE  IInv
    OBVIOUS
  <2>1. Holding /\ Outcomes /\ Kept /\ Written
    BY DEF Init, Holding, Outcomes, Kept, Written
  <2>2. IsText(text)
    BY DEF Init, IsText, NoPaserk, PlainText, PaserkText, Clear, Box
  <2> QED
    BY <2>1, <2>2 DEF IInv
<1>2. IInv /\ [Next]_vars => IInv'
  <2> SUFFICES ASSUME IInv, UNCHANGED vars
               PROVE  IInv'
    BY NextStep
  <2>1. Holding' /\ IsText(text)' /\ Outcomes'
    BY DEF vars, IInv, Holding, IsText, Outcomes
  <2>2. Written' /\ Kept'
    BY DEF vars, IInv, Written, Kept
  <2> QED
    BY <2>1, <2>2 DEF IInv
<1> QED
  BY <1>1, <1>2, PTL DEF Spec

(***************************************************************************)
(* The theorems.                                                           *)
(***************************************************************************)

(* A key that was kept has a length and a purpose PASETO can use.          *)
THEOREM TypeAlways == Spec => []TypeOK
<1>1. IInv => TypeOK
  BY DEF IInv, TypeOK, Kept, IsUsable, Outcomes, IsText
<1> QED
  BY <1>1, IInvAlways, PTL

(* Whatever writers, readers and secrets it has been through, a key that   *)
(* was kept is the key that was created, and has its id.                   *)
THEOREM KeyKeptAlways == Spec => []KeyKept
<1>1. ASSUME IInv
      PROVE  KeyKept
  <2> SUFFICES ASSUME kept, key # NoKey
               PROVE  /\ SameKey(key, first) /\ IdError(key.purpose, key.key_bytes) = Ok
                      /\ Id(key.purpose, key.key_bytes) = Id(first.purpose, first.key_bytes)
                      /\ PeerIdError(key.purpose, key.key_bytes) = Ok =>
                           PeerId(key.purpose, key.key_bytes)
                             = PeerId(first.purpose, first.key_bytes)
    BY DEF KeyKept
  <2>1. /\ IsUsable(key) /\ SameKey(key, first)
        /\ Holds(first.key_bytes) /\ Holds(key.key_bytes)
    BY <1>1 DEF IInv, Kept, Holding
  <2>2. ~Given(Nothing.wk) /\ ~Given(Nothing.pw) /\ ~Given(Nothing.x)
    BY DEF Nothing, Given
  <2>3. IdError(key.purpose, key.key_bytes) = Ok
    BY <2>1, <2>2 DEF IdError, CanEncode, Require, IsUsable
  <2>4. \A purpose, bytes : Id(purpose, bytes) = PlainText(purpose, Stored(purpose, bytes))
    BY <2>2 DEF Id, Encoded
  <2>5. Id(key.purpose, key.key_bytes) = Id(first.purpose, first.key_bytes)
    BY <2>1, <2>4 DEF SameKey
  <2>6. key.key_bytes[1] = first.key_bytes[1]
    BY <2>1, StoredOnce DEF SameKey
  <2>7. PeerId(key.purpose, key.key_bytes) = PeerId(first.purpose, first.key_bytes)
    BY <2>1, <2>6 DEF PeerId, SameKey
  <2> QED
    BY <2>1, <2>3, <2>5, <2>7
<1> QED
  BY <1>1, IInvAlways, PTL

(* The two readers do not drift apart: what from_paserk reads with the     *)
(* secret a text asks for, paserk_unwrap reads too, and as the same bytes. *)
LEMMA ReadersAgreeOn ==
  ASSUME NEW using, Suited(using), FromPaserkError(text, using) = Ok
  PROVE  CanUnwrap(text, using) /\ Unwrapped(text, using) = Decoded(text)
<1>1. DecodeError(text, Any, using) = Ok
  BY DEF FromPaserkError, Require, Ok
<1>2. /\ Nothing.wk = Absent /\ Nothing.pw = Absent /\ Nothing.x = Absent
      /\ ~Given(Absent) /\ text.version = "k4"
  BY <1>1 DEF Nothing, Given, DecodeError, ??, Require, Ok
<1>3. \A b : /\ Wrapping(b).wk = b /\ Wrapping(b).pw = Absent /\ Wrapping(b).x = Absent
             /\ Password(b).wk = Absent /\ Password(b).pw = b /\ Password(b).x = Absent
             /\ Sealing(b).wk = Absent /\ Sealing(b).pw = Absent /\ Sealing(b).x = b
  BY DEF Wrapping, Password, Sealing, Nothing
<1>4. CASE Wrapped(text)
  <2>1. /\ text.pie /\ Given(using.wk) /\ Size(using.wk) = 32
        /\ text.data = Box("pie", text.type, using.wk, text.data.holds)
    BY <1>1, <1>4 DEF DecodeError, PieError, ??, Require, Ok
  <2>2. using = Wrapping(using.wk)
    BY <1>4 DEF Suited
  <2>3. ~Given(using.pw) /\ using # Nothing
    BY <1>2, <1>3, <2>1, <2>2
  <2> QED
    BY <1>2, <1>4, <2>1, <2>3 DEF CanUnwrap, Unwrapped, Decoded, Locked
<1>5. CASE ~Wrapped(text) /\ WithPw(text)
  <2>1. /\ ~text.pie /\ Given(using.pw)
        /\ text.data = Box("pw", text.type, using.pw, text.data.holds)
    BY <1>1, <1>5 DEF DecodeError, PwError, ??, Require, Ok
  <2>2. using # Nothing
    BY <1>2, <2>1
  <2> QED
    BY <1>2, <1>5, <2>1, <2>2 DEF CanUnwrap, Unwrapped, Decoded, Locked
<1>6. CASE ~Wrapped(text) /\ ~WithPw(text) /\ Sealed(text)
  <2>1. /\ Given(using.x) /\ Size(using.x) = 32 /\ ~text.pie
        /\ text.data = Box("seal", "seal", <<XPublic(using.x[1])>>, text.data.holds)
        /\ Len(text.data.holds) >= 1
    BY <1>1, <1>6 DEF DecodeError, SealError, ??, Require, Ok
  <2>2. using = Sealing(using.x)
    BY <1>6 DEF Suited
  <2>3. ~Given(using.pw) /\ ~Given(using.wk) /\ using # Nothing
    BY <1>2, <1>3, <2>1, <2>2
  <2>4. Unsealer(using.x) = using.x[1]
    BY <2>1 DEF Unsealer
  <2> QED
    BY <1>2, <1>6, <2>1, <2>3, <2>4 DEF CanUnwrap, Unwrapped, Decoded, Locked
<1>7. CASE ~Locked(text)
  <2>1. ~text.pie /\ text.data.box # "junk"
    BY <1>1, <1>7 DEF DecodeError, PlainError, Locked, ??, Require, Ok
  <2>2. using = Nothing
    BY <1>7 DEF Suited, Locked
  <2> QED
    BY <1>2, <1>7, <2>1, <2>2 DEF CanUnwrap, Unwrapped, Decoded
<1> QED
  BY <1>4, <1>5, <1>6, <1>7 DEF Locked

THEOREM ReadersAgreeAlways == Spec => []ReadersAgree
<1>1. ReadersAgree
  BY ReadersAgreeOn DEF ReadersAgree
<1> QED
  BY <1>1, PTL

(***************************************************************************)
(* Protection.                                                             *)
(***************************************************************************)
OpensPie(t, using) ==
  Wrapped(t) /\ t.pie /\ t.data = Box("pie", t.type, using.wk, t.data.holds)

OpensPw(t, using) ==
  WithPw(t) /\ ~t.pie /\ t.data = Box("pw", t.type, using.pw, t.data.holds)

OpensSeal(t, using) ==
  /\ Sealed(t) /\ ~t.pie /\ Size(using.x) \in {32, 64}
  /\ t.data = Box("seal", "seal", <<XPublic(Unsealer(using.x))>>, t.data.holds)

(* What a box holds comes out of it in one of three ways.                  *)
LEMMA ThreeWays ==
  ASSUME NEW using, IsUsing(using), Holds(text.data.holds),
         text.data.box \in {"pie", "pw", "seal"}, OpensTo(using, text.data.holds)
  PROVE  /\ text.version = "k4"
         /\ OpensPie(text, using) \/ OpensPw(text, using) \/ OpensSeal(text, using)
<1>1. Contents(text.data) # text.data.holds
  BY Shown
<1>2. CASE FromPaserkError(text, using) = Ok /\ FromPaserk(text).key_bytes = text.data.holds
  <2>1. DecodeError(text, Any, using) = Ok /\ Decoded(text) = text.data.holds
    BY <1>2 DEF FromPaserkError, FromPaserk, Key, Require, Ok
  <2>2. text.version = "k4"
    BY <2>1 DEF DecodeError, ??, Require, Ok
  <2>3. CASE Wrapped(text)
    BY <2>1, <2>2, <2>3 DEF DecodeError, PieError, OpensPie, ??, Require, Ok
  <2>4. CASE ~Wrapped(text) /\ WithPw(text)
    BY <2>1, <2>2, <2>4 DEF DecodeError, PwError, OpensPw, ??, Require, Ok
  <2>5. CASE ~Wrapped(text) /\ ~WithPw(text) /\ Sealed(text)
    <3>1. SealError(text, using) = Ok
      BY <2>1, <2>5 DEF DecodeError, ??, Require, Ok
    <3>2. /\ Size(using.x) = 32 /\ ~text.pie
          /\ text.data = Box("seal", "seal", <<XPublic(using.x[1])>>, text.data.holds)
      BY <3>1 DEF SealError, Require, Ok
    <3>3. Unsealer(using.x) = using.x[1]
      BY <3>2 DEF Unsealer
    <3> QED
      BY <2>2, <2>5, <3>2, <3>3 DEF OpensSeal
  <2>6. CASE ~Locked(text)
    BY <1>1, <2>1, <2>6 DEF Decoded
  <2> QED
    BY <2>3, <2>4, <2>5, <2>6 DEF Locked
<1>3. CASE CanUnwrap(text, using) /\ Unwrapped(text, using) = text.data.holds
  <2>1. using # Nothing
    BY <1>1, <1>3 DEF Unwrapped
  <2>2. Given(using.wk) \/ Given(using.pw) \/ Given(using.x)
    <3>1. SUFFICES ASSUME using.wk = Absent, using.pw = Absent, using.x = Absent
                   PROVE  using = Nothing
      BY <2>1 DEF Given
    <3> QED
      BY <3>1 DEF IsUsing, Nothing
  <2> QED
    BY <1>3, <2>2 DEF CanUnwrap, OpensPie, OpensPw, OpensSeal
<1> QED
  BY <1>2, <1>3 DEF OpensTo

LEMMA SamePublic ==
  ASSUME NEW a, NEW b, IsList(a), IsList(b), XPublic(a) = XPublic(b)
  PROVE  a = b
<1> DEFINE S == {a[i] : i \in DOMAIN a} \cup {b[i] : i \in DOMAIN b} \cup {"x"}
<1>1. a \in Seq(S) /\ b \in Seq(S) /\ <<"x">> \in Seq(S) /\ Len(<<"x">>) = 1
  BY DEF IsList
<1> HIDE DEF S
<1>2. Len(a) \in Nat /\ Len(b) \in Nat
  BY <1>1
<1>3. Len(<<"x">> \o a) = 1 + Len(a) /\ Len(<<"x">> \o b) = 1 + Len(b)
  BY <1>1
<1>4. <<"x">> \o a = <<"x">> \o b
  BY DEF XPublic
<1>5. Len(a) = Len(b)
  BY <1>2, <1>3, <1>4
<1>6. \A i \in 1..Len(a) : a[i] = (<<"x">> \o a)[i + 1]
  BY <1>1
<1>7. \A i \in 1..Len(b) : b[i] = (<<"x">> \o b)[i + 1]
  BY <1>1
<1>8. \A i \in 1..Len(a) : a[i] = b[i]
  BY <1>4, <1>5, <1>6, <1>7
<1> QED
  BY <1>1, <1>5, <1>8

(* The block that unseals is a block.                                      *)
LEMMA UnsealerIsList ==
  ASSUME NEW x, IsBytes(x), Size(x) \in {32, 64}
  PROVE  IsList(Unsealer(x)) /\ IsList(x[1])
<1>1. IsList(x[1])
  <2>1. 1 \in DOMAIN x
    BY Sizes, Listed DEF IsBytes
  <2> QED
    BY <2>1 DEF IsBytes
<1> DEFINE S == {"sha"} \cup {x[1][i] : i \in DOMAIN x[1]}
<1>2. x[1] \in Seq(S) /\ <<"sha">> \in Seq(S)
  BY <1>1 DEF IsList
<1> HIDE DEF S
<1>3. <<"sha">> \o x[1] \in Seq(S)
  BY <1>2
<1>4. IsList(XPrivate(x[1]))
  BY <1>3, ListOf DEF XPrivate
<1> QED
  BY <1>1, <1>4 DEF Unsealer

(* The box tells the kind.                                                 *)
LEMMA BoxTells ==
  ASSUME NEW t, NEW s, NEW h
  PROVE  /\ AsPw(t, s, h) => t.data.box = "pw"
         /\ AsPie(t, s, h) => t.data.box = "pie"
         /\ AsSeal(t, s, h) => t.data.box = "seal"
         /\ AsPlain(t, s, h) => t.data.box = "none"
<1>1. \A version, type, form, pie, data :
        [version |-> version, type |-> type, form |-> form, pie |-> pie,
         data |-> data].data = data
  OBVIOUS
<1>2. \A kind, type, by, held : Box(kind, type, by, held).box = kind
  BY DEF Box
<1>3. AsPw(t, s, h) => t.data.box = "pw"
  BY <1>1, <1>2 DEF AsPw, PwText, PaserkText
<1>4. AsPie(t, s, h) => t.data.box = "pie"
  BY <1>1, <1>2 DEF AsPie, PieText, PaserkText
<1>5. AsSeal(t, s, h) => t.data.box = "seal"
  BY <1>1, <1>2 DEF AsSeal, SealText, PaserkText
<1>6. AsPlain(t, s, h) => t.data.box = "none"
  <2>1. AsPlain(t, s, h) => t = PlainText(s.key.purpose, h)
    BY DEF AsPlain
  <2>2. PlainText(s.key.purpose, h).data.box = "none"
    BY DEF PlainText, PaserkText, Clear, Box
  <2> QED
    BY <2>1, <2>2
<1> QED
  BY <1>3, <1>4, <1>5, <1>6

LEMMA RightSecret ==
  ASSUME IInv, Protected, NEW using \in Usings, OpensTo(using, text.data.holds)
  PROVE  Unlocks(using) /\ sent.intact
<1> DEFINE t == Original(sent)
<1>1. text # NoPaserk /\ text.data.box # "junk"
  <2>1. NoPaserk.data.box = "none"
    BY DEF NoPaserk, PlainText, PaserkText, Clear, Box
  <2> QED
    BY <2>1 DEF Protected
<1>2. /\ Holds(text.data.holds) /\ text.data.box \in {"pie", "pw", "seal"}
      /\ IsUsing(using)
  BY <1>1, DataHolds, ShapeAssumption DEF IInv, Protected
<1>3. /\ text.version = "k4"
      /\ OpensPie(text, using) \/ OpensPw(text, using) \/ OpensSeal(text, using)
  BY <1>2, ThreeWays
<1>4. PICK h : /\ Holds(h) /\ IsText(t) /\ t.data.holds = h
               /\ AsPw(t, sent, h) \/ AsPie(t, sent, h) \/ AsSeal(t, sent, h)
                    \/ AsPlain(t, sent, h)
  BY <1>1, InTransit DEF IInv
<1>5. text.data = t.data
  <2>1. NotBase64.box = "junk"
    BY DEF NotBase64, Box
  <2> QED
    BY <1>1, <2>1 DEF IInv, Written, Altered
<1>6. ASSUME text.version = t.version, text.type = t.type, text.form = t.form
      PROVE  sent.intact
  <2>1. text = t
    BY <1>4, <1>5, <1>6 DEF IInv, IsText
  <2>2. text.data # NotBase64
    <3>1. NotBase64.box = "junk"
      BY DEF NotBase64, Box
    <3> QED
      BY <1>1, <3>1
  <2> QED
    BY <1>1, <1>5, <2>1, <2>2 DEF IInv, Written, Altered
<1>7. Holds(sent.key.key_bytes) /\ sent.using \in Usings
  BY <1>1 DEF IInv, Written
<1> HIDE DEF t
<1>8. \A kind, type, by, held :
        /\ Box(kind, type, by, held).box = kind /\ Box(kind, type, by, held).type = type
        /\ Box(kind, type, by, held).by = by
  BY DEF Box
<1>9. CASE OpensPie(text, using)
  <2>1. /\ text.data.box = "pie" /\ text.data.type = text.type /\ text.data.by = using.wk
        /\ text.form = "wrap"
    BY <1>8, <1>9 DEF OpensPie, Wrapped
  <2>2. AsPie(t, sent, h)
    BY <1>4, <1>5, <2>1, BoxTells
  <2>3. /\ t.data.by = sent.using.wk /\ t.data.type = sent.key.purpose
        /\ t.type = sent.key.purpose /\ t.form = "wrap" /\ t.version = "k4"
        /\ ~Given(sent.using.pw) /\ Given(sent.using.wk)
        /\ sent.by = "to_paserk" => ~Given(sent.using.x)
    BY <2>2, <1>8 DEF AsPie, PieText, PaserkText
  <2> QED
    BY <1>3, <1>5, <1>6, <2>1, <2>3 DEF Unlocks
<1>10. CASE OpensPw(text, using)
  <2>1. /\ text.data.box = "pw" /\ text.data.type = text.type /\ text.data.by = using.pw
        /\ text.form = "pw"
    BY <1>8, <1>10 DEF OpensPw, WithPw
  <2>2. AsPw(t, sent, h)
    BY <1>4, <1>5, <2>1, BoxTells
  <2>3. /\ t.data.by = sent.using.pw /\ t.data.type = sent.key.purpose
        /\ t.type = sent.key.purpose /\ t.form = "pw" /\ t.version = "k4"
        /\ Given(sent.using.pw)
    BY <2>2, <1>8 DEF AsPw, PwText, PaserkText
  <2> QED
    BY <1>3, <1>5, <1>6, <2>1, <2>3 DEF Unlocks
<1>11. CASE OpensSeal(text, using)
  <2>1. /\ text.data.box = "seal" /\ text.data.by = <<XPublic(Unsealer(using.x))>>
        /\ text.type = "seal" /\ text.form = "plain" /\ Size(using.x) \in {32, 64}
    BY <1>8, <1>11 DEF OpensSeal, Sealed
  <2>2. AsSeal(t, sent, h)
    BY <1>4, <1>5, <2>1, BoxTells
  <2>3. PICK public : t = SealText(public, h)
    BY <2>2 DEF AsSeal
  <2>4. /\ t.data.by = public /\ t.type = "seal" /\ t.form = "plain" /\ t.version = "k4"
    BY <2>3, <1>8 DEF SealText, PaserkText
  <2>5. ~Given(sent.using.pw) /\ Given(sent.using.x) /\ Size(sent.using.x) = 32
    BY <2>2 DEF AsSeal
  <2>6. sent.intact
    BY <1>3, <1>6, <2>1, <2>4
  <2>7. CASE sent.by = "to_paserk"
    <3>1. t.data.by = sent.using.x
      BY <1>8, <2>2, <2>7 DEF AsSeal, SealText, PaserkText
    <3> QED
      BY <1>5, <2>1, <2>5, <2>6, <2>7, <3>1 DEF Unlocks
  <2>8. CASE sent.by # "to_paserk"
    <3>1. t.data.by = <<XPublic(sent.using.x[1])>> /\ ~Given(sent.using.wk)
      BY <1>8, <2>2, <2>8 DEF AsSeal, SealText, PaserkText
    <3>2. XPublic(Unsealer(using.x)) = XPublic(sent.using.x[1])
      BY <1>5, <2>1, <3>1
    <3>3. IsList(Unsealer(using.x)) /\ IsList(sent.using.x[1])
      BY <1>2, <1>7, <2>1, <2>5, ShapeAssumption, UnsealerIsList DEF IsUsing
    <3>4. Unsealer(using.x) = sent.using.x[1]
      BY <3>2, <3>3, SamePublic
    <3> QED
      BY <2>5, <2>6, <2>8, <3>1, <3>4 DEF Unlocks
  <2> QED
    BY <2>7, <2>8
<1> QED
  BY <1>3, <1>9, <1>10, <1>11

(* A protected key comes out only for the secret it was locked with, and   *)
(* only under the header it was written with.                              *)
THEOREM OnlyTheRightSecretOpensAlways == Spec => []OnlyTheRightSecretOpens
<1>1. IInv => OnlyTheRightSecretOpens
  BY RightSecret DEF OnlyTheRightSecretOpens
<1> QED
  BY <1>1, IInvAlways, PTL

(***************************************************************************)
(* What was written opens.                                                 *)
(***************************************************************************)
(* Undoing the derivation of a public half gives back the public half, and *)
(* the private half is never taken for a missing argument.                 *)
LEMMA PrivateHalf ==
  ASSUME NEW b, IsList(b), b # <<>>, Head(b) = "x", \A j \in DOMAIN b : b[j] # "absent"
  PROVE  XPublic(Tail(b)) = b /\ << Tail(b) >> # Absent
<1> DEFINE S == {b[i] : i \in DOMAIN b} \cup {"x"}
<1>1. b \in Seq(S) /\ <<"x">> \in Seq(S) /\ Len(<<"x">>) = 1 /\ <<"x">>[1] = "x"
  BY DEF IsList
<1> HIDE DEF S
<1>2. Len(b) \in Nat /\ Len(b) # 0
  BY <1>1
<1>3. /\ Tail(b) \in Seq(S) /\ Len(Tail(b)) = Len(b) - 1
      /\ \A i \in 1..(Len(b) - 1) : Tail(b)[i] = b[i + 1]
  BY <1>1, <1>2
<1>4. b[1] = "x"
  BY <1>1, <1>2
<1> DEFINE c == <<"x">> \o Tail(b)
<1>5. /\ c \in Seq(S) /\ Len(c) = Len(b) /\ c[1] = "x"
      /\ \A i \in 2..Len(b) : c[i] = Tail(b)[i - 1]
  BY <1>1, <1>2, <1>3
<1> HIDE DEF c
<1>6. \A i \in 1..Len(b) : c[i] = b[i]
  <2> TAKE i \in 1..Len(b)
  <2>1. CASE i = 1
    BY <1>4, <1>5, <2>1
  <2>2. CASE i # 1
    <3>1. i \in 2..Len(b) /\ i - 1 \in 1..(Len(b) - 1) /\ (i - 1) + 1 = i
      BY <1>2, <2>2
    <3> QED
      BY <1>3, <1>5, <3>1
  <2> QED
    BY <2>1, <2>2
<1>7. c = b
  BY <1>1, <1>5, <1>6
<1>8. Tail(b) # <<"absent">>
  <2> SUFFICES ASSUME Tail(b) = <<"absent">>
               PROVE  FALSE
    OBVIOUS
  <2>1. Len(<<"absent">>) = 1 /\ <<"absent">>[1] = "absent"
    OBVIOUS
  <2>2. Len(Tail(b)) = 1 /\ Tail(b)[1] = "absent"
    BY <2>1
  <2>3. Len(b) = 2
    BY <1>2, <1>3, <2>2
  <2>4. b[2] = "absent" /\ 2 \in DOMAIN b
    BY <1>1, <1>3, <2>2, <2>3
  <2> QED
    BY <2>4
<1> QED
  BY <1>7, <1>8 DEF XPublic, c, Absent

(* A text as written opens with its secret, and gives back the key it was  *)
(* written from.                                                           *)
LEMMA Opens ==
  ASSUME NEW h, Holds(h), NEW using, IsUsing(using), using = sent.using,
         using \in {Nothing, Wrapping(using.wk), Password(using.pw), Sealing(using.x)},
         Given(using.wk) => Size(using.wk) = 32,
         Given(using.x) /\ sent.by = "to_paserk" => Head(using.x[1]) = "x",
         text.data.holds = h,
         AsPw(text, sent, h) \/ AsPie(text, sent, h) \/ AsSeal(text, sent, h)
           \/ AsPlain(text, sent, h)
  PROVE  DecodeError(text, Any, OpenedBy(using)) = Ok
<1>1. /\ Nothing.wk = Absent /\ Nothing.pw = Absent /\ Nothing.x = Absent
      /\ ~Given(Absent)
  BY DEF Nothing, Given
<1>2. \A b : /\ Wrapping(b).wk = b /\ Wrapping(b).pw = Absent /\ Wrapping(b).x = Absent
             /\ Password(b).wk = Absent /\ Password(b).pw = b /\ Password(b).x = Absent
             /\ Sealing(b).wk = Absent /\ Sealing(b).pw = Absent /\ Sealing(b).x = b
  BY DEF Wrapping, Password, Sealing, Nothing
<1>3. \A type, form, data :
        /\ PaserkText(type, form, data).version = "k4"
        /\ PaserkText(type, form, data).type = type
        /\ PaserkText(type, form, data).form = form
        /\ PaserkText(type, form, data).pie <=> form = "wrap"
        /\ PaserkText(type, form, data).data = data
  BY DEF PaserkText
<1>4. \A kind, type, by, held :
        /\ Box(kind, type, by, held).box = kind /\ Box(kind, type, by, held).holds = held
  BY DEF Box
<1>5. Len(h) >= 1
  BY DEF Holds
<1>6. CASE AsPw(text, sent, h)
  <2>1. ~Given(using.wk) /\ ~Given(using.x) /\ Given(using.pw)
    BY <1>1, <1>2, <1>6 DEF AsPw
  <2>2. OpenedBy(using) = using
    BY <2>1 DEF OpenedBy
  <2>3. /\ text.version = "k4" /\ text.type \in Lockable /\ text.form = "pw" /\ ~text.pie
        /\ text.data = Box("pw", text.type, using.pw, h) /\ text.data.box = "pw"
    BY <1>3, <1>4, <1>6 DEF AsPw, PwText
  <2>4. PwError(text, Any, using) = Ok
    BY <1>5, <2>1, <2>3 DEF PwError, ??, Require, Ok, Is
  <2> QED
    BY <2>1, <2>2, <2>3, <2>4 DEF DecodeError, Wrapped, WithPw, ??, Require
<1>7. CASE AsPie(text, sent, h)
  <2>1. ~Given(using.pw) /\ ~Given(using.x) /\ Given(using.wk)
    BY <1>1, <1>2, <1>7 DEF AsPie
  <2>2. OpenedBy(using) = using
    BY <2>1 DEF OpenedBy
  <2>3. /\ text.version = "k4" /\ text.type \in Lockable /\ text.form = "wrap" /\ text.pie
        /\ text.data = Box("pie", text.type, using.wk, h) /\ text.data.box = "pie"
    BY <1>3, <1>4, <1>7 DEF AsPie, PieText
  <2>4. PieError(text, Any, using) = Ok
    BY <2>1, <2>3 DEF PieError, ??, Require, Ok, Is
  <2> QED
    BY <2>1, <2>2, <2>3, <2>4 DEF DecodeError, Wrapped, ??, Require
<1>8. CASE AsSeal(text, sent, h)
  <2>1. ~Given(using.pw) /\ ~Given(using.wk) /\ Given(using.x) /\ Size(using.x) = 32
    BY <1>1, <1>2, <1>8 DEF AsSeal
  <2>2. using = Sealing(using.x)
    BY <1>1, <1>2, <2>1
  <2>3. /\ 1 \in DOMAIN using.x /\ using.x = <<using.x[1]>>
        /\ IsList(using.x[1]) /\ using.x[1] # <<>>
        /\ \A j \in DOMAIN using.x[1] : using.x[1][j] # "absent"
    <3>1. IsList(using.x) /\ Len(using.x) = 1
      BY <2>1, Sizes DEF IsUsing, IsBytes
    <3>2. 1 \in DOMAIN using.x /\ using.x = <<using.x[1]>>
      BY <3>1, Listed
    <3> QED
      BY <2>1, <3>2 DEF IsUsing, IsBytes
  <2> DEFINE o == OpenedBy(using)
  <2>4. /\ Given(o.x) /\ Size(o.x) = 32 /\ ~Given(o.wk) /\ ~Given(o.pw)
        /\ text = SealText(<<XPublic(o.x[1])>>, h)
    <3>1. CASE sent.by = "to_paserk"
      <4>1. Head(using.x[1]) = "x"
        BY <2>1, <3>1
      <4>2. o = Sealing(<<Tail(using.x[1])>>)
        BY <2>1, <3>1, <4>1 DEF OpenedBy
      <4>3. /\ XPublic(Tail(using.x[1])) = using.x[1]
            /\ <<Tail(using.x[1])>> # Absent
        BY <2>3, <4>1, PrivateHalf
      <4>4. text = SealText(using.x, h)
        BY <1>8, <3>1 DEF AsSeal
      <4>5. /\ o.x = <<Tail(using.x[1])>> /\ ~Given(o.wk) /\ ~Given(o.pw)
        BY <1>1, <1>2, <4>2
      <4>6. Size(<<Tail(using.x[1])>>) = 32
        BY DEF Size
      <4>7. o.x[1] = Tail(using.x[1])
        BY <4>5
      <4> HIDE DEF o
      <4>8. <<XPublic(o.x[1])>> = using.x
        BY <2>3, <4>3, <4>7
      <4> QED
        BY <4>3, <4>4, <4>5, <4>6, <4>8 DEF Given
    <3>2. CASE sent.by # "to_paserk"
      <4>1. o = using
        BY <3>2 DEF OpenedBy
      <4> QED
        BY <1>8, <2>1, <3>2, <4>1 DEF AsSeal
    <3> QED
      BY <3>1, <3>2
  <2> HIDE DEF o
  <2>5. /\ text.version = "k4" /\ text.type = "seal" /\ text.form = "plain" /\ ~text.pie
        /\ text.data = Box("seal", "seal", <<XPublic(o.x[1])>>, h)
    BY <1>3, <2>4 DEF SealText
  <2>6. SealError(text, o) = Ok
    BY <1>5, <2>4, <2>5 DEF SealError, Require
  <2>7. DecodeError(text, Any, o) = Ok
    BY <2>4, <2>5, <2>6 DEF DecodeError, Wrapped, WithPw, Sealed, ??, Require
  <2> QED
    BY <2>7 DEF o
<1>9. CASE AsPlain(text, sent, h)
  <2>1. ~Given(using.pw) /\ ~Given(using.wk) /\ ~Given(using.x)
    BY <1>9 DEF AsPlain
  <2>2. OpenedBy(using) = using
    BY <2>1 DEF OpenedBy
  <2>3. text = PlainText(sent.key.purpose, h) /\ sent.key.purpose \in Purposes
    BY <1>9 DEF AsPlain
  <2>4. /\ text.version = "k4" /\ text.type \in Purposes /\ text.form = "plain" /\ ~text.pie
        /\ text.data.box = "none"
    <3>1. text = PaserkText(sent.key.purpose, "plain", Clear(h))
      BY <2>3 DEF PlainText
    <3>2. Clear(h).box = "none"
      BY DEF Clear, Box
    <3> QED
      BY <1>3, <2>3, <3>1, <3>2
  <2>5. PlainError(text, Any, using) = Ok
    BY <2>1, <2>4 DEF PlainError, Require
  <2>6. ~Wrapped(text) /\ ~WithPw(text) /\ ~Sealed(text)
    BY <2>4 DEF Wrapped, WithPw, Sealed, Purposes
  <2> QED
    BY <2>1, <2>2, <2>4, <2>5, <2>6 DEF DecodeError, ??, Require
<1> QED
  BY <1>6, <1>7, <1>8, <1>9

THEOREM WrittenOpensAlways == Spec => []WrittenOpens
<1>1. ASSUME IInv
      PROVE  WrittenOpens
  <2> DEFINE using == sent.using
  <2> SUFFICES ASSUME text # NoPaserk, sent.intact,
                      using \in {Nothing, Wrapping(using.wk), Password(using.pw),
                                 Sealing(using.x)},
                      Given(using.wk) => Size(using.wk) = 32,
                      Given(using.x) /\ sent.by = "to_paserk" => Head(using.x[1]) = "x"
               PROVE  /\ FromPaserkError(text, OpenedBy(using)) = Ok
                      /\ Stored(sent.key.purpose, Decoded(text))
                           = Stored(sent.key.purpose, sent.key.key_bytes)
    BY DEF WrittenOpens
  <2>1. /\ text = Original(sent) /\ using \in Usings /\ IsUsing(using)
        /\ Holds(sent.key.key_bytes)
    BY <1>1, ShapeAssumption DEF IInv, Written
  <2>2. PICK h \in {sent.key.key_bytes, Stored(sent.key.purpose, sent.key.key_bytes)} :
          /\ Holds(h) /\ text.data.holds = h /\ Decoded(text) = h
          /\ AsPw(text, sent, h) \/ AsPie(text, sent, h) \/ AsSeal(text, sent, h)
               \/ AsPlain(text, sent, h)
    BY <1>1, <2>1, InTransit DEF IInv
  <2> HIDE DEF using
  <2>3. DecodeError(text, Any, OpenedBy(using)) = Ok
    BY <2>1, <2>2, Opens DEF using
  <2>4. FromPaserkError(text, OpenedBy(using)) = Ok
    BY <2>3 DEF FromPaserkError, Require, Ok
  <2>5. Stored(sent.key.purpose, h) = Stored(sent.key.purpose, sent.key.key_bytes)
    BY <2>1, <2>2, StoredOnce
  <2> QED
    BY <2>2, <2>4, <2>5
<1> QED
  BY <1>1, IInvAlways, PTL
=============================================================================
