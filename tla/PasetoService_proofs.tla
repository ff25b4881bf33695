------------------------ MODULE PasetoService_proofs ------------------------
(***************************************************************************)
(* Type correctness, authenticity, validity and completeness of the        *)
(* PASETO shim, for any keys in any documents, any dicts, any clock and    *)
(* whatever becomes of the texts on the wire.                              *)
(***************************************************************************)
EXTENDS PasetoService, TLAPS

(***************************************************************************)
(* Bytes and documents.                                                    *)
(***************************************************************************)

(* A list is what the library of sequences knows of it.                    *)
LEMMA Listed ==
  ASSUME NEW s, IsList(s)
  PROVE  Len(s) \in Nat /\ DOMAIN s = 1..Len(s) /\ (Len(s) = 1 => s = <<s[1]>>)
<1> DEFINE S == {s[i] : i \in DOMAIN s}
<1>1. s \in Seq(S)
  BY DEF IsList
<1> HIDE DEF S
<1> QED
  BY <1>1

(* 32 bytes are one block.                                                 *)
LEMMA OneBlock ==
  ASSUME NEW b, IsBytes(b)
  PROVE  /\ Len(b) \in Nat /\ DOMAIN b = 1..Len(b)
         /\ Size(b) = 32 => Len(b) = 1 /\ b = <<b[1]>>
         /\ Size(b) = 64 => Len(b) = 2
         /\ Len(b) \in {1, 2} => IsList(b[1]) /\ b[1] # <<>>
<1>1. Len(b) \in Nat /\ DOMAIN b = 1..Len(b) /\ (Len(b) = 1 => b = <<b[1]>>)
  BY Listed DEF IsBytes
<1>2. Size(b) = 32 => Len(b) = 1
  BY <1>1 DEF Size
<1>3. Size(b) = 64 => Len(b) = 2
  BY <1>1 DEF Size
<1>4. Len(b) \in {1, 2} => IsList(b[1]) /\ b[1] # <<>>
  BY <1>1 DEF IsBytes
<1> QED
  BY <1>1, <1>2, <1>3, <1>4

(* What is derived from a seed still shows whose it is.                    *)
LEMMA PublicRoot ==
  ASSUME NEW seed, IsList(seed), seed # <<>>, NEW bytes, bytes[1] = seed
  PROVE  Root(<<EdPublic(seed)>>) = Root(bytes)
<1> DEFINE S == {"ed"} \cup {seed[i] : i \in DOMAIN seed}
<1>1. seed \in Seq({seed[i] : i \in DOMAIN seed}) /\ Len(seed) \in Nat
  BY Listed DEF IsList
<1>2. seed \in Seq(S) /\ Len(seed) >= 1
  BY <1>1
<1>3. "ed" \in S
  OBVIOUS
<1> HIDE DEF S
<1>4. <<"ed">> \in Seq(S) /\ Len(<<"ed">>) = 1
  BY <1>3
<1>5. EdPublic(seed) \in Seq(S) /\ Len(EdPublic(seed)) = Len(seed) + 1
  BY <1>2, <1>4 DEF EdPublic
<1>6. EdPublic(seed)[Len(seed) + 1] = seed[Len(seed)]
  BY <1>2, <1>4 DEF EdPublic
<1> QED
  BY <1>2, <1>5, <1>6 DEF Root

(* A PASERK that opens without a secret holds what it shows.               *)
LEMMA OpenPaserk ==
  ASSUME NEW doc, doc.kind = "paserk", NEW e, UniversalError(doc, e) = Ok
  PROVE  Universal(doc, e) = Contents(doc.paserk.data)
<1>1. ~Given(Nothing.wk) /\ ~Given(Nothing.pw) /\ ~Given(Nothing.x)
  BY DEF Nothing, Given
<1>2. DecodeError(doc.paserk, e, Nothing) = Ok
  BY DEF UniversalError
<1>3. ~Locked(doc.paserk)
  BY <1>1, <1>2
     DEF DecodeError, Locked, PieError, PwError, SealError, Require, Ok, ??
<1> QED
  BY <1>3 DEF Universal, Decoded

(* What the universal parser takes for a key has a length.                 *)
LEMMA UniversalLength ==
  ASSUME NEW doc, IsDocument(doc), NEW e, UniversalError(doc, e) = Ok
  PROVE  /\ Len(Universal(doc, e)) \in Nat
         /\ Size(Universal(doc, e)) = 32 => Len(Universal(doc, e)) = 1
<1>1. CASE doc.kind = "paserk"
  <2>1. /\ Universal(doc, e) = Contents(doc.paserk.data)
        /\ Len(doc.paserk.data.holds) \in Nat
    BY <1>1, OpenPaserk, OneBlock DEF IsDocument
  <2> DEFINE n == Len(doc.paserk.data.holds) + 2
  <2>2. n \in Nat /\ Len([i \in 1..n |-> <<"cipher">>]) = n
    BY <2>1
  <2>3. Len(Universal(doc, e)) \in {Len(doc.paserk.data.holds), n}
    BY <2>1, <2>2 DEF Contents
  <2> QED
    BY <2>1, <2>2, <2>3 DEF Size
<1>2. CASE doc.kind # "paserk"
  <2>1. IsBytes(Universal(doc, e))
    BY <1>2 DEF Universal, IsDocument, Given
  <2> QED
    BY <2>1, OneBlock
<1> QED
  BY <1>1, <1>2

(* What the universal parser takes for a key comes from the root of the    *)
(* document, in whatever form the key is held.                             *)
LEMMA UniversalRoot ==
  ASSUME NEW arg, IsDocument(arg.doc), NEW e, UniversalError(arg.doc, e) = Ok,
         Len(Universal(arg.doc, e)) = 1
  PROVE  /\ Root(Universal(arg.doc, e)) = RootOf(arg)
         /\ LET block == Universal(arg.doc, e)[1] IN IsList(block) /\ block # <<>>
<1> DEFINE doc == arg.doc
<1>1. CASE doc.kind = "paserk"
  <2>1. IsBytes(doc.paserk.data.holds) /\ Given(doc.paserk.data.holds)
    BY <1>1 DEF IsDocument
  <2>2. Universal(doc, e) = Contents(doc.paserk.data)
    BY <1>1, OpenPaserk
  <2>3. Len(doc.paserk.data.holds) \in Nat
    BY <2>1, OneBlock
  <2>4. Contents(doc.paserk.data) = doc.paserk.data.holds
    BY <2>2, <2>3 DEF Contents
  <2>5. DOMAIN doc.paserk.data.holds = 1..1
    BY <2>1, <2>2, <2>4, OneBlock
  <2> QED
    BY <1>1, <2>1, <2>2, <2>4, <2>5 DEF RootOf, Given, IsBytes
<1>2. CASE doc.kind # "paserk" /\ e # "public" /\ Given(doc.private)
  <2>1. Universal(doc, e) = doc.private
    BY <1>2 DEF Universal
  <2>2. IsBytes(doc.private) /\ doc.public = <<EdPublic(doc.private[1])>> /\ Given(doc.public)
    BY <1>2 DEF IsDocument, Given
  <2>3. IsList(doc.private[1]) /\ doc.private[1] # <<>>
    BY <2>1, <2>2, OneBlock
  <2>4. Root(doc.public) = Root(doc.private)
    BY <2>2, <2>3, PublicRoot
  <2> QED
    BY <1>2, <2>1, <2>2, <2>3, <2>4 DEF RootOf, Given
<1>3. CASE doc.kind # "paserk" /\ ~(e # "public" /\ Given(doc.private))
  <2>1. Universal(doc, e) = doc.public /\ IsBytes(doc.public) /\ Given(doc.public)
    BY <1>3 DEF Universal, IsDocument
  <2>2. IsList(doc.public[1]) /\ doc.public[1] # <<>>
    BY <2>1, OneBlock
  <2> QED
    BY <1>3, <2>1, <2>2 DEF RootOf, Given
<1> QED
  BY <1>1, <1>2, <1>3

(***************************************************************************)
(* The engine.                                                             *)
(***************************************************************************)

(* Of a raw document the universal parser takes the bytes.                 *)
LEMMA RawUniversal ==
  ASSUME NEW doc, NEW bytes, doc = Raw(bytes, FALSE), NEW e
  PROVE  UniversalError(doc, e) = Ok /\ Universal(doc, e) = bytes
BY DEF Raw, Document, UniversalError, Universal, Given

(* What encode makes: a body under the root of the key, for the purpose,   *)
(* the footer and the assertion that the call asked for.                   *)
LEMMA EngineMakes ==
  ASSUME NEW arg, IsDocument(arg.doc), NEW purpose, NEW fits,
         EngineEncodeError(arg, purpose, fits) = Ok, NEW payload, NEW footer, NEW implicit
  PROVE  LET text == EngineEncode(arg, purpose, payload, footer, implicit)
         IN  /\ Engine(purpose) \in {"local", "public"}
             /\ text = TokenText(Engine(purpose),
                                 Body(Engine(purpose), text.body.by, payload, footer, implicit),
                                 footer)
             /\ Root(text.body.by) = RootOf(arg)
             /\ Len(text.body.by) = 1
<1> DEFINE doc  == SigningDoc(arg.doc, purpose)
           text == EngineEncode(arg, purpose, payload, footer, implicit)
           half == IF purpose = "local" THEN "local" ELSE "secret"
           key  == Universal(doc, half)
<1>1. Engine(purpose) \in {"local", "public"} /\ EngineKeyError(doc, half) = Ok
  BY DEF EngineEncodeError, Engine, Require, Ok, ??
<1>2. UniversalError(doc, half) = Ok /\ Size(key) = 32
  BY <1>1 DEF EngineKeyError, Require, Ok
<1>3. Len(key) = 1 /\ Root(key) = RootOf(arg) /\ IsList(key[1]) /\ key[1] # <<>>
  <2>1. CASE doc = arg.doc
    <3>1. Len(key) = 1
      BY <1>2, <2>1, UniversalLength
    <3> QED
      BY <1>2, <2>1, <3>1, UniversalRoot
  <2>2. CASE doc # arg.doc
    <3>1. /\ IsRaw(arg.doc) /\ Size(arg.doc.public) = 64
          /\ doc = Raw(<<arg.doc.public[1]>>, FALSE)
      BY <2>2 DEF SigningDoc
    <3>2. IsBytes(arg.doc.public) /\ Given(arg.doc.public)
      BY <3>1 DEF IsRaw, IsDocument
    <3>3. key = <<arg.doc.public[1]>>
      BY <3>1, RawUniversal
    <3>4. IsList(arg.doc.public[1]) /\ arg.doc.public[1] # <<>>
      BY <3>1, <3>2, OneBlock
    <3>5. Root(key) = Root(arg.doc.public)
      BY <3>3 DEF Root
    <3>6. RootOf(arg) = Root(arg.doc.public)
      BY <3>1, <3>2 DEF RootOf, IsRaw
    <3>7. Len(key) = 1 /\ key[1] = arg.doc.public[1]
      BY <3>3
    <3> QED
      BY <3>4, <3>5, <3>6, <3>7
  <2> QED
    BY <2>1, <2>2
<1>4. /\ text.body.by = (IF purpose = "local" THEN key ELSE <<EdPublic(key[1])>>)
      /\ text = TokenText(Engine(purpose),
                          Body(Engine(purpose), text.body.by, payload, footer, implicit), footer)
  BY <1>1 DEF EngineEncode, TokenText, Body, Engine
<1>5. Root(<<EdPublic(key[1])>>) = Root(key)
  BY <1>3, PublicRoot
<1> QED
  BY <1>1, <1>3, <1>4, <1>5

(* What decode opens: a body as it was made, under a key of its root.      *)
LEMMA EngineOpens ==
  ASSUME NEW arg, IsDocument(arg.doc), NEW token, NEW purpose, NEW implicit,
         EngineDecodeError(arg, token, purpose, implicit) = Ok
  PROVE  /\ token.purpose \in {"local", "public"}
         /\ token.body = Body(token.purpose, token.body.by, token.body.payload, token.footer,
                              implicit)
         /\ Len(token.body.by) = 1 => Root(token.body.by) = RootOf(arg)
<1> DEFINE actual == DecodePurpose(arg, purpose)
           engine == Engine(actual)
           doc    == VerifyingDoc(arg.doc, actual)
<1>1. /\ engine \in {"local", "public"} /\ UniversalError(doc, engine) = Ok
      /\ token.purpose = engine
      /\ Opens(token, engine, Universal(doc, engine), implicit)
  BY DEF EngineDecodeError, Require, Ok, ??
<1>2. /\ token.body = Body(engine, Universal(doc, engine), token.body.payload, token.footer, implicit)
      /\ token.body.by = Universal(doc, engine)
  BY <1>1 DEF Opens, Body
<1>3. ASSUME Len(token.body.by) = 1 PROVE Root(token.body.by) = RootOf(arg)
  <2>1. CASE doc = arg.doc
    BY <1>1, <1>2, <1>3, <2>1, UniversalRoot
  <2>2. CASE doc # arg.doc
    <3>1. /\ IsRaw(arg.doc) /\ Size(arg.doc.public) \in {32, 64}
          /\ doc = Raw(IF Size(arg.doc.public) = 64 THEN <<arg.doc.public[2]>>
                       ELSE <<EdPublic(arg.doc.public[1])>>, FALSE)
      BY <2>2 DEF VerifyingDoc
    <3>2. /\ IsBytes(arg.doc.public) /\ Given(arg.doc.public)
          /\ Size(arg.doc.public) = 64 => arg.doc.public[2] = EdPublic(arg.doc.public[1])
      BY <3>1 DEF IsRaw, IsDocument
    <3>3. token.body.by = <<EdPublic(arg.doc.public[1])>>
      <4>1. PICK bytes \in {<<arg.doc.public[2]>>, <<EdPublic(arg.doc.public[1])>>} :
              /\ doc = Raw(bytes, FALSE)
              /\ bytes # <<EdPublic(arg.doc.public[1])>> => Size(arg.doc.public) = 64
        BY <3>1
      <4>2. bytes = <<EdPublic(arg.doc.public[1])>>
        BY <3>2, <4>1
      <4>3. Universal(doc, engine) = bytes
        BY <4>1, RawUniversal
      <4> QED
        BY <1>2, <4>2, <4>3
    <3>4. IsList(arg.doc.public[1]) /\ arg.doc.public[1] # <<>>
      BY <3>1, <3>2, OneBlock
    <3>5. Root(token.body.by) = Root(arg.doc.public)
      BY <3>3, <3>4, PublicRoot
    <3> QED
      BY <3>1, <3>2, <3>5 DEF RootOf, IsRaw
  <2> QED
    BY <2>1, <2>2
<1> QED
  BY <1>1, <1>2, <1>3

(* Whatever the shim makes of the engine's errors, none of them passes.    *)
LEMMA DecodeOpens ==
  ASSUME NEW arg, NEW token, NEW how, NEW at, DecodeOneError(arg, token, how, at) = Ok
  PROVE  /\ EngineDecodeError(arg, token, how.purpose, how.implicit) = Ok
         /\ ClaimsVerdict(token.body.payload, how, at) = Ok
BY DEF DecodeOneError, Mapped, Require, Ok, ??

(* What a key makes, the same key opens.                                   *)
LEMMA EngineRoundTrip ==
  ASSUME NEW arg, IsDocument(arg.doc), NEW purpose, NEW fits,
         EngineEncodeError(arg, purpose, fits) = Ok, BothWays(arg, purpose),
         NEW payload, NEW footer, NEW implicit
  PROVE  EngineDecodeError(arg, EngineEncode(arg, purpose, payload, footer, implicit),
                           IF purpose = "local" THEN "local" ELSE "secret", implicit) = Ok
<1> DEFINE signing == SigningDoc(arg.doc, purpose)
           half    == IF purpose = "local" THEN "local" ELSE "secret"
           engine  == Engine(half)
           opening == VerifyingDoc(arg.doc, half)
           text    == EngineEncode(arg, purpose, payload, footer, implicit)
           key     == Universal(signing, half)
<1>1. UniversalError(signing, half) = Ok /\ Size(key) = 32
  BY DEF EngineEncodeError, EngineKeyError, Engine, Require, Ok, ??
<1>2. /\ engine = (IF purpose = "local" THEN "local" ELSE "public")
      /\ DecodePurpose(arg, half) = half
  BY DEF Engine, DecodePurpose
<1>3. text = TokenText(engine,
                       Body(engine, IF purpose = "local" THEN key ELSE <<EdPublic(key[1])>>,
                            payload, footer, implicit), footer)
  BY <1>2 DEF EngineEncode, TokenText, Body
<1>4. /\ arg.as # "text" => IsRaw(arg.doc) /\ Size(arg.doc.public) \in {32, 64}
      /\ UniversalError(opening, engine) = Ok
      /\ purpose = "local" => Universal(opening, engine) = key
      /\ purpose # "local" => Universal(opening, engine) = <<EdPublic(key[1])>>
  <2>1. CASE IsRaw(arg.doc)
    <3>1. /\ IsBytes(arg.doc.public) /\ arg.doc.private = Absent
          /\ Size(arg.doc.public) = 64 => arg.doc.public[2] = EdPublic(arg.doc.public[1])
          /\ arg.doc.kind = "raw"
      BY <2>1 DEF IsRaw, IsDocument
    <3>2. \A e : UniversalError(arg.doc, e) = Ok /\ Universal(arg.doc, e) = arg.doc.public
      BY <3>1 DEF UniversalError, Universal, Given
    <3>3. CASE signing # arg.doc
      <4>0. /\ purpose = "secret" /\ Size(arg.doc.public) = 64
            /\ signing = Raw(<<arg.doc.public[1]>>, FALSE)
        BY <3>3 DEF SigningDoc
      <4>1. purpose = "secret" /\ Size(arg.doc.public) = 64 /\ key = <<arg.doc.public[1]>>
        BY <4>0, RawUniversal
      <4>2. opening = Raw(<<arg.doc.public[2]>>, FALSE)
        BY <2>1, <4>1 DEF VerifyingDoc
      <4>3. UniversalError(opening, engine) = Ok /\ Universal(opening, engine) = <<arg.doc.public[2]>>
        BY <4>2, RawUniversal
      <4>4. key[1] = arg.doc.public[1]
        BY <4>1
      <4> QED
        BY <2>1, <3>1, <4>1, <4>3, <4>4
    <3>4. CASE signing = arg.doc
      <4>1. key = arg.doc.public /\ Size(arg.doc.public) = 32
        BY <1>1, <3>2, <3>4
      <4>2. CASE purpose = "local"
        <5>1. opening = arg.doc
          BY <4>2 DEF VerifyingDoc
        <5> QED
          BY <2>1, <3>2, <4>1, <4>2, <5>1
      <4>3. CASE purpose # "local"
        <5>1. opening = Raw(<<EdPublic(arg.doc.public[1])>>, FALSE)
          BY <2>1, <4>1, <4>3 DEF VerifyingDoc
        <5>2. /\ UniversalError(opening, engine) = Ok
              /\ Universal(opening, engine) = <<EdPublic(arg.doc.public[1])>>
          BY <5>1, RawUniversal
        <5> QED
          BY <2>1, <4>1, <4>3, <5>2
      <4> QED
        BY <4>2, <4>3
    <3> QED
      BY <3>3, <3>4
  <2>2. CASE ~IsRaw(arg.doc)
    <3>1. arg.as = "text" /\ signing = arg.doc /\ opening = arg.doc
      BY <2>2 DEF BothWays, SigningDoc, VerifyingDoc
    <3>2. CASE arg.doc.kind = "paserk"
      <4>1. purpose = "local"
        BY <2>2, <3>2 DEF BothWays
      <4> QED
        BY <1>1, <1>2, <3>1, <4>1
    <3>3. CASE arg.doc.kind # "paserk"
      <4>1. /\ Given(arg.doc.private)
            /\ arg.doc.public = <<EdPublic(arg.doc.private[1])>>
            /\ \A e : UniversalError(arg.doc, e) = Ok
        BY <2>2, <3>3 DEF BothWays, IsDocument, IsRaw, UniversalError
      <4>2. key = arg.doc.private
        BY <3>1, <3>3, <4>1 DEF Universal
      <4>3. Universal(arg.doc, "public") = arg.doc.public
        BY <3>3 DEF Universal
      <4> QED
        BY <1>2, <3>1, <4>1, <4>2, <4>3
    <3> QED
      BY <3>2, <3>3
  <2> QED
    BY <2>1, <2>2
<1>5. /\ text.purpose = engine /\ text.body.box = engine
      /\ Opens(text, engine, Universal(opening, engine), implicit)
  BY <1>3, <1>4 DEF TokenText, Body, Opens
<1>6. engine = "local" => Size(Universal(opening, engine)) = 32
  BY <1>1, <1>2, <1>4
<1>7. engine \in {"local", "public"} /\ engine \notin {"junk", "short"}
  BY <1>2
<1> QED
  BY <1>2, <1>4, <1>5, <1>6, <1>7 DEF EngineDecodeError, Require, Ok, ??

(***************************************************************************)
(* The invariant.  What circulates is known by what was made of it, and    *)
(* what a call has found so far by the keys it has tried.                  *)
(***************************************************************************)

(* The dict of the application holds claims, and what was made of it is    *)
(* what the call it was made by asked for.                                 *)
IsMade(m) ==
  LET effective == Effective(m.call.arg, m.call.purpose)
  IN  /\ m.call \in EncodeCalls
      /\ EngineEncodeError(m.call.arg, effective, m.call.nonceFits) = Ok
      /\ m.text = EngineEncode(m.call.arg, effective, m.payload, m.call.footer, m.call.implicit)
      /\ IsClaimSet(m.payload.claims)

Making == now \in 0..MaxTime /\ IsClaimSet(dict) /\ \A m \in made : IsMade(m)

(* Every body on the wire was made, or is none that opens.                 *)
Circulating ==
  \A w \in wire :
    /\ w = TokenText(w.purpose, w.body, w.footer)
    /\ w.body.box \in {"short", "junk"} \/ \E m \in made : w.body = m.text.body

(* A call was asked for, and is within its time and its list of keys.      *)
IsCall ==
  /\ DOMAIN call = DOMAIN NoCall
  /\ call.pc \in {"idle", "trying", "done"}
  /\ call.pc = "idle" => call = NoCall
  /\ call.pc # "idle" =>
       /\ call.text \in wire
       /\ \E c \in DecodeCalls : call.keys = c.keys /\ call.how = c.how
  /\ call.next \in 1..(Len(call.keys) + 1)
  /\ call.began \in 0..now

(* What was found: the answer of a key at the end, or nothing.             *)
Found ==
  /\ call.pc # "done" => call.error = Ok /\ call.answer = NoAnswer
  /\ call.pc = "done" => call.ended \in call.began..now
  /\ call.error # Ok => call.error \in {"ValueError", "DecryptError", "VerifyError"}
                          /\ call.answer = NoAnswer
  /\ Accepted =>
       /\ call.answer = Answer(call.text)
       /\ \E i \in 1..Len(call.keys) :
            DecodeOneError(call.keys[i], call.text, call.how, call.ended) = Ok

(* Every key before the next one was refused at an instant of the call.    *)
Refused ==
  /\ call.pc = "trying" /\ call.list =>
       \A i \in 1..(call.next - 1) :
         \E at \in call.began..now :
           DecodeOneError(call.keys[i], call.text, call.how, at) # Ok
  /\ RefusedByEveryKey

IInv == Making /\ Circulating /\ IsCall /\ Found /\ Refused

(* Dates that are stamped into claims are numbers.                         *)
LEMMA StampedTyped ==
  ASSUME NEW claims, IsClaimSet(claims), NEW i \in Int, NEW add_iat, NEW seconds \in Int
  PROVE  IsClaimSet(Stamped(claims, i, add_iat, seconds))
<1>1. i + seconds * Resolution \in Int
  BY ResolutionAssumption
<1>2. \A n \in DOMAIN Stamped(claims, i, add_iat, seconds) :
        \/ n \in DOMAIN claims /\ Stamped(claims, i, add_iat, seconds)[n] = claims[n]
        \/ Stamped(claims, i, add_iat, seconds)[n]
             \in {DateStr(i), DateStr(i + seconds * Resolution)}
  BY DEF Stamped, Has
<1> QED
  BY <1>1, <1>2 DEF IsClaimSet, DateStr

(* What encode adds to the history is made, and goes on the wire.          *)
LEMMA EncodeMakes ==
  ASSUME IInv, NEW c \in EncodeCalls, Encode(c)
  PROVE  /\ IsClaimSet(dict')
         /\ \/ UNCHANGED <<made, wire>>
            \/ \E m : IsMade(m) /\ made' = made \cup {m} /\ wire' = wire \cup {m.text}
<1> DEFINE stamps  == c.dict /\ GuardError(c.arg, Dict(dict), c.serializer) = Ok
           stamped == IF stamps THEN Stamped(dict, now, c.add_iat, c.exp_seconds) ELSE dict
           payload == IF c.dict THEN Dict(stamped) ELSE PlainBytes
           text    == EngineEncode(c.arg, Effective(c.arg, c.purpose), payload, c.footer, c.implicit)
           m == [text |-> text, call |-> c, payload |-> payload, at |-> now, own |-> own]
<1>1. dict' = stamped
  BY DEF Encode
<1>2. IsClaimSet(stamped)
  BY StampedTyped, ShapeAssumption, PasetoAssumption DEF IInv, Making
<1>3. IsClaimSet(payload.claims)
  BY <1>2 DEF Dict, PlainBytes, IsClaimSet
<1>4. CASE EncodeError(c.arg, c.purpose, payload, c.serializer, c.nonceFits) = Ok
  <2>1. EngineEncodeError(c.arg, Effective(c.arg, c.purpose), c.nonceFits) = Ok
    BY <1>4 DEF EncodeError, Require, Ok, ??
  <2>2. made' = made \cup {m} /\ wire' = wire \cup {m.text}
    BY <1>4 DEF Encode
  <2>3. IsMade(m)
    BY <1>3, <2>1 DEF IsMade
  <2> QED
    BY <1>1, <1>2, <2>2, <2>3
<1>5. CASE EncodeError(c.arg, c.purpose, payload, c.serializer, c.nonceFits) # Ok
  <2>1. UNCHANGED <<made, wire>>
    BY <1>5 DEF Encode
  <2> QED
    BY <1>1, <1>2, <2>1
<1> QED
  BY <1>4, <1>5

(* What is made is a text of one body, under the purpose of that body.     *)
LEMMA MadeText ==
  ASSUME NEW m, IsMade(m)
  PROVE  LET engine == Engine(Effective(m.call.arg, m.call.purpose))
         IN  /\ engine \in {"local", "public"}
             /\ m.text = TokenText(engine, Body(engine, m.text.body.by, m.payload, m.call.footer,
                                                m.call.implicit), m.call.footer)
             /\ Root(m.text.body.by) = RootOf(m.call.arg)
             /\ Len(m.text.body.by) = 1
BY EngineMakes, ShapeAssumption DEF IsMade

(* Nothing but calls of decode: time passes, and texts come to be.         *)
Elsewhere ==
  /\ UNCHANGED call /\ made \subseteq made' /\ wire \subseteq wire'
  /\ now' \in 0..MaxTime /\ now <= now'

LEMMA ElsewhereStep ==
  ASSUME IInv,
         \/ Tick
         \/ \E claims \in Dicts : NewDict(claims)
         \/ \E c \in EncodeCalls : Encode(c)
         \/ \E text \in wire : Alter(text) \/ Damage(text)
         \/ UNCHANGED vars
  PROVE  Elsewhere /\ Making' /\ Circulating'
<1>0. /\ now \in 0..MaxTime /\ MaxTime \in Nat
      /\ Making /\ Circulating
  BY PasetoAssumption DEF IInv, Making
<1>1. CASE Tick
  BY <1>0, <1>1 DEF Tick, Elsewhere, Making, Circulating
<1>2. CASE \E claims \in Dicts : NewDict(claims)
  BY <1>0, <1>2, ShapeAssumption DEF NewDict, Elsewhere, Making, Circulating
<1>3. ASSUME NEW c \in EncodeCalls, Encode(c) PROVE Elsewhere /\ Making' /\ Circulating'
  <2>1. UNCHANGED <<now, call>> /\ IsClaimSet(dict')
    BY <1>3, EncodeMakes DEF Encode
  <2>2. CASE UNCHANGED <<made, wire>>
    BY <1>0, <2>1, <2>2 DEF Elsewhere, Making, Circulating
  <2>3. ASSUME NEW m, IsMade(m), made' = made \cup {m}, wire' = wire \cup {m.text}
        PROVE  Elsewhere /\ Making' /\ Circulating'
    <3>0. PICK p, b, f : m.text = TokenText(p, b, f)
      BY <2>3, MadeText
    <3>1. m.text = TokenText(m.text.purpose, m.text.body, m.text.footer)
      BY <3>0 DEF TokenText
    <3>2. Elsewhere
      BY <1>0, <2>1, <2>3 DEF Elsewhere
    <3>3. Making'
      BY <1>0, <2>1, <2>3 DEF Making
    <3>4. Circulating'
      BY <1>0, <2>3, <3>1 DEF Circulating
    <3> QED
      BY <3>2, <3>3, <3>4
  <2> QED
    BY <1>3, <2>2, <2>3, EncodeMakes
<1>4. ASSUME NEW text \in wire, Alter(text) \/ Damage(text)
      PROVE  Elsewhere /\ Making' /\ Circulating'
  <2>1. text = TokenText(text.purpose, text.body, text.footer)
    BY <1>0 DEF Circulating
  <2> DEFINE Varied(new) ==
        \/ \E footer : new = [text EXCEPT !.footer = footer]
        \/ \E purpose : new = [text EXCEPT !.purpose = purpose]
        \/ \E body : new = [text EXCEPT !.body = body] /\ body.box \in {"short", "junk"}
  <2>2. PICK new : wire' = wire \cup {new} /\ Varied(new)
    <3>1. CASE Alter(text)
      BY <3>1 DEF Alter
    <3>2. CASE Damage(text)
      <4>1. PICK body \in {Short, [Short EXCEPT !.box = "junk"]} :
              wire' = wire \cup {[text EXCEPT !.body = body]}
        BY <3>2 DEF Damage
      <4>2. body.box \in {"short", "junk"}
        <5>1. "box" \in DOMAIN Short /\ Short.box = "short"
          BY DEF Short, Body
        <5> QED
          BY <4>1, <5>1
      <4> QED
        BY <4>1, <4>2
    <3> QED
      BY <1>4, <3>1, <3>2
  <2>3. /\ new = TokenText(new.purpose, new.body, new.footer)
        /\ new.body = text.body \/ new.body.box \in {"short", "junk"}
    BY <2>1, <2>2 DEF TokenText
  <2>4. UNCHANGED <<now, dict, made, call>>
    BY <1>4 DEF Alter, Damage
  <2>5. Elsewhere
    BY <1>0, <2>2, <2>4 DEF Elsewhere
  <2>6. Circulating'
    BY <1>0, <2>2, <2>3, <2>4 DEF Circulating
  <2> QED
    BY <1>0, <2>4, <2>5, <2>6 DEF Making
<1>5. CASE UNCHANGED vars
  BY <1>0, <1>5 DEF vars, Elsewhere, Making, Circulating
<1> QED
  BY <1>1, <1>2, <1>3, <1>4, <1>5

(* The keys of a call are a list of documents.                             *)
LEMMA CallKeys ==
  ASSUME IsCall
  PROVE  /\ Len(call.keys) \in Nat
         /\ \A i \in 1..Len(call.keys) : IsDocument(call.keys[i].doc)
<1>1. CASE call.pc = "idle"
  <2>1. call.keys = <<>>
    <3>1. NoCall.keys = <<>>
      BY DEF NoCall
    <3> QED
      BY <1>1, <3>1 DEF IsCall
  <2> QED
    BY <2>1
<1>2. CASE call.pc # "idle"
  <2>1. PICK c \in DecodeCalls : call.keys = c.keys
    BY <1>2 DEF IsCall
  <2>2. IsList(c.keys) /\ \A i \in DOMAIN c.keys : IsDocument(c.keys[i].doc)
    BY ShapeAssumption
  <2> QED
    BY <2>1, <2>2, Listed
<1> QED
  BY <1>1, <1>2

(* What happens elsewhere, a call does not notice.                         *)
LEMMA ElsewhereCall ==
  ASSUME IInv, Elsewhere
  PROVE  IsCall' /\ Found' /\ Refused'
<1>1. /\ call' = call /\ wire \subseteq wire' /\ now \in Int /\ now' \in Int /\ now <= now'
      /\ IsCall /\ Found /\ Refused
  BY PasetoAssumption DEF IInv, Elsewhere, Making
<1>2. call.began \in Int
  BY <1>1 DEF IsCall
<1>3. IsCall'
  BY <1>1 DEF IsCall
<1>4. Found'
  <2>1. call.pc = "done" => call.ended \in call.began..now'
    BY <1>1, <1>2 DEF Found
  <2> QED
    BY <1>1, <2>1 DEF Found, Accepted
<1>5. Refused'
  <2>1. call.began..now \subseteq call.began..now'
    BY <1>1, <1>2
  <2> QED
    BY <1>1, <2>1 DEF Refused, RefusedByEveryKey
<1> QED
  BY <1>3, <1>4, <1>5

(* A call begins with nothing found and no key tried.                      *)
LEMMA BeginStep ==
  ASSUME IInv, NEW text \in wire, NEW c \in DecodeCalls, Begin(text, c)
  PROVE  IsCall' /\ Found' /\ Refused'
<1>1. now \in 0..MaxTime /\ IsCall /\ MaxTime \in Nat
  BY PasetoAssumption DEF IInv, Making
<1>2. call' = [NoCall EXCEPT !.pc = "trying", !.text = text, !.keys = c.keys,
                             !.list = c.list, !.how = c.how, !.began = now]
      /\ UNCHANGED <<wire, now>>
  BY DEF Begin
<1>3. /\ DOMAIN call' = DOMAIN NoCall
      /\ call'.pc = "trying" /\ call'.text = text /\ call'.keys = c.keys
      /\ call'.how = c.how /\ call'.began = now
      /\ call'.next = 1 /\ call'.error = Ok /\ call'.answer = NoAnswer
  BY <1>2 DEF NoCall
<1>4. Len(c.keys) \in Nat
  BY ShapeAssumption, Listed
<1>5. IsCall'
  BY <1>1, <1>2, <1>3, <1>4 DEF IsCall
<1> QED
  BY <1>1, <1>2, <1>3, <1>5 DEF Found, Refused, RefusedByEveryKey, Accepted

(* One verdict of the shim, and what paseto_decode can make of it.         *)
LEMMA ShimErrors ==
  ASSUME NEW arg, NEW token, NEW how, NEW at
  PROVE  DecodeOneError(arg, token, how, at) \in {Ok, "ValueError", "DecryptError", "VerifyError"}
BY DEF DecodeOneError, ClaimsVerdict, Mapped, Require, Ok, ??

(* Fields that the end of a call sets, and those it leaves.                *)
LEMMA EndsCall ==
  ASSUME IsCall, NEW error, NEW answer, Ends(error, answer)
  PROVE  /\ DOMAIN call' = DOMAIN NoCall
         /\ call'.pc = "done" /\ call'.ended = now /\ call'.error = error /\ call'.answer = answer
         /\ call'.text = call.text /\ call'.keys = call.keys /\ call'.how = call.how
         /\ call'.list = call.list /\ call'.next = call.next /\ call'.began = call.began
<1>1. DOMAIN call = {"pc", "text", "keys", "list", "how", "next", "began", "ended", "error",
                     "answer"}
  BY DEF IsCall, NoCall
<1> QED
  BY <1>1 DEF Ends, IsCall

(* A call that goes on to the next key has this one's refusal behind it.   *)
LEMMA TryStep ==
  ASSUME IInv, Try
  PROVE  IsCall' /\ Found' /\ Refused'
<1> DEFINE error == DecodeOneError(call.keys[call.next], call.text, call.how, now)
<1>1. /\ now \in 0..MaxTime /\ MaxTime \in Nat /\ IsCall /\ Found /\ Refused
      /\ call.pc = "trying" /\ call.next <= Len(call.keys) /\ UNCHANGED <<wire, now>>
  BY PasetoAssumption DEF IInv, Making, Try
<1>2. /\ Len(call.keys) \in Nat /\ call.next \in 1..Len(call.keys)
      /\ call.began \in 0..now /\ now \in call.began..now
  BY <1>1, CallKeys DEF IsCall
<1>3. error \in {Ok, "ValueError", "DecryptError", "VerifyError"}
  BY ShimErrors
<1>4. CASE error = Ok
  <2>1. Ends(Ok, Answer(call.text))
    BY <1>4 DEF Try
  <2>2. IsCall'
    BY <1>1, <2>1, EndsCall DEF IsCall
  <2>3. Found'
    BY <1>1, <1>2, <1>4, <2>1, EndsCall DEF Found, Accepted
  <2>4. Refused'
    BY <1>1, <2>1, EndsCall DEF Refused, RefusedByEveryKey
  <2> QED
    BY <2>2, <2>3, <2>4
<1>5. CASE error # Ok /\ call.list
  <2>1. call' = [call EXCEPT !.next = @ + 1]
    BY <1>5 DEF Try
  <2>2. /\ DOMAIN call' = DOMAIN NoCall /\ call'.next = call.next + 1
        /\ call'.pc = call.pc /\ call'.error = call.error /\ call'.answer = call.answer
        /\ call'.text = call.text /\ call'.keys = call.keys /\ call'.how = call.how
        /\ call'.list = call.list /\ call'.began = call.began
    <3>1. DOMAIN call = {"pc", "text", "keys", "list", "how", "next", "began", "ended", "error",
                         "answer"}
      BY <1>1 DEF IsCall, NoCall
    <3> QED
      BY <1>1, <2>1, <3>1 DEF IsCall
  <2>3. IsCall'
    BY <1>1, <1>2, <2>2 DEF IsCall
  <2>4. Found'
    BY <1>1, <2>2 DEF Found, Accepted
  <2>5. Refused'
    <3>1. \A i \in 1..call.next :
            \E at \in call.began..now :
              DecodeOneError(call.keys[i], call.text, call.how, at) # Ok
      <4> SUFFICES ASSUME NEW i \in 1..call.next
                   PROVE  \E at \in call.began..now :
                            DecodeOneError(call.keys[i], call.text, call.how, at) # Ok
        OBVIOUS
      <4>1. CASE i = call.next
        BY <1>2, <1>5, <4>1
      <4>2. CASE i # call.next
        <5>1. i \in 1..(call.next - 1)
          BY <1>2, <4>2
        <5> QED
          BY <1>1, <1>5, <5>1 DEF Refused
      <4> QED
        BY <4>1, <4>2
    <3>2. call'.next - 1 = call.next
      BY <1>2, <2>2
    <3> QED
      BY <1>1, <2>2, <3>1, <3>2 DEF Refused, RefusedByEveryKey
  <2> QED
    BY <2>3, <2>4, <2>5
<1>6. CASE error # Ok /\ ~call.list
  <2>1. Ends(error, NoAnswer)
    BY <1>6 DEF Try
  <2>2. IsCall'
    BY <1>1, <2>1, EndsCall DEF IsCall
  <2>3. Found'
    BY <1>1, <1>2, <1>3, <1>6, <2>1, EndsCall DEF Found, Accepted
  <2>4. Refused'
    BY <1>1, <1>6, <2>1, EndsCall DEF Refused, RefusedByEveryKey
  <2> QED
    BY <2>2, <2>3, <2>4
<1> QED
  BY <1>4, <1>5, <1>6

(* A list of keys is given up only with every key tried.                   *)
LEMMA GiveUpStep ==
  ASSUME IInv, GiveUp
  PROVE  IsCall' /\ Found' /\ Refused'
<1>1. /\ now \in 0..MaxTime /\ MaxTime \in Nat /\ IsCall /\ Found /\ Refused
      /\ call.pc = "trying" /\ call.next > Len(call.keys) /\ UNCHANGED <<wire, now>>
      /\ Ends("ValueError", NoAnswer)
  BY PasetoAssumption DEF IInv, Making, GiveUp
<1>2. /\ Len(call.keys) \in Nat /\ call.next = Len(call.keys) + 1
      /\ call.began \in 0..now /\ now \in call.began..now
  BY <1>1, CallKeys DEF IsCall
<1>3. IsCall'
  BY <1>1, EndsCall DEF IsCall
<1>4. Found'
  BY <1>1, <1>2, EndsCall DEF Found, Accepted, Ok
<1>5. Refused'
  <2>1. call.list =>
          \A i \in 1..Len(call.keys) :
            \E at \in call.began..now :
              DecodeOneError(call.keys[i], call.text, call.how, at) # Ok
    <3>1. call.next - 1 = Len(call.keys)
      BY <1>2
    <3> QED
      BY <1>1, <3>1 DEF Refused
  <2> QED
    BY <1>1, <2>1, EndsCall DEF Refused, RefusedByEveryKey
<1> QED
  BY <1>3, <1>4, <1>5

(* The invariant holds of every run.                                       *)
LEMMA IInvAlways == Spec => []IInv
<1>1. Init => IInv
  <2>1. ASSUME Init PROVE Making /\ Circulating
    BY <2>1, ShapeAssumption, PasetoAssumption DEF Init, Making, Circulating
  <2>2. ASSUME Init PROVE IsCall /\ Found /\ Refused
    <3>1. /\ call = NoCall /\ now = 0 /\ Len(NoCall.keys) = 0 /\ NoCall.next = 1
          /\ NoCall.began = 0 /\ NoCall.pc = "idle" /\ NoCall.error = Ok
          /\ NoCall.answer = NoAnswer
      BY <2>2 DEF Init, NoCall
    <3> QED
      BY <3>1 DEF IsCall, Found, Refused, RefusedByEveryKey, Accepted
  <2> QED
    BY <2>1, <2>2 DEF IInv
<1>2. IInv /\ [Next]_vars => IInv'
  <2> SUFFICES ASSUME IInv, [Next]_vars PROVE IInv'
    OBVIOUS
  <2>1. ASSUME NEW text \in wire, NEW c \in DecodeCalls, Begin(text, c) PROVE IInv'
    <3>1. UNCHANGED <<now, dict, made, wire>>
      BY <2>1 DEF Begin
    <3> QED
      BY <2>1, <3>1, BeginStep DEF IInv, Making, Circulating
  <2>2. CASE Try \/ GiveUp
    <3>1. UNCHANGED <<now, dict, made, wire>>
      BY <2>2 DEF Try, GiveUp
    <3> QED
      BY <2>2, <3>1, TryStep, GiveUpStep DEF IInv, Making, Circulating
  <2>3. CASE \/ Tick
             \/ \E claims \in Dicts : NewDict(claims)
             \/ \E c \in EncodeCalls : Encode(c)
             \/ \E text \in wire : Alter(text) \/ Damage(text)
             \/ UNCHANGED vars
    BY <2>3, ElsewhereStep, ElsewhereCall DEF IInv
  <2> QED
    BY <2>1, <2>2, <2>3 DEF Next
<1> QED
  BY <1>1, <1>2, PTL DEF Spec

(***************************************************************************)
(* The theorems.                                                           *)
(***************************************************************************)

(* A call answers or raises, in one of the shim's exceptions, and within   *)
(* its time, whatever it is called with.                                   *)
THEOREM TypeAlways == Spec => []TypeOK
<1>1. IInv => TypeOK
  <2> SUFFICES ASSUME IInv PROVE TypeOK
    OBVIOUS
  <2>0. now \in 0..MaxTime /\ MaxTime \in Nat /\ IsCall /\ Found
    BY PasetoAssumption DEF IInv, Making
  <2>1. call.began \in 0..now /\ (call.pc = "done" => call.ended \in call.began..now)
    BY <2>0 DEF IsCall, Found
  <2>2. call.pc = "done" => call.began <= call.ended /\ call.ended <= now
    BY <2>0, <2>1
  <2>3. ASSUME Accepted PROVE call.answer # NoAnswer
    <3>1. PICK i \in 1..Len(call.keys) :
            DecodeOneError(call.keys[i], call.text, call.how, call.ended) = Ok
      BY <2>0, <2>3 DEF Found
    <3>2. call.text.purpose \in {"local", "public"}
      BY <2>0, <3>1, CallKeys, DecodeOpens, EngineOpens
    <3>3. call.answer.purpose # "none"
      BY <2>0, <2>3, <3>2 DEF Found, Answer
    <3>4. NoAnswer.purpose = "none"
      BY DEF NoAnswer
    <3> QED
      BY <3>3, <3>4
  <2>4. ASSUME ~Accepted PROVE call.answer = NoAnswer
    BY <2>0, <2>4 DEF Found, Accepted, IsCall
  <2>5. (call.answer # NoAnswer) = Accepted
    BY <2>3, <2>4 DEF Accepted
  <2> QED
    BY <2>0, <2>2, <2>5 DEF TypeOK, IsCall, Found
<1> QED
  BY <1>1, IInvAlways, PTL

(* For any keys, in any documents, and however texts are altered on their  *)
(* way: what paseto_decode accepts was encoded as it stands, for the same  *)
(* assertion, with a key of the root of one in the list.                   *)
THEOREM AuthenticAlways == Spec => []Authentic
<1>1. IInv => Authentic
  <2> SUFFICES ASSUME IInv, Accepted
               PROVE  \E m \in made :
                        /\ m.text = call.text /\ m.call.implicit = call.how.implicit
                        /\ call.answer = [payload |-> m.payload, footer |-> m.call.footer,
                             purpose |-> Engine(Effective(m.call.arg, m.call.purpose))]
                        /\ \E i \in 1..Len(call.keys) : RootOf(call.keys[i]) = RootOf(m.call.arg)
    BY DEF Authentic
  <2>0. IsCall /\ Found /\ Making /\ Circulating
    BY DEF IInv
  <2>1. PICK i \in 1..Len(call.keys) :
          DecodeOneError(call.keys[i], call.text, call.how, call.ended) = Ok
    BY <2>0 DEF Found
  <2>2. /\ call.text.purpose \in {"local", "public"}
        /\ call.text.body = Body(call.text.purpose, call.text.body.by, call.text.body.payload,
                                 call.text.footer, call.how.implicit)
        /\ Len(call.text.body.by) = 1 => Root(call.text.body.by) = RootOf(call.keys[i])
    BY <2>0, <2>1, CallKeys, DecodeOpens, EngineOpens
  <2>3. call.text \in wire
    BY <2>0 DEF IsCall, Accepted
  <2>4. call.text.body.box = call.text.purpose
    BY <2>2 DEF Body
  <2>5. PICK m \in made : call.text.body = m.text.body
    BY <2>0, <2>2, <2>3, <2>4 DEF Circulating
  <2> DEFINE engine == Engine(Effective(m.call.arg, m.call.purpose))
  <2>6. /\ m.text = TokenText(engine, Body(engine, m.text.body.by, m.payload, m.call.footer,
                                           m.call.implicit), m.call.footer)
        /\ Root(m.text.body.by) = RootOf(m.call.arg)
        /\ Len(m.text.body.by) = 1
    BY <2>0, MadeText DEF Making
  <2> HIDE DEF engine
  <2>7. /\ m.text.body = Body(engine, m.text.body.by, m.payload, m.call.footer, m.call.implicit)
        /\ m.text = TokenText(engine, m.text.body, m.call.footer)
    BY <2>6 DEF TokenText
  <2>8. /\ call.text.purpose = engine /\ call.text.footer = m.call.footer
        /\ call.text.body.payload = m.payload /\ call.how.implicit = m.call.implicit
    BY <2>2, <2>5, <2>7 DEF Body
  <2>9. m.text = call.text
    BY <2>0, <2>3, <2>5, <2>7, <2>8 DEF Circulating
  <2>10. call.answer = [payload |-> m.payload, footer |-> m.call.footer, purpose |-> engine]
    BY <2>0, <2>8 DEF Found, Answer
  <2>11. RootOf(call.keys[i]) = RootOf(m.call.arg)
    BY <2>2, <2>5, <2>6
  <2> QED
    BY <2>8, <2>9, <2>10, <2>11 DEF engine
<1> QED
  BY <1>1, IInvAlways, PTL

(* The stages that a claim set passed, each taken for itself.              *)
LEMMA ClaimStages ==
  ASSUME NEW claims, NEW slack, NEW expected, NEW at,
         LET val == [leeway |-> slack, required |-> {}]
         IN  ValidateClaims(claims, val, ClaimFlags(expected), expected, at) = Ok
  PROVE  /\ \A name \in DateClaims : Has(claims, name) => IsDate(claims[name])
         /\ Has(claims, "exp") => ~Earlier(claims["exp"], at - slack * Resolution)
         /\ Has(claims, "nbf") => ~Later(claims["nbf"], at + slack * Resolution)
         /\ Has(expected, "aud") =>
              /\ Has(claims, "aud")
              /\ expected.aud \cap (IF claims["aud"].type = "arr" THEN claims["aud"].vals
                                                                 ELSE {claims["aud"]}) # {}
<1> DEFINE val == [leeway |-> slack, required |-> {}]
           flags == ClaimFlags(expected)
<1>1. /\ NumericClaims(claims) = Ok /\ Expiration(claims, val, flags, at) = Ok
      /\ NotBefore(claims, val, flags, at) = Ok /\ AudienceCheck(claims, val, flags, expected) = Ok
  BY DEF ValidateClaims, ??
<1>2. /\ flags.exp = TRUE /\ flags.nbf = TRUE /\ flags.strict = FALSE
      /\ Has(expected, "aud") => flags.aud
  BY DEF ClaimFlags, FlagNames
<1>3. Leeway(val) = slack * Resolution
  BY DEF Leeway
<1> HIDE DEF val, flags
<1>4. \A name \in DateClaims : Has(claims, name) => IsDate(claims[name])
  BY <1>1 DEF NumericClaims, DateClaims, Require, Ok, ??
<1>5. Has(claims, "exp") => ~Earlier(claims["exp"], at - slack * Resolution)
  BY <1>1, <1>2, <1>3 DEF Expiration, Require, Ok
<1>6. Has(claims, "nbf") => ~Later(claims["nbf"], at + slack * Resolution)
  BY <1>1, <1>2, <1>3 DEF NotBefore, Require, Ok
<1>7. Has(expected, "aud") => Audience(claims, expected.aud, flags.strict) = Ok
  BY <1>1, <1>2 DEF AudienceCheck
<1>8. Has(expected, "aud") =>
        /\ Has(claims, "aud")
        /\ expected.aud \cap (IF claims["aud"].type = "arr" THEN claims["aud"].vals
                                                           ELSE {claims["aud"]}) # {}
  BY <1>2, <1>7 DEF Audience, Require, Ok, ??
<1> QED
  BY <1>4, <1>5, <1>6, <1>8

(* For any claims, keys, expectations and clock: the claims of an accepted *)
(* dict held at an instant of the call.                                    *)
THEOREM ValidDuringCallAlways == Spec => []ValidDuringCall
<1>1. IInv => ValidDuringCall
  <2> DEFINE claims == call.answer.payload.claims
             slack  == call.how.leeway * Resolution
  <2> SUFFICES ASSUME IInv, Accepted, call.how.validate, call.answer.payload.dict
               PROVE  /\ Has(claims, "exp") => ~Earlier(claims["exp"], call.began - slack)
                      /\ Has(claims, "nbf") => ~Later(claims["nbf"], call.ended + slack)
                      /\ Has(call.how.expected, "aud") =>
                           /\ Has(claims, "aud")
                           /\ call.how.expected.aud
                                \cap (IF claims["aud"].type = "arr" THEN claims["aud"].vals
                                                                    ELSE {claims["aud"]}) # {}
    BY DEF ValidDuringCall
  <2>0. IsCall /\ Found /\ Making /\ Circulating /\ now \in 0..MaxTime /\ MaxTime \in Nat
    BY PasetoAssumption DEF IInv, Making
  <2>1. PICK i \in 1..Len(call.keys) :
          DecodeOneError(call.keys[i], call.text, call.how, call.ended) = Ok
    BY <2>0 DEF Found
  <2>2. /\ EngineDecodeError(call.keys[i], call.text, call.how.purpose, call.how.implicit) = Ok
        /\ ClaimsVerdict(call.text.body.payload, call.how, call.ended) = Ok
    BY <2>1, DecodeOpens
  <2>3. call.answer.payload = call.text.body.payload
    BY <2>0 DEF Found, Answer
  <2>4. ValidateClaims(claims, [leeway |-> call.how.leeway, required |-> {}],
                       ClaimFlags(call.how.expected), call.how.expected, call.ended) = Ok
    BY <2>2, <2>3 DEF ClaimsVerdict, Require, Ok
  <2>5. IsClaimSet(claims)
    <3>1. call.text \in wire /\ call.text.purpose \in {"local", "public"}
      BY <2>0, <2>2, CallKeys, EngineOpens DEF IsCall, Accepted
    <3>2. call.text.body.box = call.text.purpose
      <4>1. call.text.body = Body(call.text.purpose, call.text.body.by, call.text.body.payload,
                                  call.text.footer, call.how.implicit)
        BY <2>0, <2>2, CallKeys, EngineOpens
      <4> QED
        BY <4>1 DEF Body
    <3>3. PICK m \in made : call.text.body = m.text.body
      BY <2>0, <3>1, <3>2 DEF Circulating
    <3>4. IsClaimSet(m.payload.claims)
      BY <2>0 DEF Making, IsMade
    <3>5. m.text.body.payload = m.payload
      <4>1. PICK p, by, f, imp : m.text = TokenText(p, Body(p, by, m.payload, f, imp), f)
        BY <2>0, MadeText DEF Making
      <4> QED
        BY <4>1 DEF TokenText, Body
    <3> QED
      BY <2>3, <3>3, <3>4, <3>5
  <2>6. call.how.leeway \in Nat
    BY <2>0, ShapeAssumption DEF IsCall, Accepted
  <2>7. slack \in Nat
    BY <2>6, ResolutionAssumption
  <2>8. call.began \in Int /\ call.ended \in Int /\ call.began <= call.ended
    BY <2>0 DEF IsCall, Found, Accepted
  <2> HIDE DEF claims, slack
  <2>9. /\ \A name \in DateClaims : Has(claims, name) => IsDate(claims[name])
        /\ Has(claims, "exp") => ~Earlier(claims["exp"], call.ended - slack)
        /\ Has(claims, "nbf") => ~Later(claims["nbf"], call.ended + slack)
        /\ Has(call.how.expected, "aud") =>
             /\ Has(claims, "aud")
             /\ call.how.expected.aud
                  \cap (IF claims["aud"].type = "arr" THEN claims["aud"].vals
                                                      ELSE {claims["aud"]}) # {}
    BY <2>4, ClaimStages DEF slack
  <2>10. Has(claims, "exp") /\ claims["exp"].type # "nan" => claims["exp"].at \in Int
    BY <2>5, <2>9 DEF IsClaimSet, IsDate, Has, DateClaims
  <2>11. Has(claims, "exp") => ~Earlier(claims["exp"], call.began - slack)
    BY <2>7, <2>8, <2>9, <2>10 DEF Earlier
  <2> QED
    BY <2>9, <2>11
<1> QED
  BY <1>1, IInvAlways, PTL

(* For any list of keys and any clock: a list is refused only if each of   *)
(* its keys was, at an instant of the call.                                *)
THEOREM RefusedByEveryKeyAlways == Spec => []RefusedByEveryKey
<1>1. IInv => RefusedByEveryKey
  BY DEF IInv, Refused
<1> QED
  BY <1>1, IInvAlways, PTL

(* For any key in any form: what paseto_encode made with a key that works  *)
(* both ways, paseto_decode opens with it.                                 *)
THEOREM RoundTripAlways == Spec => []RoundTrip
<1>1. IInv => RoundTrip
  <2> SUFFICES ASSUME IInv, NEW m \in made,
                      BothWays(m.call.arg, Effective(m.call.arg, m.call.purpose))
               PROVE  LET effective == Effective(m.call.arg, m.call.purpose)
                          how == [purpose |-> IF effective = "local" THEN "local" ELSE "secret",
                                  implicit |-> m.call.implicit, deserializer |-> "none",
                                  validate |-> FALSE, leeway |-> 0,
                                  expected |-> [n \in {} |-> {}]]
                      IN  DecodeOneError(m.call.arg, m.text, how, m.at) = Ok
    BY DEF RoundTrip
  <2> DEFINE effective == Effective(m.call.arg, m.call.purpose)
             half == IF effective = "local" THEN "local" ELSE "secret"
             how == [purpose |-> half, implicit |-> m.call.implicit, deserializer |-> "none",
                     validate |-> FALSE, leeway |-> 0, expected |-> [n \in {} |-> {}]]
  <2>1. /\ IsDocument(m.call.arg.doc)
        /\ EngineEncodeError(m.call.arg, effective, m.call.nonceFits) = Ok
        /\ m.text = EngineEncode(m.call.arg, effective, m.payload, m.call.footer, m.call.implicit)
    BY ShapeAssumption DEF IInv, Making, IsMade
  <2>2. EngineDecodeError(m.call.arg, m.text, half, m.call.implicit) = Ok
    BY <2>1, EngineRoundTrip
  <2>3. /\ how.purpose = half /\ how.implicit = m.call.implicit /\ how.deserializer = "none"
        /\ how.validate = FALSE
    OBVIOUS
  <2> HIDE DEF how, half
  <2>4. DecodeOneError(m.call.arg, m.text, how, m.at) = Ok
    BY <2>2, <2>3 DEF DecodeOneError, ClaimsVerdict, Mapped, Require, Ok, ??
  <2> QED
    BY <2>4 DEF how, half
<1> QED
  BY <1>1, IInvAlways, PTL
==============================================================================
