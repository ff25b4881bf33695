-------------------------- MODULE Handlers_proofs --------------------------
(***************************************************************************)
(* The handlers of webtoken.py: which key they find in a set and what      *)
(* their keys verify, for any keys, JWKs, documents, handlers and kids;    *)
(* and, at the end, the tables that the handlers are kept in.              *)
(***************************************************************************)
EXTENDS KeySetService, AlgorithmRegistry, JwtClaims_proofs, SequenceTheorems,
        WellFoundedInduction, NaturalsInduction

(***************************************************************************)
(* Induction over the length of a document.  The induction theorems of the *)
(* library take an operator; these take a set of numbers.                  *)
(***************************************************************************)
LEMMA Least ==
  ASSUME NEW S, S \subseteq Nat, S # {}
  PROVE  \E n \in S : \A m \in S : n <= m
<1> DEFINE less == {ss \in Nat \X Nat : ss[1] < ss[2]}
<1>1. IsWellFoundedOn(less, Nat)
  BY NatLessThanWellFounded DEF OpToRel
<1>2. PICK n \in S : \A m \in S : <<m, n>> \notin less
  <2> HIDE DEF less
  <2> QED
    BY <1>1, WFMin
<1>3. \A m \in S : m \in Nat /\ n \in Nat /\ ~(m < n)
  BY <1>2
<1> QED
  BY <1>3

LEMMA Induction ==
  ASSUME NEW S, 0 \in S, \A n \in Nat : n \in S => n + 1 \in S
  PROVE  Nat \subseteq S
<1> SUFFICES ASSUME Nat \ S # {} PROVE FALSE
  OBVIOUS
<1>1. PICK n \in Nat \ S : \A m \in Nat \ S : n <= m
  BY Least
<1>2. n # 0 /\ n - 1 \in Nat /\ ~(n <= n - 1)
  BY <1>1
<1>3. n - 1 \in S
  BY <1>1, <1>2
<1> QED
  BY <1>1, <1>2, <1>3

(***************************************************************************)
(* The loop of normalize_key_set.                                          *)
(***************************************************************************)
Taken(jwks, before, n) ==
  IF Usable(jwks[n]) THEN Append(before, PyJwk(jwks[n], "")) ELSE before

Loop(jwks, f, k) == [n \in 0..k |-> IF n = 0 THEN <<>> ELSE Taken(jwks, f[n - 1], n)]

UpTo(jwks) == CHOOSE f : f = Loop(jwks, f, Len(jwks))

LEMMA LoopExists ==
  ASSUME NEW jwks, NEW N \in Nat
  PROVE  \E f : f = Loop(jwks, f, N)
<1> DEFINE S == {k \in Nat : \E f : f = Loop(jwks, f, k)}
<1>1. 0 \in S
  <2>1. [n \in 0..0 |-> <<>>] = Loop(jwks, [n \in 0..0 |-> <<>>], 0)
    BY DEF Loop
  <2> QED
    BY <2>1
<1>2. ASSUME NEW k \in Nat, k \in S
      PROVE  k + 1 \in S
  <2>1. PICK f : f = Loop(jwks, f, k)
    BY <1>2
  <2> DEFINE g == [n \in 0..(k + 1) |-> IF n = k + 1 THEN Taken(jwks, f[k], n) ELSE f[n]]
  <2>2. \A n \in 0..k : f[n] = IF n = 0 THEN <<>> ELSE Taken(jwks, f[n - 1], n)
    BY <2>1 DEF Loop
  <2>3. ASSUME NEW n \in 0..(k + 1)
        PROVE  g[n] = IF n = 0 THEN <<>> ELSE Taken(jwks, g[n - 1], n)
    BY <2>2
  <2>4. g = Loop(jwks, g, k + 1)
    <3>1. g = [n \in 0..(k + 1) |-> g[n]]
      OBVIOUS
    <3> HIDE DEF g
    <3> QED
      BY <2>3, <3>1 DEF Loop
  <2> QED
    BY <2>4
<1>3. Nat \subseteq S
  <2> HIDE DEF S
  <2> QED
    BY <1>1, <1>2, Induction
<1> QED
  BY <1>3

(* One turn of the loop.                                                   *)
LEMMA Unfold ==
  ASSUME NEW jwks, Len(jwks) \in Nat
  PROVE  /\ KeySet(jwks) = UpTo(jwks)[Len(jwks)]
         /\ UpTo(jwks)[0] = <<>>
         /\ \A n \in 1..Len(jwks) : UpTo(jwks)[n] = Taken(jwks, UpTo(jwks)[n - 1], n)
<1>1. KeySet(jwks) = UpTo(jwks)[Len(jwks)]
  BY DEF KeySet, UpTo, Loop, Taken
<1>2. UpTo(jwks) = Loop(jwks, UpTo(jwks), Len(jwks))
  BY LoopExists DEF UpTo
<1>3. \A n \in 0..Len(jwks) :
        UpTo(jwks)[n] = IF n = 0 THEN <<>> ELSE Taken(jwks, UpTo(jwks)[n - 1], n)
  <2> DEFINE f == UpTo(jwks)
  <2> HIDE DEF f
  <2>1. f = Loop(jwks, f, Len(jwks))
    BY <1>2 DEF f
  <2> QED
    BY <2>1 DEF Loop, f
<1> QED
  BY <1>1, <1>3

(***************************************************************************)
(* What the loop has after n keys: a sequence of PyJWKs of usable JWKs     *)
(* among those n, and of all usable JWKs of one name the first one first.  *)
(***************************************************************************)
PyJwks(S) == {PyJwk(jwk, "") : jwk \in S}

IsFirst(jwks, j) ==
  /\ Usable(jwks[j])
  /\ \A m \in 1..(j - 1) : jwks[m].kid = jwks[j].kid => ~Usable(jwks[m])

Leads(set, jwk) ==
  \E i \in 1..Len(set) :
    set[i] = PyJwk(jwk, "") /\ \A m \in 1..(i - 1) : set[m].jwk.kid # jwk.kid

Gathered(jwks, S, set, n) ==
  /\ set \in Seq(PyJwks(S))
  /\ \A i \in 1..Len(set) :
       \E j \in 1..n : Usable(jwks[j]) /\ set[i] = PyJwk(jwks[j], "")
  /\ \A j \in 1..n : IsFirst(jwks, j) => Leads(set, jwks[j])

LEMMA PyJwkOf ==
  ASSUME NEW jwk
  PROVE  /\ PyJwk(jwk, "").jwk = jwk /\ PyJwk(jwk, "").form = "jwk"
         /\ PyJwk(jwk, "").alg = IF jwk.alg # "" THEN jwk.alg ELSE Deduced(jwk)
BY DEF PyJwk

(* One more key.                                                           *)
LEMMA GatheredStep ==
  ASSUME NEW S, NEW jwks \in Seq(S), NEW set, NEW n \in Nat, n + 1 <= Len(jwks),
         Gathered(jwks, S, set, n)
  PROVE  Gathered(jwks, S, Taken(jwks, set, n + 1), n + 1)
<1> DEFINE jwk  == jwks[n + 1]
           new  == PyJwk(jwk, "")
           next == Taken(jwks, set, n + 1)
           H    == PyJwks(S)
<1>1. set \in Seq(H)
  BY DEF Gathered
<1>2. \A i \in 1..Len(set) :
        \E j \in 1..n : Usable(jwks[j]) /\ set[i] = PyJwk(jwks[j], "")
  BY DEF Gathered
<1>3. \A j \in 1..n : IsFirst(jwks, j) => Leads(set, jwks[j])
  BY DEF Gathered
<1>4. Len(set) \in Nat
  <2> HIDE DEF H
  <2> QED
    BY <1>1
<1>5. jwk \in S /\ new \in H
  <2>1. n + 1 \in 1..Len(jwks)
    OBVIOUS
  <2>2. jwk \in S
    BY <2>1
  <2> HIDE DEF jwk
  <2> QED
    BY <2>2 DEF PyJwks
<1>6. (1..n) \subseteq 1..(n + 1) /\ n + 1 \in 1..(n + 1) /\ (n + 1) - 1 = n
      /\ \A j \in 1..(n + 1) : j \in 1..n \/ j = n + 1
  OBVIOUS
<1> HIDE DEF jwk, new, next, H
<1>7. CASE ~Usable(jwk)
  <2>1. next = set /\ ~IsFirst(jwks, n + 1)
    BY <1>7 DEF Taken, IsFirst, next, jwk
  <2>2. \A j \in 1..(n + 1) : IsFirst(jwks, j) => Leads(set, jwks[j])
    BY <1>3, <1>6, <2>1
  <2>3. \A i \in 1..Len(set) :
          \E j \in 1..(n + 1) : Usable(jwks[j]) /\ set[i] = PyJwk(jwks[j], "")
    BY <1>2, <1>6, Zenon
  <2> QED
    BY <1>1, <2>1, <2>2, <2>3 DEF Gathered, next, H
<1>8. CASE Usable(jwk)
  <2>1. next = Append(set, new)
    BY <1>8 DEF Taken, next, jwk, new
  <2>2. next \in Seq(H) /\ Len(next) = Len(set) + 1 /\ next[Len(set) + 1] = new
    BY <1>1, <1>5, <2>1, AppendProperties
  <2>3. \A i \in 1..Len(set) : next[i] = set[i]
    BY <1>1, <1>5, <2>1, AppendProperties
  <2>4. (1..Len(set)) \subseteq 1..Len(next) /\ Len(set) + 1 \in 1..Len(next)
        /\ (Len(set) + 1) - 1 = Len(set)
        /\ \A i \in 1..Len(next) : i \in 1..Len(set) \/ i = Len(set) + 1
    BY <1>4, <2>2
  <2>5. ASSUME NEW i \in 1..Len(next)
        PROVE  \E j \in 1..(n + 1) : Usable(jwks[j]) /\ next[i] = PyJwk(jwks[j], "")
    <3>1. CASE i = Len(set) + 1
      BY <1>6, <1>8, <2>2, <3>1 DEF new, jwk
    <3>2. CASE i \in 1..Len(set)
      BY <1>2, <1>6, <2>3, <3>2, Zenon
    <3> QED
      BY <2>4, <3>1, <3>2
  <2>6. ASSUME NEW j \in 1..n, IsFirst(jwks, j)
        PROVE  Leads(next, jwks[j])
    <3>1. PICK i \in 1..Len(set) :
            set[i] = PyJwk(jwks[j], "") /\ \A m \in 1..(i - 1) : set[m].jwk.kid # jwks[j].kid
      BY <1>3, <2>6 DEF Leads
    <3>2. \A m \in 1..(i - 1) : m \in 1..Len(set)
      BY <1>4
    <3>3. i \in 1..Len(next) /\ next[i] = set[i] /\ \A m \in 1..(i - 1) : next[m] = set[m]
      BY <2>3, <2>4, <3>2, Zenon
    <3> QED
      BY <3>1, <3>3 DEF Leads
  <2>7. IsFirst(jwks, n + 1) => Leads(next, jwk)
    <3> SUFFICES ASSUME IsFirst(jwks, n + 1)
                 PROVE  Leads(next, jwk)
      OBVIOUS
    <3>1. ASSUME NEW m \in 1..Len(set)
          PROVE  next[m].jwk.kid # jwk.kid
      <4>1. PICK j \in 1..n : Usable(jwks[j]) /\ set[m] = PyJwk(jwks[j], "")
        BY <1>2
      <4>2. jwks[j].kid # jwk.kid
        BY <1>6, <4>1 DEF IsFirst, jwk
      <4>3. next[m] = PyJwk(jwks[j], "")
        BY <2>3, <3>1, <4>1, Zenon
      <4>4. next[m].jwk = jwks[j]
        BY <4>3, PyJwkOf, Zenon
      <4> QED
        BY <4>2, <4>4
    <3>2. next[Len(set) + 1] = PyJwk(jwk, "")
      BY <2>2 DEF new
    <3> QED
      BY <2>4, <3>1, <3>2 DEF Leads
  <2>8. \A j \in 1..(n + 1) : IsFirst(jwks, j) => Leads(next, jwks[j])
    BY <1>6, <2>6, <2>7 DEF jwk
  <2> QED
    BY <2>2, <2>5, <2>8 DEF Gathered, next, H
<1> QED
  BY <1>7, <1>8

(* A key set: what a load of a document gives.                             *)
LEMMA KeySetOf ==
  ASSUME NEW S, NEW jwks \in Seq(S)
  PROVE  Gathered(jwks, S, KeySet(jwks), Len(jwks))
<1> DEFINE Good == {n \in Nat : n <= Len(jwks) => Gathered(jwks, S, UpTo(jwks)[n], n)}
<1>1. Len(jwks) \in Nat
  OBVIOUS
<1>2. 0 \in Good
  <2>1. UpTo(jwks)[0] = <<>>
    BY <1>1, Unfold
  <2>2. Gathered(jwks, S, <<>>, 0)
    BY DEF Gathered
  <2> QED
    BY <2>1, <2>2
<1>3. ASSUME NEW n \in Nat, n \in Good
      PROVE  n + 1 \in Good
  <2> SUFFICES ASSUME n + 1 <= Len(jwks)
               PROVE  Gathered(jwks, S, UpTo(jwks)[n + 1], n + 1)
    OBVIOUS
  <2>1. UpTo(jwks)[n + 1] = Taken(jwks, UpTo(jwks)[n], n + 1)
    BY <1>1, Unfold
  <2>2. Gathered(jwks, S, UpTo(jwks)[n], n)
    BY <1>1, <1>3
  <2> QED
    BY <2>1, <2>2, GatheredStep
<1>4. Nat \subseteq Good
  <2> HIDE DEF Good
  <2> QED
    BY <1>2, <1>3, Induction
<1> QED
  BY <1>1, <1>4, Unfold

(* The lookup by name finds the first.                                     *)
LEMMA ByKidOf ==
  ASSUME NEW H, NEW set \in Seq(H), NEW kid, HasKid(set, kid) = Ok
  PROVE  \E i \in DOMAIN set :
           /\ ByKid(set, kid) = set[i] /\ set[i].jwk.kid = kid
           /\ \A m \in 1..(i - 1) : set[m].jwk.kid # kid
<1> DEFINE I == {i \in DOMAIN set : set[i].jwk.kid = kid}
<1>1. DOMAIN set = 1..Len(set) /\ Len(set) \in Nat
  OBVIOUS
<1>2. I # {} /\ I \subseteq Nat
  BY <1>1 DEF HasKid, Require, Ok
<1>3. PICK i \in I : \A m \in I : i <= m
  <2> HIDE DEF I
  <2> QED
    BY <1>2, Least
<1>4. PICK k : k = CHOOSE j \in I : \A m \in I : j <= m
  OBVIOUS
<1>5. k \in I /\ \A m \in I : k <= m
  <2> HIDE DEF I
  <2> QED
    BY <1>3, <1>4
<1>6. ByKid(set, kid) = set[k]
  BY <1>4 DEF ByKid
<1>7. \A m \in 1..(k - 1) : m \in DOMAIN set /\ m \notin I
  BY <1>1, <1>2, <1>5
<1> QED
  BY <1>5, <1>6, <1>7

(***************************************************************************)
(* The inductive invariant.                                                *)
(***************************************************************************)
(* The PyJWKs an issuer can come to hold, and the JWKs of a document.      *)
OwnKeys ==
  {key \in Keys : key.form = "jwk"}
    \cup {PyJwk(jwk, "") : jwk \in Jwks} \cup {PyJwk(Parsed(key), "") : key \in Keys}

Entries ==
  Published \cup {[PublicKey(key).jwk EXCEPT !.kid = kid] : key \in OwnKeys, kid \in Kids}

(* What the handler of its kind has seen of a key.                         *)
Suited(jwk) ==
  /\ jwk.kty = "EC" => {"x", "y"} \subseteq jwk.has
  /\ jwk.kty = "OKP" => jwk.crv = "Ed25519" /\ Readable(jwk, {"x"})

OwnInv ==
  own # NoKey =>
    /\ own.handler \in Handlers /\ own.kid \in Kids
    /\ own.key.form = "jwk" =>
         /\ own.key \in OwnKeys /\ IsHeld(own.key)
         /\ own.key.jwk.kty = Handler[own.handler].family => Suited(own.key.jwk)

SetInv ==
  /\ document \in Seq(Entries) /\ Len(document) <= MaxKeys
  /\ fetched \in Seq(Entries)
  /\ cached = KeySet(fetched) /\ (fetched # <<>> => cached # <<>>)

IInv == OwnInv /\ SetInv

LEMMA HandlerFacts ==
  ASSUME NEW name \in DOMAIN Handler
  PROVE  LET handler == Handler[name]
         IN  \/ handler.family = "oct" /\ handler.alg \in Hmac
             \/ handler.family = "RSA" /\ handler.alg \in Rsa
             \/ handler.family = "EC" /\ handler.alg \in Ecdsa
             \/ handler.family = "OKP" /\ handler.alg = "EdDSA" /\ handler.crv = "Ed25519"
<1>1. /\ Handler["HS256"].family = "oct" /\ Handler["HS256"].alg \in Hmac
      /\ Handler["HS384"].family = "oct" /\ Handler["HS384"].alg \in Hmac
      /\ Handler["HS512"].family = "oct" /\ Handler["HS512"].alg \in Hmac
  BY DEF Handler, Hmac
<1>2. /\ Handler["RS256"].family = "RSA" /\ Handler["RS256"].alg \in Rsa
      /\ Handler["RS384"].family = "RSA" /\ Handler["RS384"].alg \in Rsa
      /\ Handler["RS512"].family = "RSA" /\ Handler["RS512"].alg \in Rsa
      /\ Handler["PS256"].family = "RSA" /\ Handler["PS256"].alg \in Rsa
      /\ Handler["PS384"].family = "RSA" /\ Handler["PS384"].alg \in Rsa
      /\ Handler["PS512"].family = "RSA" /\ Handler["PS512"].alg \in Rsa
  BY DEF Handler, Rsa
<1>3. /\ Handler["ES256"].family = "EC" /\ Handler["ES256"].alg \in Ecdsa
      /\ Handler["ES384"].family = "EC" /\ Handler["ES384"].alg \in Ecdsa
      /\ Handler["ES512"].family = "EC" /\ Handler["ES512"].alg \in Ecdsa
      /\ Handler["ES521"].family = "EC" /\ Handler["ES521"].alg \in Ecdsa
      /\ Handler["ES256K"].family = "EC" /\ Handler["ES256K"].alg \in Ecdsa
  BY DEF Handler, EcHandler, Ecdsa
<1>4. /\ Handler["EdDSA"].family = "OKP" /\ Handler["EdDSA"].alg = "EdDSA"
      /\ Handler["EdDSA"].crv = "Ed25519"
  BY DEF Handler
<1>5. name \in {"HS256", "HS384", "HS512", "RS256", "RS384", "RS512", "PS256", "PS384",
               "PS512", "ES256", "ES384", "ES512", "ES521", "ES256K", "EdDSA"}
  BY DEF Handler
<1> QED
  BY <1>1, <1>2, <1>3, <1>4, <1>5

(* What a PEM or SSH text parses into is a JWK.                            *)
LEMMA ParsedShape ==
  ASSUME NEW text, Parses(text) = Ok
  PROVE  IsJwk(Parsed(text))
<1>1. text.kty \in {"RSA", "OKP", "Ed448", "P-192"} \cup EcCurves
  BY DEF Parses, Require, Ok
<1>2. text.kty \notin {"RSA", "OKP"} => text.kty \notin {"RSA", "OKP", "oct"}
  BY <1>1 DEF EcCurves, NistCurves
<1>3. \A kty, crv, has, of : crv \notin {"RSA", "OKP", "oct"} => IsJwk(JwkOf(kty, crv, has, of))
  BY DEF IsJwk, JwkOf
<1> QED
  BY <1>2, <1>3 DEF Parsed

LEMMA HeldOf ==
  ASSUME NEW jwk, IsJwk(jwk), Normalizes(jwk, "") = Ok
  PROVE  IsHeld(PyJwk(jwk, ""))
BY PyJwkOf DEF IsHeld

LEMMA LoadedIsHeld ==
  ASSUME NEW key \in Keys, Loads(key) = Ok
  PROVE  Loaded(key) \in OwnKeys /\ IsHeld(Loaded(key))
<1>1. CASE key.form = "jwk"
  BY <1>1, JwkAssumption DEF Loaded, OwnKeys
<1>2. CASE key.form # "jwk"
  <2>1. Parses(key) = Ok /\ Normalizes(Parsed(key), "") = Ok
    BY <1>2 DEF Loads, ??, Ok
  <2>2. Loaded(key) = PyJwk(Parsed(key), "")
    BY <1>2 DEF Loaded
  <2>3. IsHeld(PyJwk(Parsed(key), ""))
    BY <2>1, ParsedShape, HeldOf
  <2> QED
    BY <2>2, <2>3 DEF OwnKeys
<1> QED
  BY <1>1, <1>2

(* The handlers of RSA, elliptic curve and Ed25519 keys look at what they  *)
(* are given.                                                              *)
LEMMA SuitsMeans ==
  ASSUME NEW jwk, NEW kty, NEW crv, Suits(jwk, kty, crv) = Ok, kty = "OKP" => crv = "Ed25519"
  PROVE  jwk.kty = kty /\ Suited(jwk)
BY DEF Suits, Suited, Require, Ok

LEMMA LoadKeyInv ==
  ASSUME NEW name \in Handlers, NEW key \in Keys, Prepares(Handler[name], key) = Ok,
         PreparedKey(Handler[name], key).form = "jwk"
  PROVE  LET mine == PreparedKey(Handler[name], key)
         IN  /\ mine \in OwnKeys /\ IsHeld(mine)
             /\ mine.jwk.kty = Handler[name].family => Suited(mine.jwk)
<1> DEFINE handler == Handler[name]
           mine    == PreparedKey(handler, key)
<1>1. name \in DOMAIN Handler
  BY KeySetAssumption
<1>2. CASE handler.family = "oct"
  <2>1. mine = key
    BY <1>2 DEF PreparedKey
  <2>2. mine \in OwnKeys /\ IsHeld(mine)
    BY <2>1, JwkAssumption DEF OwnKeys
  <2>3. mine.jwk.kty = "oct" => Suited(mine.jwk)
    BY DEF Suited
  <2> QED
    BY <1>2, <2>2, <2>3
<1>3. CASE handler.family # "oct"
  <2>1. mine = Loaded(key)
    BY <1>3 DEF PreparedKey
  <2>2. Loads(key) = Ok /\ Accepts(handler, key) = Ok
    BY <1>3, Sequencing DEF Prepares, Ok
  <2>3. handler.family = "OKP" => handler.crv = "Ed25519"
    BY <1>1, HandlerFacts
  <2>4. Suited(mine.jwk)
    BY <2>1, <2>2, <2>3, SuitsMeans DEF Accepts
  <2> QED
    BY <2>1, <2>2, <2>4, LoadedIsHeld
<1> QED
  BY <1>2, <1>3

LEMMA ImportInv ==
  ASSUME NEW name \in Handlers, NEW jwk \in Jwks, Imports(Handler[name], jwk) = Ok
  PROVE  LET mine == PyJwk(jwk, "")
         IN  /\ mine \in OwnKeys /\ IsHeld(mine)
             /\ mine.jwk.kty = Handler[name].family => Suited(mine.jwk)
<1> DEFINE handler == Handler[name]
<1>1. Normalizes(jwk, "") = Ok
  BY Sequencing DEF Imports
<1>2. PyJwk(jwk, "") \in OwnKeys /\ IsHeld(PyJwk(jwk, ""))
  BY <1>1, HeldOf, JwkAssumption DEF OwnKeys
<1>3. jwk.kty = handler.family => Suited(jwk)
  <2>1. CASE handler.family \in {"oct", "RSA"}
    BY <2>1 DEF Suited
  <2>2. CASE handler.family \notin {"oct", "RSA"}
    <3>1. Suits(jwk, handler.family, IF handler.family = "OKP" THEN "Ed25519" ELSE "") = Ok
      BY <2>2, Sequencing DEF Imports
    <3> QED
      BY <3>1, SuitsMeans
  <2> QED
    BY <2>1, <2>2
<1> QED
  BY <1>2, <1>3, PyJwkOf

(* A JWK in one piece.                                                      *)
Pieces(kty, crv, has, bad, alg, use, kid, of, len) ==
  [kty |-> kty, crv |-> crv, has |-> has, bad |-> bad, alg |-> alg, use |-> use,
   kid |-> kid, of |-> of, len |-> len]

(* public_key takes the private members away and leaves the rest.          *)
LEMMA Fields ==
  ASSUME NEW key, IsHeld(key)
  PROVE  key = [form |-> "jwk", alg |-> key.alg,
                jwk |-> Pieces(key.jwk.kty, key.jwk.crv, key.jwk.has, key.jwk.bad,
                               key.jwk.alg, key.jwk.use, key.jwk.kid, key.jwk.of, key.jwk.len)]
<1>1. PICK jwk : jwk = key.jwk
  OBVIOUS
<1>2. PICK name : PyJwk(jwk, "") = [form |-> "jwk", alg |-> name, jwk |-> jwk]
  BY DEF PyJwk
<1>3. key = [form |-> "jwk", alg |-> name, jwk |-> jwk]
  BY <1>1, <1>2 DEF IsHeld
<1>4. jwk = Pieces(jwk.kty, jwk.crv, jwk.has, jwk.bad, jwk.alg, jwk.use, jwk.kid, jwk.of, jwk.len)
  <2>1. IsJwk(jwk)
    BY <1>1 DEF IsHeld
  <2> QED
    BY <2>1 DEF IsJwk, Pieces
<1>5. name = key.alg
  BY <1>3
<1> QED
  BY <1>1, <1>3, <1>4, <1>5

LEMMA Stripped ==
  ASSUME NEW kty, NEW crv, NEW has, NEW bad, NEW alg, NEW use, NEW kid, NEW of, NEW len,
         NEW name, NEW key,
         key = [form |-> "jwk", alg |-> name,
                jwk |-> Pieces(kty, crv, has, bad, alg, use, kid, of, len)]
  PROVE  PublicKey(key) =
           [form |-> "jwk", alg |-> name,
            jwk |-> Pieces(kty, crv, has \ Private, bad \ Private, alg, use, kid, of, len)]
<1> DEFINE jwk == Pieces(kty, crv, has, bad, alg, use, kid, of, len)
           one == Pieces(kty, crv, has \ Private, bad, alg, use, kid, of, len)
           two == Pieces(kty, crv, has \ Private, bad \ Private, alg, use, kid, of, len)
           mid == [form |-> "jwk", alg |-> name, jwk |-> one]
<1>1. [jwk EXCEPT !.has = has \ Private] = one
  BY DEF Pieces
<1>2. [one EXCEPT !.bad = bad \ Private] = two
  BY DEF Pieces
<1>3. jwk.has = has /\ one.bad = bad
  BY DEF Pieces
<1> HIDE DEF jwk, one, two
<1>4. [key EXCEPT !.jwk.has = @ \ Private] = mid
  BY <1>1, <1>3 DEF jwk
<1>5. [mid EXCEPT !.jwk.bad = @ \ Private] = [form |-> "jwk", alg |-> name, jwk |-> two]
  BY <1>2, <1>3
<1>6. PublicKey(key) = [[key EXCEPT !.jwk.has = @ \ Private] EXCEPT !.jwk.bad = @ \ Private]
  BY DEF PublicKey
<1> QED
  BY <1>4, <1>5, <1>6 DEF two

LEMMA PublicOf ==
  ASSUME NEW key, IsHeld(key)
  PROVE  /\ PublicKey(key).form = "jwk" /\ PublicKey(key).alg = key.alg
         /\ PublicKey(key).jwk =
              Pieces(key.jwk.kty, key.jwk.crv, key.jwk.has \ Private, key.jwk.bad \ Private,
                     key.jwk.alg, key.jwk.use, key.jwk.kid, key.jwk.of, key.jwk.len)
<1>1. PICK kty, crv, has, bad, alg, use, kid, of, len, name :
        /\ key.jwk.kty = kty /\ key.jwk.crv = crv /\ key.jwk.has = has /\ key.jwk.bad = bad
        /\ key.jwk.alg = alg /\ key.jwk.use = use /\ key.jwk.kid = kid /\ key.jwk.of = of
        /\ key.jwk.len = len /\ key.alg = name
  OBVIOUS
<1>2. key = [form |-> "jwk", alg |-> name,
             jwk |-> Pieces(kty, crv, has, bad, alg, use, kid, of, len)]
  BY <1>1, Fields
<1>3. PublicKey(key) =
        [form |-> "jwk", alg |-> name,
         jwk |-> Pieces(kty, crv, has \ Private, bad \ Private, alg, use, kid, of, len)]
  BY <1>2, Stripped
<1> QED
  BY <1>1, <1>3

(* What is published of the own key.                                       *)
LEMMA EntryOf ==
  ASSUME Holds, OwnInv
  PROVE  /\ Entry \in Entries
         /\ Entry = Pieces(own.key.jwk.kty, own.key.jwk.crv, own.key.jwk.has \ Private,
                           own.key.jwk.bad \ Private, own.key.jwk.alg, own.key.jwk.use,
                           own.kid, own.key.jwk.of, own.key.jwk.len)
<1>1. own.kid \in Kids /\ own.key \in OwnKeys /\ IsHeld(own.key)
  BY DEF Holds, OwnInv
<1>2. Entry = [PublicKey(own.key).jwk EXCEPT !.kid = own.kid]
  BY <1>1, PublicOf DEF Entry, Exported
<1>3. Entry \in Entries
  BY <1>1, <1>2 DEF Entries
<1>4. PICK kty, crv, has, bad, alg, use, kid, of, len :
        /\ own.key.jwk.kty = kty /\ own.key.jwk.crv = crv
        /\ own.key.jwk.has \ Private = has /\ own.key.jwk.bad \ Private = bad
        /\ own.key.jwk.alg = alg /\ own.key.jwk.use = use /\ own.key.jwk.kid = kid
        /\ own.key.jwk.of = of /\ own.key.jwk.len = len
  OBVIOUS
<1>5. PublicKey(own.key).jwk = Pieces(kty, crv, has, bad, alg, use, kid, of, len)
  BY <1>1, <1>4, PublicOf
<1>6. [Pieces(kty, crv, has, bad, alg, use, kid, of, len) EXCEPT !.kid = own.kid] =
        Pieces(kty, crv, has, bad, alg, use, own.kid, of, len)
  BY DEF Pieces
<1>7. Entry = Pieces(kty, crv, has, bad, alg, use, own.kid, of, len)
  BY <1>2, <1>5, <1>6
<1> QED
  BY <1>3, <1>4, <1>7

LEMMA Bound == MaxKeys \in Nat
BY KeySetAssumption

LEMMA AppendStays ==
  ASSUME NEW jwks \in Seq(Entries), NEW jwk \in Entries, Len(jwks) < MaxKeys
  PROVE  Append(jwks, jwk) \in Seq(Entries) /\ Len(Append(jwks, jwk)) <= MaxKeys
<1>1. Append(jwks, jwk) \in Seq(Entries) /\ Len(Append(jwks, jwk)) = Len(jwks) + 1
  BY AppendProperties
<1>2. Len(jwks) \in Nat
  OBVIOUS
<1> QED
  BY <1>1, <1>2, Bound

LEMMA RemoveStays ==
  ASSUME NEW jwks \in Seq(Entries), NEW i \in DOMAIN jwks
  PROVE  RemoveAt(jwks, i) \in Seq(Entries) /\ Len(RemoveAt(jwks, i)) = Len(jwks) - 1
<1>1. Len(jwks) \in Nat /\ i \in 1..Len(jwks) /\ \A j \in 1..Len(jwks) : jwks[j] \in Entries
  OBVIOUS
<1>2. PICK front : front = SubSeq(jwks, 1, i - 1)
  OBVIOUS
<1>3. PICK back : back = SubSeq(jwks, i + 1, Len(jwks))
  OBVIOUS
<1>4. front \in Seq(Entries) /\ Len(front) = i - 1
  <2>1. \A j \in 1..(i - 1) : jwks[j] \in Entries
    BY <1>1
  <2>2. front \in Seq(Entries) /\ Len(front) = IF 1 <= i - 1 THEN i - 1 - 1 + 1 ELSE 0
    BY <1>1, <1>2, <2>1, SubSeqProperties
  <2> QED
    BY <1>1, <2>2
<1>5. back \in Seq(Entries) /\ Len(back) = Len(jwks) - i
  <2>1. \A j \in (i + 1)..Len(jwks) : jwks[j] \in Entries
    BY <1>1
  <2>2. /\ back \in Seq(Entries)
        /\ Len(back) = IF i + 1 <= Len(jwks) THEN Len(jwks) - (i + 1) + 1 ELSE 0
    BY <1>1, <1>3, <2>1, SubSeqProperties
  <2> QED
    BY <1>1, <2>2
<1>6. RemoveAt(jwks, i) = front \o back
  BY <1>2, <1>3 DEF RemoveAt
<1>7. front \o back \in Seq(Entries) /\ Len(front \o back) = Len(front) + Len(back)
  BY <1>4, <1>5, ConcatProperties
<1> QED
  BY <1>1, <1>4, <1>5, <1>6, <1>7

LEMMA InitInv == Init => IInv
<1> SUFFICES ASSUME Init PROVE SetInv /\ OwnInv
  BY DEF IInv
<1>1. KeySet(<<>>) = <<>>
  <2>1. Len(<<>>) = 0
    OBVIOUS
  <2> QED
    BY <2>1, Unfold
<1>2. <<>> \in Seq(Entries) /\ Len(<<>>) <= MaxKeys
  BY Bound
<1> QED
  BY <1>1, <1>2 DEF Init, SetInv, OwnInv

(* Every action keeps the invariant.                                       *)
LEMMA StepInv == IInv /\ [Next]_vars => IInv'
<1> SUFFICES ASSUME IInv, [Next]_vars PROVE IInv'
  OBVIOUS
<1>1. OwnInv /\ SetInv
  BY DEF IInv
<1>2. ASSUME UNCHANGED own PROVE OwnInv'
  BY <1>1, <1>2 DEF OwnInv
<1>3. ASSUME UNCHANGED <<document, fetched, cached>> PROVE SetInv'
  BY <1>1, <1>3 DEF SetInv
<1>4. CASE LoadKey
  <2>1. PICK name \in Handlers, key \in Keys, kid \in Kids :
          /\ Prepares(Handler[name], key) = Ok
          /\ own' = [handler |-> name, key |-> PreparedKey(Handler[name], key), kid |-> kid]
    BY <1>4 DEF LoadKey
  <2>2. OwnInv'
    BY <2>1, LoadKeyInv DEF OwnInv
  <2> QED
    BY <1>3, <1>4, <2>2 DEF LoadKey, IInv
<1>5. CASE Import
  <2>1. PICK name \in Handlers, jwk \in Jwks, kid \in Kids :
          /\ Imports(Handler[name], jwk) = Ok
          /\ own' = [handler |-> name, key |-> PyJwk(jwk, ""), kid |-> kid]
    BY <1>5 DEF Import
  <2>2. OwnInv'
    BY <2>1, ImportInv DEF OwnInv
  <2> QED
    BY <1>3, <1>5, <2>2 DEF Import, IInv
<1>6. CASE Publish
  <2>1. Entry \in Entries
    BY <1>1, <1>6, EntryOf DEF Publish
  <2>2. document' \in Seq(Entries) /\ Len(document') <= MaxKeys
    BY <1>1, <1>6, <2>1, AppendStays DEF Publish, SetInv
  <2> QED
    BY <1>1, <1>2, <1>6, <2>2 DEF Publish, IInv, SetInv
<1>7. CASE PublishOther
  <2>1. PICK jwk \in Published : document' = Append(document, jwk)
    BY <1>7 DEF PublishOther
  <2>2. jwk \in Entries
    BY DEF Entries
  <2>3. document' \in Seq(Entries) /\ Len(document') <= MaxKeys
    BY <1>1, <1>7, <2>1, <2>2, AppendStays DEF PublishOther, SetInv
  <2> QED
    BY <1>1, <1>2, <1>7, <2>3 DEF PublishOther, IInv, SetInv
<1>8. CASE Withdraw
  <2>1. PICK i \in DOMAIN document : document' = RemoveAt(document, i)
    BY <1>8 DEF Withdraw
  <2>2. document \in Seq(Entries) /\ Len(document) <= MaxKeys /\ Len(document) \in Nat
    BY <1>1 DEF SetInv
  <2>3. document' \in Seq(Entries) /\ Len(document') = Len(document) - 1
    BY <2>1, <2>2, RemoveStays
  <2>4. Len(document') <= MaxKeys
    BY <2>2, <2>3, Bound
  <2> QED
    BY <1>1, <1>2, <1>8, <2>3, <2>4 DEF Withdraw, IInv, SetInv
<1>9. CASE Fetch
  BY <1>1, <1>2, <1>9 DEF Fetch, IInv, SetInv, KeySetLoads, Require, Ok
<1>10. CASE UNCHANGED vars
  BY <1>2, <1>3, <1>10 DEF vars, IInv
<1> QED
  BY <1>4, <1>5, <1>6, <1>7, <1>8, <1>9, <1>10 DEF Next

THEOREM Invariant == Spec => []IInv
BY InitInv, StepInv, PTL DEF Spec

(***************************************************************************)
(* The set.                                                                *)
(***************************************************************************)
LEMMA EcAlgOf ==
  ASSUME NEW crv \in EcCurves
  PROVE  EcAlg[crv] \in Ecdsa /\ Curve[EcAlg[crv]] = crv
<1>1. \E alg \in Ecdsa : Curve[alg] = crv
  BY DEF EcCurves, NistCurves, Ecdsa, Curve
<1>2. EcAlg[crv] = CHOOSE alg \in Ecdsa : Curve[alg] = crv
  BY DEF EcAlg
<1> QED
  BY <1>1, <1>2

(* Normalisation gives a name of an algorithm to all but RSA and P-192.    *)
LEMMA NamedAlg ==
  ASSUME NEW jwk, Normalizes(jwk, "") = Ok
  PROVE  PyJwk(jwk, "").alg # "" \/ jwk.kty = "RSA" \/ jwk.crv = "P-192"
<1> SUFFICES ASSUME jwk.alg = "", jwk.kty # "RSA", jwk.crv # "P-192"
             PROVE  Deduced(jwk) # ""
  BY PyJwkOf
<1>1. Deducible(jwk) = Ok
  BY DEF Normalizes, ??, Ok
<1>2. \A a \in Ecdsa : a # ""
  BY DEF Ecdsa
<1> QED
  BY <1>1, <1>2, EcAlgOf DEF Deducible, Deduced, Require, Ok

(* A key of the set is the PyJWK of a usable JWK of the document.          *)
LEMMA CachedOf ==
  ASSUME SetInv, NEW i \in DOMAIN cached
  PROVE  \E j \in DOMAIN fetched :
           Usable(fetched[j]) /\ cached[i] = PyJwk(fetched[j], "") /\ cached[i].jwk = fetched[j]
<1>1. Gathered(fetched, Entries, cached, Len(fetched)) /\ fetched \in Seq(Entries)
  BY KeySetOf DEF SetInv
<1>2. cached \in Seq(PyJwks(Entries))
  BY <1>1 DEF Gathered
<1>3. i \in 1..Len(cached)
  BY <1>2
<1>4. PICK j \in 1..Len(fetched) : Usable(fetched[j]) /\ cached[i] = PyJwk(fetched[j], "")
  BY <1>1, <1>3 DEF Gathered
<1>5. DOMAIN fetched = 1..Len(fetched)
  BY <1>1
<1>6. PyJwk(fetched[j], "").jwk = fetched[j]
  BY PyJwkOf
<1> QED
  BY <1>4, <1>5, <1>6

(* A set is what a load of its document gives: never empty, and without    *)
(* encryption keys; and a key has an algorithm.                            *)
THEOREM TypeAlways == Spec => []TypeOK
<1>1. ASSUME IInv
      PROVE  TypeOK
  <2>1. OwnInv /\ SetInv
    BY <1>1 DEF IInv
  <2>2. ASSUME NEW i \in DOMAIN cached
        PROVE  /\ cached[i] \in {PyJwk(fetched[j], "") : j \in DOMAIN fetched}
               /\ cached[i].jwk.kty # "" /\ cached[i].jwk.use # "enc"
    <3>1. PICK j \in DOMAIN fetched :
            /\ Usable(fetched[j]) /\ cached[i] = PyJwk(fetched[j], "")
            /\ cached[i].jwk = fetched[j]
      BY <2>1, CachedOf
    <3>2. fetched[j].use # "enc" /\ fetched[j].kty # ""
      BY <3>1 DEF Usable, Normalizes, Require, Ok, ??
    <3> QED
      BY <3>1, <3>2
  <2>3. Holds => own.key.alg # "" \/ own.key.jwk.kty = "RSA" \/ own.key.jwk.crv = "P-192"
    <3> SUFFICES ASSUME Holds
                 PROVE  own.key.alg # "" \/ own.key.jwk.kty = "RSA" \/ own.key.jwk.crv = "P-192"
      OBVIOUS
    <3>1. own.key = PyJwk(own.key.jwk, "") /\ Normalizes(own.key.jwk, "") = Ok
      BY <2>1 DEF OwnInv, Holds, IsHeld
    <3> QED
      BY <3>1, NamedAlg
  <2> QED
    BY <2>1, <2>2, <2>3 DEF TypeOK, SetInv
<1> QED
  BY <1>1, Invariant, PTL

(***************************************************************************)
(* What the verifier accepts.                                              *)
(***************************************************************************)
(* decode of a call without options: it verifies, and the signature is by  *)
(* the bytes of the key.                                                   *)
DecodeCall(token, key) ==
  [entry |-> "module", token |-> token, key |-> Held(key, TRUE),
   algorithms |-> Expect({AlgorithmName(key)}), options |-> NoOptions,
   verify |-> Null, leeway |-> 0, content |-> NoPayload,
   audience |-> Anything, issuer |-> Anything, subject |-> Anything]

Leeway0 == [name \in {"leeway"} |-> Num(0)]

LEMMA CallDict ==
  ASSUME NEW token, NEW key
  PROVE  Merged(DecodeCall(token, key), NoOptions, NoOptions) = Leeway0
<1>1. Null # Bool(FALSE)
  BY DEF Null, Bool
<1>2. DecodeCall(token, key).verify = Null /\ DecodeCall(token, key).entry = "module"
      /\ DecodeCall(token, key).leeway = 0
  BY DEF DecodeCall
<1>3. Merged(DecodeCall(token, key), NoOptions, NoOptions) = Update(NoOptions, Leeway0)
  BY <1>1, <1>2 DEF Merged, Leeway0
<1>4. Update(NoOptions, Leeway0) = Leeway0
  BY DEF Update, NoOptions, Leeway0
<1> QED
  BY <1>3, <1>4

LEMMA Leeway0Verifies == Verifying(Leeway0) /\ ~Enforcing(Leeway0)
<1>1. ~Has(Leeway0, "verify_signature") /\ ~Has(Leeway0, "enforce_minimum_key_length")
  BY DEF Has, Leeway0
<1>2. Bool(TRUE) # Bool(FALSE)
  BY DEF Bool
<1> QED
  BY <1>1, <1>2 DEF Verifying, Given, Enforcing

LEMMA VerifiedIs ==
  ASSUME NEW token, NEW set
  PROVE  LET key == ByKid(set, token.header.kid)
         IN  Verified(token, set) = Ok <=>
               /\ UnverifiedKid(token) = Ok /\ HasKid(set, token.header.kid) = Ok
               /\ Decode(DecodeCall(token, key), Leeway0, 0) = Ok
<1> DEFINE key == ByKid(set, token.header.kid)
<1>1. Verified(token, set) =
        (UnverifiedKid(token) ?? HasKid(set, token.header.kid)
           ?? Decode(DecodeCall(token, key),
                     Merged(DecodeCall(token, key), NoOptions, NoOptions), 0))
  BY DEF Verified, DecodeCall
<1>2. Merged(DecodeCall(token, key), NoOptions, NoOptions) = Leeway0
  BY CallDict
<1> HIDE DEF key
<1> QED
  BY <1>1, <1>2, Sequencing DEF key

(* The verifier accepts a token only under a signing key of its signer     *)
(* that the set it loaded last names so.                                   *)
THEOREM AcceptsOnlyPublishedAlways == Spec => []AcceptsOnlyPublished
<1>1. ASSUME IInv
      PROVE  AcceptsOnlyPublished
  <2> SUFFICES ASSUME NEW token, Verified(token, cached) = Ok
               PROVE  \E i \in DOMAIN fetched :
                        /\ fetched[i].of = token.sig.by.of
                        /\ fetched[i].kid = token.header.kid /\ fetched[i].use # "enc"
    BY DEF AcceptsOnlyPublished
  <2> DEFINE key == ByKid(cached, token.header.kid)
             call == DecodeCall(token, key)
  <2>1. HasKid(cached, token.header.kid) = Ok /\ Decode(call, Leeway0, 0) = Ok
    BY VerifiedIs
  <2>2. cached \in Seq(PyJwks(Entries)) /\ SetInv
    BY <1>1, KeySetOf DEF IInv, SetInv, Gathered
  <2>3. PICK i \in DOMAIN cached : key = cached[i] /\ cached[i].jwk.kid = token.header.kid
    BY <2>1, <2>2, ByKidOf
  <2>4. PICK j \in DOMAIN fetched : Usable(fetched[j]) /\ key.jwk = fetched[j]
    BY <2>2, <2>3, CachedOf
  <2>5. token.sig.by.of = key.jwk.of
    <3> HIDE DEF key
    <3>1. call.key = Held(key, TRUE) /\ call.token = token /\ call.content = NoPayload
      BY DEF DecodeCall
    <3> HIDE DEF call
    <3>2. Attach(call.token, call.content) = token
      BY <3>1 DEF Attach
    <3>3. Examine(call, Leeway0) = Ok
      BY <2>1, Sequencing DEF Decode
    <3>4. VerifySignature(token, call.key, Allowed(call)) = Ok
      BY <3>2, <3>3, Leeway0Verifies, Sequencing DEF Examine
    <3>5. Verifies(token.header.alg, Bytes(call.key, "verify"), token.header, token.payload,
                   token.sig) = Ok
      BY <3>4, Sequencing DEF VerifySignature
    <3>6. token.sig.by = Bytes(call.key, "verify")
      BY <3>5 DEF Verifies, Require, Ok, ??
    <3>7. Held(key, TRUE).of = key.jwk.of
      BY DEF Held, KeyBytes
    <3>8. Bytes(call.key, "verify").of = call.key.of
      BY DEF Bytes
    <3> QED
      BY <3>1, <3>6, <3>7, <3>8
  <2>6. fetched[j].use # "enc"
    BY <2>4 DEF Usable
  <2> QED
    BY <2>3, <2>4, <2>5, <2>6
<1> QED
  BY <1>1, Invariant, PTL

(***************************************************************************)
(* Signing and verifying through the handlers.                             *)
(***************************************************************************)
LEMMA Disjoint ==
  /\ \A a \in Hmac : a \notin Rsa \cup Ecdsa \cup EdDsa /\ Scheme(a) = a
  /\ \A a \in Rsa : a \notin Ecdsa \cup EdDsa /\ Scheme(a) = a
  /\ \A a \in Ecdsa : a \notin EdDsa /\ Scheme(a) = a
  /\ \A a \in EdDsa : Scheme(a) = "EdDSA"
  /\ "EdDSA" \in EdDsa
BY DEF Hmac, Rsa, Ecdsa, EdDsa, Scheme

LEMMA RawSigning ==
  ASSUME NEW key, NEW alg, SignsRaw(key, alg) = Ok
  PROVE  LET signed == OfCurve(key, alg)
             bytes  == KeyBytes(key.jwk, FALSE)
         IN  /\ JwkAlgorithm(key, alg) = Ok /\ Extracts(key.jwk, FALSE) = Ok
             /\ signed \in Crypto
             /\ signed \in Rsa \cup Ecdsa => bytes.kty = KindFor(signed) /\ bytes.half = "private"
<1> DEFINE signed == OfCurve(key, alg)
           bytes  == KeyBytes(key.jwk, FALSE)
<1>1. JwkLoads(key, alg, FALSE) = Ok /\ Signs(signed, bytes, key.jwk.len = 32) = Ok
  BY Sequencing DEF SignsRaw
<1>2. JwkAlgorithm(key, alg) = Ok /\ Extracts(key.jwk, FALSE) = Ok
  BY <1>1, Sequencing DEF JwkLoads
<1> HIDE DEF signed, bytes
<1>3. signed \in Crypto /\ Fits(signed, bytes, key.jwk.len = 32)
  BY <1>1 DEF Signs, Require, Ok, ??
<1>4. signed \in Rsa \cup Ecdsa => bytes.kty = KindFor(signed) /\ bytes.half = "private"
  BY <1>3, Disjoint DEF Fits
<1> QED
  BY <1>2, <1>3, <1>4 DEF signed, bytes

LEMMA RawVerifying ==
  ASSUME NEW key, NEW alg, NEW message, NEW sig
  PROVE  LET verified == OfCurve(key, alg)
             bytes    == KeyBytes(key.jwk, TRUE)
         IN  VerifiesRaw(key, alg, message, sig) = Ok <=>
               /\ JwkAlgorithm(key, alg) = Ok /\ Extracts(key.jwk, TRUE) = Ok
               /\ verified \in Crypto
               /\ verified \in EdDsa => bytes.kty = "OKP" /\ bytes.half = "public"
               /\ sig = [kind |-> "sig", scheme |-> Scheme(verified), header |-> "",
                         payload |-> message, by |-> bytes]
<1> DEFINE verified == OfCurve(key, alg)
           bytes    == KeyBytes(key.jwk, TRUE)
<1>1. VerifiesRaw(key, alg, message, sig) = Ok <=>
        JwkLoads(key, alg, TRUE) = Ok /\ Verifies(verified, bytes, "", message, sig) = Ok
  BY Sequencing DEF VerifiesRaw
<1>2. JwkLoads(key, alg, TRUE) = Ok <=>
        JwkAlgorithm(key, alg) = Ok /\ Extracts(key.jwk, TRUE) = Ok
  BY Sequencing DEF JwkLoads
<1> HIDE DEF verified, bytes
<1>3. Verifies(verified, bytes, "", message, sig) = Ok <=>
        /\ verified \in Crypto
        /\ verified \in EdDsa => bytes.kty = "OKP" /\ bytes.half = "public"
        /\ sig = [kind |-> "sig", scheme |-> Scheme(verified), header |-> "",
                  payload |-> message, by |-> bytes]
  BY DEF Verifies, Require, Ok, ??
<1> QED
  BY <1>1, <1>2, <1>3 DEF verified, bytes

(* A handler uses a PyJWK with an algorithm of its own family.             *)
LEMMA OfFamily ==
  ASSUME NEW name \in DOMAIN Handler, NEW key, key.form = "jwk"
  PROVE  LET handler == Handler[name]
             used    == OfCurve(key, HandlerAlg(handler, key))
         IN  /\ handler.family \in {"oct", "RSA", "EC", "OKP"}
             /\ handler.family = "oct" => used \in Hmac
             /\ handler.family = "RSA" => used \in Rsa
             /\ handler.family = "EC"  => used \in Ecdsa
             /\ handler.family = "OKP" => used = "EdDSA"
<1> DEFINE handler == Handler[name]
           alg     == HandlerAlg(handler, key)
<1>1. /\ handler.family \in {"oct", "RSA", "EC", "OKP"}
      /\ handler.family = "oct" => handler.alg \in Hmac
      /\ handler.family = "RSA" => handler.alg \in Rsa
      /\ handler.family = "EC"  => handler.alg \in Ecdsa
      /\ handler.family = "OKP" => handler.alg = "EdDSA"
  BY HandlerFacts
<1> HIDE DEF handler
<1>2. handler.family # "EC" => alg = handler.alg
  BY DEF HandlerAlg
<1>3. handler.family = "EC" => alg \in Ecdsa
  BY <1>1 DEF HandlerAlg
<1> HIDE DEF alg
<1>4. alg # "ES256" => OfCurve(key, alg) = alg
  BY DEF OfCurve
<1>5. alg = "ES256" => OfCurve(key, alg) \in {"ES256", "ES256K"}
  BY DEF OfCurve
<1> QED
  BY <1>1, <1>2, <1>3, <1>4, <1>5 DEF Hmac, Rsa, Ecdsa, handler, alg

(* public_key leaves nothing to sign with: no handler makes, with a        *)
(* published key, a signature that the own key verifies.                   *)
THEOREM NothingToSignWithAlways == Spec => []NothingToSignWith
<1>1. ASSUME IInv
      PROVE  NothingToSignWith
  <2> DEFINE theirs == PyJwk(Entry, "")
             mine   == Handler[own.handler]
  <2> SUFFICES ASSUME OfItsKind, NEW name \in Handlers,
                      HandlerSigns(Handler[name], theirs) = Ok,
                      HandlerVerifies(mine, own.key, Payload,
                        HandlerSignature(Handler[name], theirs, Payload)) = Ok
               PROVE  FALSE
    BY DEF NothingToSignWith, OfItsKind
  <2>1. /\ own.key.form = "jwk" /\ own.key.jwk.kty = mine.family /\ Holds
        /\ own.handler \in DOMAIN Handler /\ name \in DOMAIN Handler
    BY <1>1, KeySetAssumption DEF OfItsKind, Holds, IInv, OwnInv
  <2>2. /\ theirs.form = "jwk" /\ theirs.jwk = Entry
        /\ Entry.kty = own.key.jwk.kty /\ Entry.has = own.key.jwk.has \ Private
    <3>1. Entry = Pieces(own.key.jwk.kty, own.key.jwk.crv, own.key.jwk.has \ Private,
                         own.key.jwk.bad \ Private, own.key.jwk.alg, own.key.jwk.use,
                         own.kid, own.key.jwk.of, own.key.jwk.len)
      BY <1>1, <2>1, EntryOf DEF IInv
    <3>2. Entry.kty = own.key.jwk.kty /\ Entry.has = own.key.jwk.has \ Private
      BY <3>1 DEF Pieces
    <3> QED
      BY <3>2, PyJwkOf
  <2> DEFINE given  == HandlerAlg(Handler[name], theirs)
             signed == OfCurve(theirs, given)
             used   == HandlerAlg(mine, own.key)
             wanted == OfCurve(own.key, used)
             sig    == RawSignature(theirs, given, Payload)
             bytes  == KeyBytes(Entry, FALSE)
             other  == KeyBytes(own.key.jwk, TRUE)
  <2>3. SignsRaw(theirs, given) = Ok /\ VerifiesRaw(own.key, used, Payload, sig) = Ok
    BY <2>1, <2>2 DEF HandlerSigns, HandlerVerifies, HandlerSignature, VerifyAlg
  <2>4. /\ Extracts(Entry, FALSE) = Ok /\ signed \in Crypto
        /\ signed \in Rsa \cup Ecdsa => bytes.half = "private"
    BY <2>2, <2>3, RawSigning
  <2>5. sig = [kind |-> "sig", scheme |-> Scheme(wanted), header |-> "",
               payload |-> Payload, by |-> other]
    BY <2>3, RawVerifying
  <2>6. sig = Signature(signed, bytes, "", Payload)
    BY <2>2 DEF RawSignature
  <2>7. /\ mine.family \in {"oct", "RSA", "EC", "OKP"}
        /\ mine.family = "RSA" => wanted \in Rsa
        /\ mine.family = "EC"  => wanted \in Ecdsa
        /\ mine.family = "OKP" => wanted = "EdDSA"
    BY <2>1, OfFamily
  <2> HIDE DEF theirs, given, signed, used, wanted, sig, mine
  <2>8. Entry.kty # "oct"
    BY <2>2, <2>4 DEF Extracts, Readable, Private, Require, Ok
  <2>9. bytes.half = "public"
    BY <2>2, <2>8 DEF KeyBytes, TakesPrivate, Private
  <2>10. other.half \in {"secret", "public"}
    BY DEF KeyBytes, TakesPrivate
  <2> HIDE DEF bytes, other
  <2>11. signed \in Hmac \cup EdDsa
    BY <2>4, <2>9 DEF Crypto
  <2>12. CASE signed \in Hmac
    <3>1. Scheme(signed) = Scheme(wanted)
      <4>1. sig.scheme = Scheme(signed)
        BY <2>6 DEF Signature
      <4>2. sig.scheme = Scheme(wanted)
        BY <2>5
      <4> QED
        BY <4>1, <4>2
    <3>2. wanted \in Rsa \cup Ecdsa \cup EdDsa
      BY <2>1, <2>2, <2>7, <2>8, Disjoint
    <3>3. Scheme(signed) \in Hmac /\ Scheme(wanted) \notin Hmac
      BY <2>12, <3>2, Disjoint
    <3> QED
      BY <3>1, <3>3
  <2>13. CASE signed \in EdDsa
    <3>1. signed \notin Hmac
      BY <2>13, Disjoint
    <3>2. sig.by = [bytes EXCEPT !.half = IF @ = "private" THEN "public" ELSE "reseeded"]
      BY <2>6, <3>1 DEF Signature
    <3>3. \E kty, of : bytes = [kty |-> kty, of |-> of, half |-> "public"]
      BY <2>9 DEF bytes, KeyBytes
    <3>4. sig.by.half = "reseeded"
      BY <3>2, <3>3
    <3> QED
      BY <2>5, <2>10, <3>4
  <2> QED
    BY <2>11, <2>12, <2>13
<1> QED
  BY <1>1, Invariant, PTL

(***************************************************************************)
(* A signer and its token.                                                 *)
(***************************************************************************)
(* The own key signs by the algorithm of its kind.                         *)
LEMMA SignerKind ==
  ASSUME OwnInv, IsSigner, DeclaresItsKind
  PROVE  LET jwk == own.key.jwk
             alg == AlgorithmName(own.key)
         IN  /\ Holds /\ IsHeld(own.key) /\ own.key.form = "jwk" /\ "d" \in jwk.has
             /\ \/ alg \in Rsa /\ jwk.kty = "RSA"
                \/ /\ alg \in Ecdsa /\ jwk.kty = "EC" /\ jwk.crv = Curve[alg]
                   /\ jwk.crv \in EcCurves /\ {"x", "y"} \subseteq jwk.has
                \/ /\ alg \in EdDsa /\ jwk.kty = "OKP" /\ jwk.crv = "Ed25519"
                   /\ Readable(jwk, {"x"})
<1> DEFINE jwk == own.key.jwk
           alg == AlgorithmName(own.key)
<1>1. Holds /\ jwk.kty = Handler[own.handler].family
  BY DEF IsSigner, OfItsKind
<1>2. /\ IsHeld(own.key) /\ own.key.form = "jwk" /\ Suited(jwk)
      /\ own.handler \in DOMAIN Handler
  BY <1>1, KeySetAssumption DEF OwnInv, Holds
<1>3. jwk.kty \in {"oct", "RSA", "EC", "OKP"}
  BY <1>1, <1>2, HandlerFacts
<1>4. jwk.crv \notin {"RSA", "OKP", "oct"}
  BY <1>2 DEF IsHeld, IsJwk
<1>5. \A a \in Ecdsa : Curve[a] \in EcCurves /\ Curve[a] \notin {"RSA", "OKP", "oct"}
  BY DEF Ecdsa, Curve, EcCurves, NistCurves
<1>6. KeyBytes(jwk, FALSE).half # "public"
  BY DEF IsSigner
<1> HIDE DEF jwk, alg
<1>7. jwk.kty \in {"RSA", "oct"} => KeyKind(jwk) = jwk.kty
  BY DEF KeyKind
<1>8. jwk.kty = "EC" => KeyKind(jwk) = jwk.crv
  BY DEF KeyKind
<1>9. jwk.kty = "OKP" => KeyKind(jwk) = "OKP" /\ jwk.crv = "Ed25519" /\ Readable(jwk, {"x"})
  BY <1>2 DEF KeyKind, Suited
<1>10. jwk.kty = "EC" => {"x", "y"} \subseteq jwk.has
  BY <1>2 DEF Suited
<1>11. \/ alg \in Rsa /\ KeyKind(jwk) = "RSA"
       \/ alg \in Ecdsa /\ KeyKind(jwk) = Curve[alg]
       \/ alg \in EdDsa /\ KeyKind(jwk) = "OKP"
  <2>1. AlgorithmName(own.key) \in Crypto \ Hmac
        /\ KeyKind(own.key.jwk) = KindFor(AlgorithmName(own.key))
    BY <1>1 DEF DeclaresItsKind, OwnAlg
  <2> QED
    BY <2>1, Disjoint DEF Crypto, KindFor, jwk, alg
<1>12. jwk.kty # "oct"
  BY <1>5, <1>7, <1>11
<1>13. "d" \in jwk.has
  BY <1>6, <1>12 DEF KeyBytes, TakesPrivate
<1>14. \/ alg \in Rsa /\ jwk.kty = "RSA"
       \/ alg \in Ecdsa /\ jwk.kty = "EC" /\ jwk.crv = Curve[alg] /\ jwk.crv \in EcCurves
       \/ alg \in EdDsa /\ jwk.kty = "OKP"
  BY <1>3, <1>4, <1>5, <1>7, <1>8, <1>9, <1>11
<1> QED
  BY <1>1, <1>2, <1>9, <1>10, <1>13, <1>14 DEF jwk, alg

(* What is published of a signer is a usable JWK that verifies.            *)
LEMMA EntryVerifies ==
  ASSUME OwnInv, IsSigner, DeclaresItsKind,
         own.key.jwk.use # "enc", Extracts(own.key.jwk, FALSE) = Ok
  PROVE  /\ Usable(Entry) /\ Entry.kid = own.kid /\ Extracts(Entry, TRUE) = Ok
         /\ AlgorithmName(PyJwk(Entry, "")) = AlgorithmName(own.key)
         /\ PyJwk(Entry, "").alg = own.key.alg
         /\ KeyBytes(Entry, TRUE) = [kty |-> KeyKind(own.key.jwk), of |-> own.key.jwk.of,
                                     half |-> "public"]
<1> DEFINE jwk == own.key.jwk
           alg == AlgorithmName(own.key)
<1>1. /\ Holds /\ IsHeld(own.key) /\ "d" \in jwk.has
      /\ \/ alg \in Rsa /\ jwk.kty = "RSA"
         \/ /\ alg \in Ecdsa /\ jwk.kty = "EC" /\ jwk.crv = Curve[alg]
            /\ jwk.crv \in EcCurves /\ {"x", "y"} \subseteq jwk.has
         \/ /\ alg \in EdDsa /\ jwk.kty = "OKP" /\ jwk.crv = "Ed25519"
            /\ Readable(jwk, {"x"})
  BY SignerKind
<1>2. Entry = Pieces(jwk.kty, jwk.crv, jwk.has \ Private, jwk.bad \ Private, jwk.alg, jwk.use,
                     own.kid, jwk.of, jwk.len)
  BY <1>1, EntryOf
<1>3. /\ Entry.kty = jwk.kty /\ Entry.crv = jwk.crv /\ Entry.has = jwk.has \ Private
      /\ Entry.bad = jwk.bad \ Private /\ Entry.alg = jwk.alg /\ Entry.use = jwk.use
      /\ Entry.kid = own.kid /\ Entry.of = jwk.of
  BY <1>2 DEF Pieces
<1>4. Normalizes(jwk, "") = Ok /\ own.key = PyJwk(jwk, "")
  BY <1>1 DEF IsHeld
<1>5. PICK entry : entry = Entry
  OBVIOUS
<1>6. jwk.use # "enc" /\ Extracts(jwk, FALSE) = Ok
  OBVIOUS
<1> HIDE DEF jwk, alg
<1>7. Usable(entry)
  <2>1. jwk.kty # "" /\ CoordinatesFit(jwk) = Ok /\ (jwk.alg # "" \/ Deducible(jwk) = Ok)
    BY <1>4 DEF Normalizes, Require, ??, Ok
  <2>2. CoordinatesFit(entry) = Ok
    BY <1>3, <1>5, <2>1 DEF CoordinatesFit, Require, Ok
  <2>3. jwk.alg # "" \/ Deducible(entry) = Ok
    BY <1>3, <1>5, <2>1 DEF Deducible, Require, Ok
  <2> QED
    BY <1>3, <1>5, <1>6, <2>1, <2>2, <2>3 DEF Usable, Normalizes, Require, ??, Ok
<1>8. Extracts(entry, TRUE) = Ok
  <2>1. {"n", "e", "x", "y"} \cap Private = {}
    BY DEF Private, Crt
  <2>2. ASSUME NEW S, S \subseteq {"n", "e", "x", "y"}, Readable(jwk, S)
        PROVE  Readable(entry, S)
    BY <1>3, <1>5, <2>1, <2>2 DEF Readable
  <2>3. CASE jwk.kty = "RSA"
    <3>1. Readable(jwk, RsaMembers(jwk, TakesPrivate(jwk, FALSE)))
      BY <1>6, <2>3 DEF Extracts, Require, Ok
    <3>2. Readable(jwk, {"n", "e"})
      BY <3>1 DEF Readable, RsaMembers
    <3>3. Readable(entry, {"n", "e"})
      BY <2>2, <3>2
    <3>4. RsaMembers(entry, TakesPrivate(entry, TRUE)) = {"n", "e"}
      BY DEF RsaMembers, TakesPrivate
    <3> QED
      BY <1>3, <1>5, <2>3, <3>3, <3>4 DEF Extracts, Require, Ok
  <2>4. CASE jwk.kty = "EC" /\ jwk.crv \in EcCurves /\ {"x", "y"} \subseteq jwk.has
    <3>1. CoordinatesFit(jwk) = Ok
      BY <1>4 DEF Normalizes, Require, ??, Ok
    <3>2. Readable(jwk, {"x", "y"})
      BY <2>4, <3>1 DEF CoordinatesFit, Readable, Require, Ok
    <3>3. Readable(entry, {"x", "y"})
      BY <2>2, <3>2
    <3> QED
      BY <1>3, <1>5, <2>4, <3>3 DEF Extracts, TakesPrivate, Require, Ok
  <2>5. CASE jwk.kty = "OKP" /\ Readable(jwk, {"x"})
    <3>1. Readable(entry, {"x"})
      BY <2>2, <2>5
    <3> QED
      BY <1>3, <1>5, <2>5, <3>1 DEF Extracts, TakesPrivate, Require, Ok
  <2> QED
    BY <1>1, <2>3, <2>4, <2>5
<1>9. PyJwk(entry, "").alg = own.key.alg
  <2>1. own.key.alg = IF jwk.alg # "" THEN jwk.alg ELSE Deduced(jwk)
    BY <1>4, PyJwkOf
  <2>2. PyJwk(entry, "").alg = IF entry.alg # "" THEN entry.alg ELSE Deduced(entry)
    BY PyJwkOf
  <2>3. Deduced(entry) = Deduced(jwk)
    BY <1>3, <1>5 DEF Deduced
  <2> QED
    BY <1>3, <1>5, <2>1, <2>2, <2>3
<1>10. AlgorithmName(PyJwk(entry, "")) = AlgorithmName(own.key)
  <2>1. PyJwk(entry, "").jwk = entry /\ own.key.jwk = jwk
    BY PyJwkOf DEF jwk
  <2> QED
    BY <1>3, <1>5, <1>9, <2>1 DEF AlgorithmName
<1>11. KeyBytes(entry, TRUE) = [kty |-> KeyKind(jwk), of |-> jwk.of, half |-> "public"]
  <2>1. jwk.kty # "oct"
    BY <1>1
  <2>2. KeyKind(entry) = KeyKind(jwk)
    BY <1>3, <1>5 DEF KeyKind
  <2> QED
    BY <1>3, <1>5, <2>1, <2>2 DEF KeyBytes, TakesPrivate
<1> QED
  BY <1>3, <1>5, <1>7, <1>8, <1>9, <1>10, <1>11 DEF jwk, alg

(* A token with a kid, for a key pair.                                     *)
SignedToken(alg, kid, kty, of) ==
  LET header == [kind |-> "object", plain |-> TRUE, alg |-> alg, b64 |-> "absent",
                 kid |-> kid]
      by     == [kty |-> kty, of |-> of, half |-> "public"]
  IN  [parts |-> 3, header |-> header, payload |-> Payload,
       sig |-> [kind |-> "sig", scheme |-> Scheme(alg), header |-> header,
                payload |-> Payload, by |-> by]]

(* What the issuer signs, and with what.                                   *)
LEMMA IssuedIs ==
  ASSUME NEW key, NEW alg, NEW kid, key.form = "jwk", "d" \in key.jwk.has,
         key.jwk.kty # "oct", alg \in Crypto \ Hmac, KeyKind(key.jwk) = KindFor(alg),
         Issues(key, alg) = Ok
  PROVE  /\ Extracts(key.jwk, FALSE) = Ok
         /\ Issued(key, alg, kid) = SignedToken(alg, kid, KeyKind(key.jwk), key.jwk.of)
<1> DEFINE call == Request(key, alg)
           held == Held(key, FALSE)
<1>1. /\ call.entry = "module" /\ call.alg = alg /\ call.key = held /\ call.payload = Payload
      /\ call.encoder <=> FALSE
      /\ call.header = [alg |-> "", b64 |-> "absent"]
  BY DEF Request
<1>2. Payload.kind = "claims"
  BY PayloadAssumption DEF Claims
<1>3. held.form = "jwk"
  BY DEF Held
<1>4. Encode(call, Supported) = Ok
  BY DEF Issues
<1> HIDE DEF call, held
<1>5. ByJwk(call) /\ SigningAlg(call) = alg
  BY <1>1, <1>2, <1>3 DEF ByJwk, SigningAlg
<1>6. JwkBytes(held) = Ok
  <2>1. SigningKey(call) = Ok
    BY <1>4, Sequencing DEF Encode
  <2> QED
    BY <1>1, <1>5, <2>1 DEF SigningKey
<1>7. Extracts(key.jwk, FALSE) = Ok
  BY <1>6 DEF JwkBytes, Held, held, Require, Ok
<1>8. KeyBytes(key.jwk, FALSE) = [kty |-> KeyKind(key.jwk), of |-> key.jwk.of,
                                  half |-> "private"]
  BY DEF KeyBytes, TakesPrivate
<1>9. held.kty = KeyKind(key.jwk) /\ held.of = key.jwk.of /\ held.half = "private"
  <2>1. PICK bytes : bytes = KeyBytes(key.jwk, FALSE)
    OBVIOUS
  <2>2. held = [form |-> "jwk", kty |-> bytes.kty, of |-> bytes.of, half |-> bytes.half,
                alg |-> key.alg, len |-> key.jwk.len]
    BY <1>7, <2>1 DEF Held, held
  <2>3. bytes = [kty |-> KeyKind(key.jwk), of |-> key.jwk.of, half |-> "private"]
    BY <1>8, <2>1
  <2> QED
    BY <2>2, <2>3
<1>10. Bytes(held, "sign") = [kty |-> KeyKind(key.jwk), of |-> key.jwk.of, half |-> "private"]
  BY <1>9 DEF Bytes
<1>11. JwkAlg(call) = alg
  <2>1. alg = "ES256" => held.kty # "secp256k1"
    BY <1>9 DEF KindFor, Hmac, Rsa, Ecdsa, Curve
  <2> QED
    BY <1>1, <1>5, <2>1 DEF JwkAlg
<1>12. alg \in Crypto /\ ~IsNone(alg)
  BY DEF IsNone, Crypto, Hmac, Rsa, Ecdsa, EdDsa
<1> DEFINE plain  == Header(alg, "absent")
           header == [kind |-> "object", plain |-> TRUE, alg |-> alg, b64 |-> "absent",
                      kid |-> kid]
           by     == [kty |-> KeyKind(key.jwk), of |-> key.jwk.of, half |-> "public"]
           sig(h) == [kind |-> "sig", scheme |-> Scheme(alg), header |-> h,
                      payload |-> Payload, by |-> by]
<1>13. Prepared(call) = plain
  <2>1. PICK h : h = [alg |-> "", b64 |-> "absent"]
    OBVIOUS
  <2>2. call.header = h
    BY <2>1 DEF Request, call
  <2>3. h.alg = "" /\ h.b64 = "absent"
    BY <2>1
  <2> QED
    BY <1>1, <2>2, <2>3 DEF Prepared
<1>14. Signature(alg, Bytes(held, "sign"), plain, Payload) = sig(plain)
  <2> HIDE DEF plain
  <2>1. [Bytes(held, "sign") EXCEPT !.half = IF @ = "private" THEN "public" ELSE "reseeded"]
          = by
    BY <1>10
  <2> HIDE DEF by
  <2> QED
    BY <2>1 DEF Signature
<1>15. Encoded(call) = [parts |-> 3, header |-> plain, payload |-> Payload, sig |-> sig(plain)]
  <2> HIDE DEF plain, sig
  <2> QED
    BY <1>1, <1>5, <1>11, <1>12, <1>13, <1>14 DEF Encoded, Token
<1>16. plain.alg = alg /\ plain.b64 = "absent"
  BY DEF Header
<1>17. [kind |-> "object", plain |-> TRUE, alg |-> Encoded(call).header.alg,
        b64 |-> Encoded(call).header.b64, kid |-> kid] = header
  <2>1. Encoded(call).header = plain
    BY <1>15
  <2> HIDE DEF plain
  <2> QED
    BY <1>16, <2>1
<1>18. Issued(key, alg, kid) = [Encoded(call) EXCEPT !.header = header, !.sig.header = header]
  BY <1>17 DEF Issued, call
<1>19. [Encoded(call) EXCEPT !.header = header, !.sig.header = header] =
         [parts |-> 3, header |-> header, payload |-> Payload, sig |-> sig(header)]
  <2>1. PICK h : h = header
    OBVIOUS
  <2>2. PICK p : p = plain
    OBVIOUS
  <2>3. PICK b : b = by
    OBVIOUS
  <2>4. [sig(p) EXCEPT !.header = h] = sig(h)
    BY <2>3
  <2>5. PICK t : t = Encoded(call)
    OBVIOUS
  <2>6. PICK before : before = sig(p)
    OBVIOUS
  <2>7. t = [parts |-> 3, header |-> p, payload |-> Payload, sig |-> before]
    BY <1>15, <2>2, <2>5, <2>6
  <2>8. [before EXCEPT !.header = h] = sig(h)
    BY <2>4, <2>6
  <2>9. [t EXCEPT !.header = h, !.sig.header = h] =
          [parts |-> 3, header |-> h, payload |-> Payload, sig |-> [before EXCEPT !.header = h]]
    <3> DEFINE mid == [parts |-> 3, header |-> h, payload |-> Payload, sig |-> before]
    <3>1. [t EXCEPT !.header = h] = mid
      BY <2>7
    <3>2. [mid EXCEPT !.sig.header = h] =
            [parts |-> 3, header |-> h, payload |-> Payload,
             sig |-> [before EXCEPT !.header = h]]
      OBVIOUS
    <3>3. [t EXCEPT !.header = h, !.sig.header = h] =
            [[t EXCEPT !.header = h] EXCEPT !.sig.header = h]
      OBVIOUS
    <3> HIDE DEF mid
    <3> QED
      BY <3>1, <3>2, <3>3
  <2> HIDE DEF header, plain, by, sig
  <2> QED
    BY <2>1, <2>5, <2>8, <2>9
<1> QED
  BY <1>7, <1>18, <1>19 DEF SignedToken

(* decode of such a token with what was published of its key.              *)
LEMMA TokenAccepted ==
  ASSUME NEW key, NEW alg, NEW kid, NEW kty, NEW of,
         alg \in Crypto, alg \notin Hmac, alg \in EdDsa => kty = "OKP", kty # "oct",
         AlgorithmName(key) = alg, Extracts(key.jwk, TRUE) = Ok,
         KeyBytes(key.jwk, TRUE) = [kty |-> kty, of |-> of, half |-> "public"]
  PROVE  Decode(DecodeCall(SignedToken(alg, kid, kty, of), key), Leeway0, 0) = Ok
<1> DEFINE header == [kind |-> "object", plain |-> TRUE, alg |-> alg, b64 |-> "absent",
                      kid |-> kid]
           by     == [kty |-> kty, of |-> of, half |-> "public"]
           sig    == [kind |-> "sig", scheme |-> Scheme(alg), header |-> header,
                      payload |-> Payload, by |-> by]
           token  == [parts |-> 3, header |-> header, payload |-> Payload, sig |-> sig]
           call   == DecodeCall(token, key)
           held   == Held(key, TRUE)
<1>1. /\ call.entry = "module" /\ call.token = token /\ call.key = held
      /\ call.algorithms = Expect({alg}) /\ call.content = NoPayload /\ call.verify = Null
      /\ call.audience = Anything /\ call.issuer = Anything /\ call.subject = Anything
  BY DEF DecodeCall
<1>2. /\ token.parts = 3 /\ token.header = header /\ token.payload = Payload /\ token.sig = sig
      /\ token = [parts |-> token.parts, header |-> token.header, payload |-> token.payload,
                  sig |-> token.sig]
  BY Zenon
<1>3. /\ header.kind = "object" /\ header.plain /\ header.alg = alg /\ header.b64 = "absent"
  OBVIOUS
<1>4. sig.kind = "sig"
  OBVIOUS
<1>5. held.form = "jwk" /\ held.kty = kty /\ held.of = of /\ held.half = "public"
      /\ held.alg = key.alg
  <2> HIDE DEF header, sig, token, call, held
  <2>1. PICK bytes : bytes = KeyBytes(key.jwk, TRUE)
    OBVIOUS
  <2>2. held = [form |-> "jwk", kty |-> bytes.kty, of |-> bytes.of, half |-> bytes.half,
                alg |-> key.alg, len |-> key.jwk.len]
    BY <2>1 DEF Held, held
  <2>3. bytes = [kty |-> kty, of |-> of, half |-> "public"]
    BY <2>1
  <2> QED
    BY <2>2, <2>3
<1>6. key.alg = "" \/ key.alg = alg
  BY DEF AlgorithmName
<1>7. alg \notin {"", "nonstring"} /\ alg \in Supported /\ ~IsNone(alg)
  BY DEF Crypto, Hmac, Rsa, Ecdsa, EdDsa, Supported, IsNone
<1> HIDE DEF header, sig, token, call, held
<1>8. Bytes(held, "verify") = by
  BY <1>5 DEF Bytes
<1> HIDE DEF by
<1>9. Named(header) /\ Peek(token) = alg
  BY <1>2, <1>3, <1>7 DEF Named, Peek
<1>10. Presented(call) = token
  BY <1>1 DEF Presented, Attach
<1>11. ~Enforcing(Leeway0) /\ Verifying(Leeway0)
  BY Leeway0Verifies
<1>12. KeyFit(held, alg, Enforcing(Leeway0))
  BY <1>5, <1>6 DEF KeyFit, SameName
<1>13. Permitted(call, alg) /\ call.algorithms.kind = "of"
  BY <1>1 DEF Permitted, Expect
<1>14. Trusted(call, Leeway0)
  <2>1. token.header.alg \in Crypto /\ Permitted(call, token.header.alg)
    BY <1>2, <1>3, <1>13
  <2>2. token.sig = [kind |-> "sig", scheme |-> Scheme(token.header.alg), by |-> by,
                     header |-> token.header, payload |-> token.payload]
    BY <1>2, <1>3 DEF sig
  <2>3. token.header.alg \in EdDsa => by.kty = "OKP" /\ by.half = "public"
    BY <1>2, <1>3 DEF by
  <2>4. ~IsNone(Peek(call.token)) /\ call.key.form = "jwk"
        /\ KeyFit(call.key, Peek(call.token), Enforcing(Leeway0))
    BY <1>1, <1>5, <1>7, <1>9, <1>12
  <2> QED
    BY <1>1, <1>8, <1>10, <2>1, <2>2, <2>3, <2>4 DEF Trusted
<1>15. Payload.kind = "claims"
  BY PayloadAssumption DEF Claims
<1>16. Legible(call)
  BY <1>2, <1>3, <1>4, <1>9, <1>10, <1>15 DEF Legible
<1>17. call.entry # "async" /\ ExpectationsClear(call)
  BY <1>1 DEF ExpectationsClear, Anything
<1>18. DOMAIN Leeway0 = {"leeway"} /\ Leeway0["leeway"] = Num(0)
  BY DEF Leeway0
<1>19. Num(0).at = 0 /\ Num(0).type = "num"
  BY DEF Num
<1>20. OptionsClear(Leeway0)
  <2>1. Names \cap DOMAIN Leeway0 = {}
    BY <1>18 DEF Names
  <2>2. Leeway0["leeway"].at >= 0
    BY <1>18, <1>19
  <2> QED
    BY <2>1, <2>2 DEF OptionsClear
<1>21. IsRequest(call) /\ IsDict(Leeway0)
  <2>1. IsExpectation(Anything)
    BY DEF IsExpectation, Anything
  <2>2. IsCompact(call.token)
    BY <1>1, <1>2, <1>3 DEF IsCompact
  <2>3. IsDict(Leeway0)
    BY <1>18, <1>19 DEF IsDict
  <2> QED
    BY <1>1, <1>13, <2>1, <2>2, <2>3 DEF IsRequest
<1>22. ClaimsAcceptable(Payload.claims, Settings(Leeway0), Flags(Leeway0), Expected(call), 0)
  <2> DEFINE claims == Payload.claims
  <2>1. DOMAIN claims \subseteq {"iss"} /\ (Has(claims, "iss") => IsString(claims["iss"]))
    BY PayloadAssumption
  <2> HIDE DEF claims
  <2>2. /\ ~Has(claims, "exp") /\ ~Has(claims, "nbf") /\ ~Has(claims, "iat")
        /\ ~Has(claims, "aud") /\ ~Has(claims, "sub") /\ ~Has(claims, "jti")
    BY <2>1 DEF Has
  <2>3. Settings(Leeway0).required = {}
    BY <1>18 DEF Settings, Has
  <2>4. /\ ~Has(Expected(call), "iss")
        /\ ~Has(Expected(call), "sub")
        /\ ~Has(Expected(call), "aud")
    <3> DEFINE all == [aud |-> call.audience, iss |-> call.issuer, sub |-> call.subject]
    <3>1. \A n \in DOMAIN Expected(call) : n \in {"aud", "iss", "sub"} /\ all[n].kind = "of"
      BY DEF Expected
    <3>2. all["aud"].kind = "any" /\ all["iss"].kind = "any" /\ all["sub"].kind = "any"
      BY <1>1 DEF Anything
    <3> QED
      BY <3>1, <3>2 DEF Has
  <2>5. WellTyped(claims)
    BY <2>2 DEF WellTyped, DateClaims
  <2>6. InWindow(claims, Flags(Leeway0), Leeway(Settings(Leeway0)), 0)
    BY <2>2 DEF InWindow
  <2>7. IsForCaller(claims, Flags(Leeway0), Expected(call))
    BY <2>1, <2>2, <2>4 DEF IsForCaller
  <2> QED
    BY <2>3, <2>5, <2>6, <2>7 DEF ClaimsAcceptable, claims
<1>23. Acceptable(call, Leeway0, 0)
  <2>1. ~(Peek(call.token) \in Hmac /\ LooksPublic(call.key))
    BY <1>1, <1>9
  <2> QED
    BY <1>2, <1>10, <1>11, <1>14, <1>15, <1>16, <1>17, <1>20, <1>22, <2>1 DEF Acceptable
<1>24. Decode(call, Leeway0, 0) = Ok
  BY <1>21, <1>23, DecodeVerdictIsPolicy
<1> QED
  BY <1>24 DEF call, token, sig, header, by, SignedToken

(***************************************************************************)
(* Who is found.                                                           *)
(***************************************************************************)
LEMMA Reached ==
  ASSUME NEW jwks \in Seq(Entries), Reaches(jwks), Usable(Entry), Entry.kid = own.kid
  PROVE  /\ KeySetLoads(jwks) = Ok /\ HasKid(KeySet(jwks), own.kid) = Ok
         /\ ByKid(KeySet(jwks), own.kid) = PyJwk(Entry, "")
<1> DEFINE set == KeySet(jwks)
<1>1. Gathered(jwks, Entries, set, Len(jwks))
  BY KeySetOf
<1>2. PICK j \in 1..Len(jwks) :
        /\ jwks[j] = Entry
        /\ \A m \in 1..(j - 1) : jwks[m].kid = own.kid => ~Usable(jwks[m])
  BY DEF Reaches
<1>3. IsFirst(jwks, j)
  BY <1>2 DEF IsFirst
<1>4. set \in Seq(PyJwks(Entries)) /\ Leads(set, jwks[j])
  BY <1>1, <1>3 DEF Gathered
<1> HIDE DEF set
<1>5. PICK i \in 1..Len(set) :
        set[i] = PyJwk(Entry, "") /\ \A m \in 1..(i - 1) : set[m].jwk.kid # own.kid
  BY <1>2, <1>4 DEF Leads
<1>6. PyJwk(Entry, "").jwk.kid = own.kid
  BY PyJwkOf
<1>7. DOMAIN set = 1..Len(set) /\ Len(set) \in Nat
  BY <1>4
<1>8. HasKid(set, own.kid) = Ok
  BY <1>5, <1>6, <1>7 DEF HasKid, Require, Ok
<1>9. PICK k \in DOMAIN set :
        /\ ByKid(set, own.kid) = set[k] /\ set[k].jwk.kid = own.kid
        /\ \A m \in 1..(k - 1) : set[m].jwk.kid # own.kid
  BY <1>4, <1>8, ByKidOf
<1>10. k = i
  <2>1. i < k => i \in 1..(k - 1)
    BY <1>7
  <2>2. k < i => k \in 1..(i - 1)
    BY <1>7
  <2>3. ~(i < k) /\ ~(k < i)
    BY <1>5, <1>6, <1>9, <2>1, <2>2
  <2> QED
    BY <1>7, <2>3
<1>11. KeySetLoads(jwks) = Ok
  <2>1. Len(set) # 0
    BY <1>7
  <2>2. set # <<>>
    BY <2>1
  <2> QED
    BY <2>2 DEF KeySetLoads, Require, Ok, set
<1> QED
  BY <1>5, <1>8, <1>9, <1>10, <1>11 DEF set

(* A token of the issuer is accepted as soon as its public key is in the   *)
(* set, and a document with that key loads.                                *)
THEOREM SignerIsFoundAlways == Spec => []SignerIsFound
<1>1. ASSUME IInv
      PROVE  SignerIsFound
  <2> DEFINE alg   == OwnAlg
             jwk   == own.key.jwk
             key   == PyJwk(Entry, "")
             token == Issued(own.key, alg, own.kid)
  <2> SUFFICES ASSUME IsSigner, DeclaresItsKind, jwk.use # "enc",
                      Issues(own.key, alg) = Ok
               PROVE  /\ Reaches(document) => KeySetLoads(document) = Ok
                      /\ Reaches(fetched) => Verified(token, cached) = Ok
    BY DEF SignerIsFound
  <2>1. OwnInv /\ SetInv
    BY <1>1 DEF IInv
  <2>2. Holds /\ alg = AlgorithmName(own.key)
    BY DEF IsSigner, OfItsKind, OwnAlg
  <2>3. /\ own.key.form = "jwk" /\ "d" \in jwk.has
        /\ \/ alg \in Rsa /\ jwk.kty = "RSA"
           \/ /\ alg \in Ecdsa /\ jwk.kty = "EC" /\ jwk.crv = Curve[alg]
              /\ jwk.crv \in EcCurves /\ {"x", "y"} \subseteq jwk.has
           \/ /\ alg \in EdDsa /\ jwk.kty = "OKP" /\ jwk.crv = "Ed25519"
              /\ Readable(jwk, {"x"})
    BY <2>1, <2>2, SignerKind
  <2> DEFINE by     == [kty |-> KeyKind(jwk), of |-> jwk.of, half |-> "public"]
             signed == SignedToken(alg, own.kid, KeyKind(jwk), jwk.of)
  <2>4. Extracts(jwk, FALSE) = Ok /\ token = signed
    <3>1. own.key.jwk.kty # "oct"
      BY <2>3
    <3>2. alg \in Crypto \ Hmac /\ KeyKind(own.key.jwk) = KindFor(alg)
      BY DEF DeclaresItsKind
    <3> HIDE DEF alg
    <3>3. own.key.form = "jwk" /\ "d" \in own.key.jwk.has
      BY <2>3
    <3> QED
      BY <3>1, <3>2, <3>3, IssuedIs
  <2>5. /\ Usable(Entry) /\ Entry.kid = own.kid /\ Extracts(Entry, TRUE) = Ok
        /\ AlgorithmName(key) = alg /\ KeyBytes(Entry, TRUE) = by
    BY <2>1, <2>2, <2>4, EntryVerifies
  <2>6. document \in Seq(Entries) /\ fetched \in Seq(Entries) /\ cached = KeySet(fetched)
    BY <2>1 DEF SetInv
  <2>7. Reaches(document) => KeySetLoads(document) = Ok
    BY <2>5, <2>6, Reached
  <2>8. ASSUME Reaches(fetched)
        PROVE  Verified(token, cached) = Ok
    <3>1. HasKid(cached, own.kid) = Ok /\ ByKid(cached, own.kid) = key
      BY <2>5, <2>6, <2>8, Reached
    <3>2. key.jwk = Entry
      BY PyJwkOf
    <3>3. /\ alg \in Crypto /\ alg \notin Hmac /\ KeyKind(jwk) # "oct"
          /\ alg \in EdDsa => KeyKind(jwk) = "OKP"
      <4>1. alg \in Crypto /\ alg \notin Hmac
        BY DEF DeclaresItsKind
      <4>2. alg \in EdDsa => jwk.kty = "OKP"
        BY <2>3, Disjoint
      <4>3. \A crv \in EcCurves : crv # "oct"
        BY DEF EcCurves, NistCurves
      <4> QED
        BY <2>3, <4>1, <4>2, <4>3 DEF KeyKind
    <3> HIDE DEF alg, key, token
    <3>4. Decode(DecodeCall(signed, key), Leeway0, 0) = Ok
      BY <2>5, <3>2, <3>3, TokenAccepted
    <3>5. token.header = [kind |-> "object", plain |-> TRUE, alg |-> alg, b64 |-> "absent",
                          kid |-> own.kid]
      BY <2>4 DEF SignedToken
    <3>6. UnverifiedKid(token) = Ok /\ token.header.kid = own.kid
      <4>1. own.kid \notin {Unnamed, "nonstring"}
        BY <2>1, <2>2, KeySetAssumption DEF OwnInv, Holds
      <4>2. token.header.kind = "object" /\ token.header.plain /\ token.header.kid = own.kid
        BY <3>5
      <4> QED
        BY <4>1, <4>2 DEF UnverifiedKid, Require, Ok, ??
    <3>7. Decode(DecodeCall(token, key), Leeway0, 0) = Ok
      BY <2>4, <3>4
    <3> QED
      BY <3>1, <3>6, <3>7, VerifiedIs
  <2> QED
    BY <2>7, <2>8
<1> QED
  BY <1>1, Invariant, PTL

(***************************************************************************)
(* One key in many forms.                                                  *)
(***************************************************************************)
(* A text is parsed into the kind of key that it is.                       *)
LEMMA ParsedKind ==
  ASSUME NEW text, NEW jwk, KeyKind(Parsed(text)) = KeyKind(jwk),
         jwk.kty \in {"oct", "RSA", "EC", "OKP"}, text.kty \notin {"oct"},
         jwk.kty = "EC" => jwk.crv \in EcCurves,
         jwk.kty = "OKP" => jwk.crv = "Ed25519"
  PROVE  /\ jwk.kty # "oct" /\ Parsed(text).kty = jwk.kty
         /\ Parsed(text).of = text.of /\ Parsed(text).alg = ""
         /\ jwk.kty # "RSA" => Parsed(text).crv = jwk.crv
         /\ jwk.kty = "RSA" => Parsed(text).crv = ""
<1>1. \/ text.kty = "RSA" /\ Parsed(text) = JwkOf("RSA", "", Members(text), text.of)
      \/ text.kty = "OKP" /\ Parsed(text) = JwkOf("OKP", "Ed25519", Members(text), text.of)
      \/ text.kty = "Ed448" /\ Parsed(text) = JwkOf("OKP", "Ed448", Members(text), text.of)
      \/ /\ text.kty \notin {"RSA", "OKP", "Ed448"}
         /\ Parsed(text) = JwkOf("EC", text.kty, Members(text), text.of)
  BY DEF Parsed
<1>2. PICK parsed : parsed = Parsed(text)
  OBVIOUS
<1>3. /\ parsed.of = text.of /\ parsed.alg = ""
      /\ \/ text.kty = "RSA" /\ parsed.kty = "RSA" /\ parsed.crv = ""
         \/ text.kty = "OKP" /\ parsed.kty = "OKP" /\ parsed.crv = "Ed25519"
         \/ text.kty = "Ed448" /\ parsed.kty = "OKP" /\ parsed.crv = "Ed448"
         \/ /\ text.kty \notin {"RSA", "OKP", "Ed448"}
            /\ parsed.kty = "EC" /\ parsed.crv = text.kty
  <2>1. PICK members, of : members = Members(text) /\ of = text.of
    OBVIOUS
  <2>2. CASE text.kty = "RSA" /\ Parsed(text) = JwkOf("RSA", "", Members(text), text.of)
    <3>1. parsed = JwkOf("RSA", "", members, of)
      BY <1>2, <2>1, <2>2
    <3>2. /\ parsed.kty = "RSA" /\ parsed.crv = ""
          /\ parsed.of = of /\ parsed.alg = ""
      BY <3>1 DEF JwkOf
    <3> QED
      BY <2>1, <2>2, <3>2
  <2>3. CASE text.kty = "OKP" /\ Parsed(text) = JwkOf("OKP", "Ed25519", Members(text), text.of)
    <3>1. parsed = JwkOf("OKP", "Ed25519", members, of)
      BY <1>2, <2>1, <2>3
    <3>2. /\ parsed.kty = "OKP" /\ parsed.crv = "Ed25519"
          /\ parsed.of = of /\ parsed.alg = ""
      BY <3>1 DEF JwkOf
    <3> QED
      BY <2>1, <2>3, <3>2
  <2>4. CASE text.kty = "Ed448" /\ Parsed(text) = JwkOf("OKP", "Ed448", Members(text), text.of)
    <3>1. parsed = JwkOf("OKP", "Ed448", members, of)
      BY <1>2, <2>1, <2>4
    <3>2. /\ parsed.kty = "OKP" /\ parsed.crv = "Ed448"
          /\ parsed.of = of /\ parsed.alg = ""
      BY <3>1 DEF JwkOf
    <3> QED
      BY <2>1, <2>4, <3>2
  <2>5. CASE /\ text.kty \notin {"RSA", "OKP", "Ed448"}
             /\ Parsed(text) = JwkOf("EC", text.kty, Members(text), text.of)
    <3>1. PICK crv : crv = text.kty
      OBVIOUS
    <3>2. parsed = JwkOf("EC", crv, members, of)
      BY <1>2, <2>1, <2>5, <3>1
    <3>3. parsed.kty = "EC" /\ parsed.crv = crv /\ parsed.of = of /\ parsed.alg = ""
      BY <3>2 DEF JwkOf
    <3> QED
      BY <2>1, <2>5, <3>1, <3>3
  <2> QED
    BY <1>1, <2>2, <2>3, <2>4, <2>5
<1>4. \A crv \in EcCurves : crv \notin {"RSA", "OKP", "Ed448", "oct"}
  BY DEF EcCurves, NistCurves
<1>5. KeyKind(parsed) =
        IF text.kty \in {"RSA", "OKP", "Ed448"} THEN text.kty ELSE parsed.crv
  BY <1>3 DEF KeyKind
<1>6. KeyKind(jwk) = IF jwk.kty = "EC" THEN jwk.crv ELSE jwk.kty
  BY DEF KeyKind
<1>7. parsed.kty = jwk.kty /\ jwk.kty # "oct"
      /\ (jwk.kty # "RSA" => parsed.crv = jwk.crv) /\ (jwk.kty = "RSA" => parsed.crv = "")
  BY <1>2, <1>3, <1>4, <1>5, <1>6
<1> QED
  BY <1>2, <1>3, <1>7

(* What all forms of the own key have in common.                           *)
LEMMA FormOf ==
  ASSUME OwnInv, OfItsKind, own.key.jwk.kty = "EC" => own.key.jwk.crv \in EcCurves,
         NEW key \in Forms
  PROVE  LET jwk == own.key.jwk
         IN  /\ key.form = "jwk" /\ key.jwk.kty = jwk.kty /\ key.jwk.of = jwk.of
             /\ \/ key.alg = own.key.alg /\ key.jwk.crv = jwk.crv
                \/ key.alg = "" /\ jwk.kty = "RSA"
                \/ /\ jwk.kty \in {"EC", "OKP"} /\ key.jwk.crv = jwk.crv
                   /\ key.alg = Deduced(jwk)
<1> DEFINE jwk == own.key.jwk
<1>1. /\ Holds /\ own.key.form = "jwk" /\ IsHeld(own.key) /\ Suited(jwk)
      /\ jwk.kty = Handler[own.handler].family /\ own.handler \in DOMAIN Handler
  BY KeySetAssumption DEF OfItsKind, OwnInv, Holds
<1>2. jwk.kty \in {"oct", "RSA", "EC", "OKP"}
  BY <1>1, HandlerFacts
<1>3. own.key = PyJwk(jwk, "")
  BY <1>1 DEF IsHeld
<1> DEFINE public == PublicKey(own.key)
<1>4. /\ public.form = "jwk" /\ public.alg = own.key.alg
      /\ public.jwk = Pieces(jwk.kty, jwk.crv, jwk.has \ Private, jwk.bad \ Private,
                             jwk.alg, jwk.use, jwk.kid, jwk.of, jwk.len)
  BY <1>1, PublicOf
<1> HIDE DEF jwk, public
<1>5. public.jwk.kty = jwk.kty /\ public.jwk.crv = jwk.crv /\ public.jwk.of = jwk.of
      /\ public.jwk.alg = jwk.alg
  BY <1>4 DEF Pieces
<1>6. CASE key = own.key
  BY <1>1, <1>6 DEF jwk
<1>7. CASE key = public
  BY <1>4, <1>5, <1>7 DEF jwk
<1>8. CASE key = PyJwk(jwk, "")
  BY <1>1, <1>3, <1>8 DEF jwk
<1>9. CASE key = PyJwk(public.jwk, "")
  <2>1. key.jwk = public.jwk /\ key.form = "jwk"
        /\ key.alg = IF public.jwk.alg # "" THEN public.jwk.alg ELSE Deduced(public.jwk)
    BY <1>9, PyJwkOf
  <2>2. own.key.alg = IF jwk.alg # "" THEN jwk.alg ELSE Deduced(jwk)
    BY <1>3, PyJwkOf
  <2>3. Deduced(public.jwk) = Deduced(jwk)
    BY <1>5 DEF Deduced
  <2> QED
    BY <1>5, <2>1, <2>2, <2>3 DEF jwk
<1>10. ASSUME NEW text \in Keys, text.form \in {"pem", "ssh"}, IsOfPair(Parsed(text)),
              Prepares(Handler[own.handler], text) = Ok, key = Loaded(text)
       PROVE  /\ key.form = "jwk" /\ key.jwk.kty = jwk.kty /\ key.jwk.of = jwk.of
              /\ \/ key.alg = "" /\ jwk.kty = "RSA"
                 \/ /\ jwk.kty \in {"EC", "OKP"} /\ key.jwk.crv = jwk.crv
                    /\ key.alg = Deduced(jwk)
  <2>1. KeyKind(Parsed(text)) = KeyKind(jwk) /\ Parsed(text).of = jwk.of
    BY <1>10 DEF IsOfPair, jwk
  <2>2. key = PyJwk(Parsed(text), "")
    BY <1>10 DEF Loaded
  <2>3. text.kty # "oct"
    <3>1. CASE Handler[own.handler].family = "oct"
      <4>1. text.form = "ssh" /\ text.kty \in NistCurves
        BY <1>10, <3>1, Sequencing DEF Prepares, NoSecret, Require, Ok
      <4> QED
        BY <4>1 DEF NistCurves
    <3>2. CASE Handler[own.handler].family # "oct"
      <4>1. Loads(text) = Ok
        BY <1>10, <3>2, Sequencing DEF Prepares, Ok
      <4>2. Parses(text) = Ok
        BY <1>10, <4>1 DEF Loads, Ok, ??
      <4> QED
        BY <4>2 DEF Parses, EcCurves, NistCurves, Require, Ok
    <3> QED
      BY <3>1, <3>2
  <2>4. /\ jwk.kty # "oct" /\ Parsed(text).kty = jwk.kty /\ Parsed(text).alg = ""
        /\ jwk.kty # "RSA" => Parsed(text).crv = jwk.crv
    <3>1. jwk.kty = "EC" => jwk.crv \in EcCurves
      BY DEF jwk
    <3>2. jwk.kty = "OKP" => jwk.crv = "Ed25519"
      BY <1>1 DEF Suited
    <3> QED
      BY <1>2, <2>1, <2>3, <3>1, <3>2, ParsedKind
  <2>5. key.form = "jwk" /\ key.jwk = Parsed(text) /\ key.alg = Deduced(Parsed(text))
    BY <2>2, <2>4, PyJwkOf
  <2>6. jwk.kty # "RSA" => Deduced(Parsed(text)) = Deduced(jwk)
    BY <2>4 DEF Deduced
  <2>7. jwk.kty = "RSA" => Deduced(Parsed(text)) = ""
    BY <2>4 DEF Deduced
  <2> QED
    BY <1>2, <2>1, <2>4, <2>5, <2>6, <2>7
<1>11. /\ Exported(Handler[own.handler], own.key) = jwk
       /\ Exported(Handler[own.handler], public) = public.jwk
  BY <1>1, <1>4 DEF Exported, jwk
<1>12. \/ key = own.key \/ key = public \/ key = PyJwk(jwk, "") \/ key = PyJwk(public.jwk, "")
       \/ \E text \in Keys : /\ text.form \in {"pem", "ssh"} /\ IsOfPair(Parsed(text))
                             /\ Prepares(Handler[own.handler], text) = Ok
                             /\ key = Loaded(text)
  BY <1>11 DEF Forms, public
<1> QED
  BY <1>6, <1>7, <1>8, <1>9, <1>10, <1>12 DEF jwk

(* What a handler signs it verifies with every form of the same key that   *)
(* has a public half.                                                      *)
THEOREM HandlerRoundTripAlways == Spec => []HandlerRoundTrip
<1>1. ASSUME IInv
      PROVE  HandlerRoundTrip
  <2> DEFINE mine   == Handler[own.handler]
             jwk    == own.key.jwk
             given  == HandlerAlg(mine, own.key)
             signed == OfCurve(own.key, given)
             bytes  == KeyBytes(jwk, FALSE)
             sig    == HandlerSignature(mine, own.key, Payload)
  <2> SUFFICES ASSUME IsSigner, HandlerSigns(mine, own.key) = Ok, NEW key \in Forms,
                      Extracts(key.jwk, TRUE) = Ok
               PROVE  HandlerVerifies(mine, key, Payload, sig) = Ok
    BY DEF HandlerRoundTrip
  <2> DEFINE used     == HandlerAlg(mine, key)
             verified == OfCurve(key, used)
             other    == KeyBytes(key.jwk, TRUE)
  <2>1. OwnInv /\ OfItsKind
    BY <1>1 DEF IInv, IsSigner
  <2>2. /\ Holds /\ own.key.form = "jwk" /\ IsHeld(own.key) /\ Suited(jwk)
        /\ jwk.kty = mine.family /\ own.handler \in DOMAIN Handler
    BY <2>1, KeySetAssumption DEF OfItsKind, OwnInv, Holds
  <2>3. SignsRaw(own.key, given) = Ok
    BY <2>2 DEF HandlerSigns
  <2>4. /\ JwkAlgorithm(own.key, given) = Ok /\ signed \in Crypto
        /\ signed \in Rsa \cup Ecdsa => bytes.kty = KindFor(signed) /\ bytes.half = "private"
    BY <2>3, RawSigning
  <2>5. /\ mine.family \in {"oct", "RSA", "EC", "OKP"}
        /\ mine.family = "oct" => signed \in Hmac
        /\ mine.family = "RSA" => signed \in Rsa
        /\ mine.family = "EC"  => signed \in Ecdsa
        /\ mine.family = "OKP" => signed = "EdDSA"
    BY <2>2, OfFamily
  <2>6. /\ mine.family = "RSA" => mine.alg \in Rsa
        /\ mine.family = "OKP" => mine.alg = "EdDSA"
    BY <2>2, HandlerFacts
  <2>7. bytes.kty = KeyKind(jwk) /\ bytes.of = jwk.of /\ bytes.half # "public"
        /\ bytes = [kty |-> bytes.kty, of |-> bytes.of, half |-> bytes.half]
    BY DEF KeyBytes, IsSigner
  <2>8. sig = Signature(signed, bytes, "", Payload)
    BY <2>2 DEF HandlerSignature, RawSignature
  <2> HIDE DEF mine, given, signed, bytes, sig
  <2>9. jwk.kty = "EC" => signed \in Ecdsa /\ jwk.crv = Curve[signed] /\ jwk.crv \in EcCurves
    <3>1. jwk.kty = "EC" => KeyKind(jwk) = jwk.crv /\ signed \in Ecdsa
      BY <2>2, <2>5 DEF KeyKind
    <3>2. \A a \in Ecdsa : a \notin Hmac \cup Rsa \cup EdDsa /\ Curve[a] \in EcCurves
      BY DEF Ecdsa, Hmac, Rsa, EdDsa, Curve, EcCurves, NistCurves
    <3> QED
      BY <2>4, <2>7, <3>1, <3>2 DEF KindFor
  <2>10. /\ key.form = "jwk" /\ key.jwk.kty = jwk.kty /\ key.jwk.of = jwk.of
         /\ \/ key.alg = own.key.alg /\ key.jwk.crv = jwk.crv
            \/ key.alg = "" /\ jwk.kty = "RSA"
            \/ /\ jwk.kty \in {"EC", "OKP"} /\ key.jwk.crv = jwk.crv
               /\ key.alg = Deduced(jwk)
    BY <2>1, <2>9, FormOf
  <2>11. verified = signed /\ JwkAlgorithm(key, used) = Ok
    <3>1. CASE key.alg = own.key.alg /\ key.jwk.crv = jwk.crv
      <4>1. AlgorithmName(key) = AlgorithmName(own.key)
        BY <2>10, <3>1 DEF AlgorithmName
      <4>2. used = given
        BY <2>2, <2>10, <4>1 DEF HandlerAlg, given
      <4> QED
        BY <2>4, <3>1, <4>2 DEF OfCurve, JwkAlgorithm, signed
    <3>2. CASE key.alg = "" /\ jwk.kty = "RSA"
      <4>1. used = mine.alg /\ given = mine.alg /\ mine.alg \in Rsa
        BY <2>2, <2>6, <3>2 DEF HandlerAlg, given
      <4>2. mine.alg # "ES256"
        BY <4>1 DEF Rsa
      <4> QED
        BY <3>2, <4>1, <4>2 DEF OfCurve, JwkAlgorithm, Require, signed
    <3>3. CASE jwk.kty = "EC" /\ key.jwk.crv = jwk.crv /\ key.alg = Deduced(jwk)
      <4>1. key.alg \in Ecdsa /\ Curve[key.alg] = jwk.crv
        BY <2>9, <3>3, EcAlgOf DEF Deduced
      <4>2. \A a \in Ecdsa, b \in Ecdsa : Curve[a] = Curve[b] => a = b
        BY DEF Ecdsa, Curve
      <4>3. key.alg = signed
        BY <2>9, <3>3, <4>1, <4>2
      <4>4. key.alg # ""
        BY <4>1 DEF Ecdsa
      <4>5. used = signed
        BY <2>2, <2>10, <3>3, <4>1, <4>3, <4>4 DEF HandlerAlg, AlgorithmName
      <4>6. signed = "ES256" => jwk.crv = "P-256"
        BY <2>9, <3>3 DEF Curve
      <4> QED
        BY <3>3, <4>3, <4>5, <4>6 DEF OfCurve, JwkAlgorithm, SameName, Require
    <3>4. CASE jwk.kty = "OKP" /\ key.alg = Deduced(jwk)
      <4>1. key.alg = "EdDSA"
        BY <3>4 DEF Deduced
      <4>2. used = "EdDSA" /\ signed = "EdDSA"
        BY <2>2, <2>5, <2>6, <3>4 DEF HandlerAlg
      <4> QED
        BY <4>1, <4>2 DEF OfCurve, JwkAlgorithm, SameName, Require
    <3> QED
      BY <2>10, <3>1, <3>2, <3>3, <3>4
  <2>12. other.kty = KeyKind(jwk) /\ other.of = jwk.of
         /\ other.half = (IF jwk.kty = "oct" THEN "secret" ELSE "public")
         /\ other = [kty |-> other.kty, of |-> other.of, half |-> other.half]
    <3>1. KeyKind(key.jwk) = KeyKind(jwk)
      <4>1. jwk.kty = "RSA" => KeyKind(key.jwk) = "RSA" /\ KeyKind(jwk) = "RSA"
        BY <2>10 DEF KeyKind
      <4>2. jwk.kty # "RSA" => key.jwk.crv = jwk.crv
        BY <2>10
      <4> QED
        BY <2>10, <4>1, <4>2 DEF KeyKind
    <3> QED
      BY <2>10, <3>1 DEF KeyBytes, TakesPrivate
  <2> HIDE DEF used, verified, other
  <2>13. signed \in EdDsa => other.kty = "OKP" /\ other.half = "public"
    <3>1. signed \in EdDsa => jwk.kty = "OKP"
      BY <2>2, <2>5, Disjoint
    <3>2. jwk.kty = "OKP" => KeyKind(jwk) = "OKP"
      BY <2>2 DEF Suited, KeyKind
    <3> QED
      BY <2>12, <3>1, <3>2
  <2>14. sig = [kind |-> "sig", scheme |-> Scheme(signed), header |-> "", payload |-> Payload,
                by |-> other]
    <3>1. CASE jwk.kty = "oct"
      <4>1. signed \in Hmac /\ bytes.half = "secret"
        BY <2>2, <2>5, <3>1 DEF KeyBytes, bytes
      <4>2. bytes = other
        BY <2>7, <2>12, <3>1, <4>1
      <4> QED
        BY <2>8, <4>1, <4>2 DEF Signature
    <3>2. CASE jwk.kty # "oct"
      <4>1. signed \notin Hmac
        BY <2>2, <2>5, <3>2, Disjoint
      <4>2. bytes.half = "private"
        BY <2>7, <3>2 DEF KeyBytes, bytes
      <4>3. [bytes EXCEPT !.half = IF @ = "private" THEN "public" ELSE "reseeded"] = other
        BY <2>7, <2>12, <3>2, <4>2
      <4> QED
        BY <2>8, <4>1, <4>3 DEF Signature
    <3> QED
      BY <3>1, <3>2
  <2>15. VerifiesRaw(key, used, Payload, sig) = Ok
    BY <2>4, <2>11, <2>13, <2>14, RawVerifying DEF verified, other
  <2> QED
    BY <2>10, <2>15 DEF HandlerVerifies, VerifyAlg, used
<1> QED
  BY <1>1, Invariant, PTL

(***************************************************************************)
(* The tables of handlers and providers, of AlgorithmRegistry, for any     *)
(* number of threads, any names, filters and objects, with an interpreter  *)
(* lock and without one.                                                   *)
(***************************************************************************)
(* A call between its check and its change is one that the check let pass: *)
(* if its name has a handler all the same, that one came in meanwhile.     *)
Checked ==
  /\ DOMAIN req = Threads
  /\ \A t \in Threads :
       /\ pc[t] = "insert" =>
            /\ req[t].name \in AlgNames /\ req[t].object \in Instances
            /\ req[t].name \in DOMAIN algorithms => req[t].name \in fresh[t]
       /\ pc[t] = "lock" \/ pc[t] = "swap" => req[t] \in TableCalls

(* Where there is an interpreter lock, a thread in the table's own code    *)
(* keeps it; a finaliser may have let it go.                               *)
KeepsLock ==
  gil # NoGil =>
    \A t \in Threads : pc[t] \in {"lock", "swap", "unlock"} => gil = t

RegistryInv == RegistryTypeOK /\ Checked /\ KeepsLock

(* Initially every thread is idle and no lock is held.                     *)
LEMMA RegistryInitInv == RegistryInit => RegistryInv
BY RegistryAssumption DEF RegistryInit, RegistryInv, RegistryTypeOK, Checked,
       KeepsLock, InTable, Builtin

(* Every action keeps the invariant.  The write guard is taken only when   *)
(* it is free and given back by its holder, so that at most one thread is  *)
(* in the table; the interpreter lock is let go only for a finaliser.      *)
LEMMA RegistryStepInv == RegistryInv /\ [RegistryNext]_registryVars => RegistryInv'
<1> SUFFICES ASSUME RegistryInv, [RegistryNext]_registryVars PROVE RegistryInv'
  OBVIOUS
<1> USE RegistryAssumption
        DEF RegistryInv, RegistryTypeOK, Checked, KeepsLock, InTable, At, Goto, Return,
            Call, HasGil, Keep, Release, python, rust
<1>1. ASSUME NEW t \in Threads, CheckFree(t) PROVE RegistryInv'
  BY <1>1 DEF CheckFree
<1>2. ASSUME NEW t \in Threads, CheckPresent(t) PROVE RegistryInv'
  BY <1>2 DEF CheckPresent
<1>3. ASSUME NEW t \in Threads, Guard(t) PROVE RegistryInv'
  BY <1>3 DEF Guard
<1>4. ASSUME NEW t \in Threads, Enter(t) PROVE RegistryInv'
  BY <1>4 DEF Enter
<1>5. ASSUME NEW t \in Threads, Insert(t) PROVE RegistryInv'
  BY <1>5 DEF Insert, Put
<1>6. ASSUME NEW t \in Threads, Delete(t) PROVE RegistryInv'
  BY <1>6 DEF Delete, Without
<1>7. ASSUME NEW t \in Threads, Sign(t) PROVE RegistryInv'
  BY <1>7 DEF Sign
<1>8. ASSUME NEW t \in Threads, Lock(t) PROVE RegistryInv'
  BY <1>8 DEF Lock
<1>9. ASSUME NEW t \in Threads, Swap(t) PROVE RegistryInv'
  BY <1>9 DEF Swap, Put, Without, TableCalls
<1>10. ASSUME NEW t \in Threads, FinaliserReturns(t) PROVE RegistryInv'
  BY <1>10 DEF FinaliserReturns
<1>11. ASSUME NEW t \in Threads, FinaliserCalls(t) PROVE RegistryInv'
  BY <1>11 DEF FinaliserCalls
<1>12. ASSUME NEW t \in Threads, Unlock(t) PROVE RegistryInv'
  BY <1>12 DEF Unlock
<1>13. CASE UNCHANGED registryVars
  BY <1>13 DEF registryVars
<1> QED
  BY <1>1, <1>2, <1>3, <1>4, <1>5, <1>6, <1>7, <1>8, <1>9, <1>10, <1>11, <1>12, <1>13
     DEF RegistryNext, Begin, Step

(* The invariant holds always.                                             *)
THEOREM RegistryInvariant == RegistrySpec => []RegistryInv
BY RegistryInitInv, RegistryStepInv, PTL DEF RegistrySpec

(* The tables hold what was put in, the extension's under upper-case       *)
(* names, and the write guard belongs to the one thread in the table.      *)
THEOREM RegistryTypeAlways == RegistrySpec => []RegistryTypeOK
<1>1. RegistryInv => RegistryTypeOK
  BY DEF RegistryInv
<1> QED
  BY <1>1, RegistryInvariant, PTL

(* A thread that keeps the interpreter lock while it waits for the table   *)
(* waits for a finaliser: without finalisers the two locks never wait for  *)
(* one another.                                                            *)
THEOREM OnlyFinalisersBlockAlways == RegistrySpec => []OnlyFinalisersBlock
<1>1. RegistryInv => OnlyFinalisersBlock
  <2> SUFFICES ASSUME RegistryInv, NEW t \in Threads, gil = t, pc[t] = "lock",
                      writer \notin {NoThread, t}
               PROVE  pc[writer] = "finalise"
    BY DEF OnlyFinalisersBlock, At
  <2>1. writer \in Threads /\ pc[writer] \in {"lock", "swap", "finalise", "unlock"}
    BY DEF RegistryInv, RegistryTypeOK, InTable
  <2>2. gil # NoGil
    BY RegistryAssumption
  <2>3. pc[writer] \notin {"lock", "swap", "unlock"}
    BY <2>1, <2>2 DEF RegistryInv, KeepsLock
  <2> QED
    BY <2>1, <2>3
<1> QED
  BY <1>1, RegistryInvariant, PTL

(* A step that changes the dict of handlers is an insertion or a deletion, *)
(* and it changes what stands under the name of that call alone.  Where an *)
(* insertion meets a handler, the invariant says that it came in after the *)
(* check.                                                                  *)
LEMMA LossStep ==
  ASSUME RegistryInv, RegistryNext, NEW n \in DOMAIN algorithms
  PROVE  \/ n \in DOMAIN algorithms' /\ algorithms'[n] = algorithms[n]
         \/ \E t \in Threads : /\ At(t, "remove") /\ At(t, "idle")'
                              /\ req[t].name = n /\ n \notin DOMAIN algorithms'
         \/ \E t \in Threads : /\ At(t, "insert") /\ At(t, "idle")'
                              /\ req[t].name = n /\ n \in fresh[t]
<1>1. ASSUME NEW t \in Threads, Insert(t), req[t].name = n
      PROVE  At(t, "insert") /\ At(t, "idle")' /\ n \in fresh[t]
  BY <1>1 DEF Insert, Return, Goto, At, RegistryInv, RegistryTypeOK, Checked
<1>2. ASSUME NEW t \in Threads, Insert(t), req[t].name # n
      PROVE  n \in DOMAIN algorithms' /\ algorithms'[n] = algorithms[n]
  BY <1>2 DEF Insert, Put
<1>3. ASSUME NEW t \in Threads, Delete(t), req[t].name = n
      PROVE  At(t, "remove") /\ At(t, "idle")' /\ n \notin DOMAIN algorithms'
  BY <1>3 DEF Delete, Without, Return, Goto, At, RegistryInv, RegistryTypeOK
<1>4. ASSUME NEW t \in Threads, Delete(t), req[t].name # n
      PROVE  n \in DOMAIN algorithms' /\ algorithms'[n] = algorithms[n]
  BY <1>4 DEF Delete, Without
<1>5. ASSUME NEW t \in Threads, Begin(t) \/ Step(t), ~Insert(t), ~Delete(t)
      PROVE  algorithms' = algorithms
  BY <1>5 DEF Begin, Step, CheckFree, CheckPresent, Guard, Enter, Sign, Lock, Swap,
              FinaliserReturns, FinaliserCalls, Unlock, python
<1> QED
  BY <1>1, <1>2, <1>3, <1>4, <1>5 DEF RegistryNext

(* A handler that was there when a registration began is never lost to it, *)
(* whatever lines of other threads come between its check and its change.  *)
THEOREM LostOnlyToOverlapAlways == RegistrySpec => LostOnlyToOverlap
<1> DEFINE Kept(n) == n \in DOMAIN algorithms' /\ algorithms'[n] = algorithms[n]
<1>1. RegistryInv /\ [RegistryNext]_registryVars =>
        [\A n \in DOMAIN algorithms :
           \/ Kept(n)
           \/ \E t \in Threads : /\ At(t, "remove") /\ At(t, "idle")'
                                /\ req[t].name = n /\ n \notin DOMAIN algorithms'
           \/ \E t \in Threads : /\ At(t, "insert") /\ At(t, "idle")'
                                /\ req[t].name = n /\ n \in fresh[t]]_registryVars
  BY LossStep
<1> QED
  BY <1>1, RegistryInvariant, PTL DEF RegistrySpec, LostOnlyToOverlap
=============================================================================
