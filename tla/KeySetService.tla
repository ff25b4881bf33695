---------------------------- MODULE KeySetService ----------------------------
(***************************************************************************)
(* An issuer that loads its keys through the handlers of webtoken.py,      *)
(* signs tokens that name their key by kid, and publishes its public keys  *)
(* as a JWK set; and a verifier that loads the set now and then and looks  *)
(* up, for each token, the key that the unverified header names.  Other    *)
(* issuers put keys of their own in the set, usable or not.                *)
(*                                                                         *)
(* The two programs are external; what they call is not.  The verifier     *)
(* allows the one algorithm that the key names.                            *)
(***************************************************************************)
EXTENDS JwkAlgorithms

CONSTANTS
  Keys,       \* the keys, in any form, that issuers hold
  Jwks,       \* JWKs, as parsed from text, that issuers hold
  Published,  \* JWKs that others publish
  Handlers,   \* handlers in use, by name
  Kids,       \* names of keys that the issuer gives
  Unnamed,    \* the kid of a token without one
  Payload,    \* what is signed
  MaxKeys     \* bound: keys in a set

ASSUME KeySetAssumption ==
  /\ MaxKeys \in Nat /\ Handlers \subseteq DOMAIN Handler
  /\ Kids \cap {Unnamed, "", "nonstring"} = {}

(* A JWK in one piece; no curve has the name of a kty.                     *)
IsJwk(jwk) ==
  /\ jwk = [kty |-> jwk.kty, crv |-> jwk.crv, has |-> jwk.has, bad |-> jwk.bad,
            alg |-> jwk.alg, use |-> jwk.use, kid |-> jwk.kid, of |-> jwk.of,
            len |-> jwk.len]
  /\ jwk.crv \notin {"RSA", "OKP", "oct"}

(* A PyJWK among the keys came out of a JWK, without an algorithm_hint.    *)
IsHeld(key) ==
  /\ key = PyJwk(key.jwk, "")
  /\ IsJwk(key.jwk) /\ Normalizes(key.jwk, "") = Ok

ASSUME JwkAssumption ==
  /\ \A jwk \in Jwks \cup Published : IsJwk(jwk)
  /\ \A key \in Keys : key.form = "jwk" => IsHeld(key)

(* Claims that nobody can object to.                                       *)
ASSUME PayloadAssumption ==
  /\ Payload = Claims(Payload.claims)
  /\ DOMAIN Payload.claims \subseteq {"iss"}
  /\ Has(Payload.claims, "iss") => IsString(Payload.claims["iss"])

VARIABLES
  own,        \* the issuer's key: its handler, its PyJWK or secret, its kid
  document,   \* the set as published: JWKs
  fetched,    \* the document as the verifier last loaded it (history)
  cached      \* the verifier's PyJWKSet

vars == <<own, document, fetched, cached>>

NoKey == [handler |-> "none"]

Init ==
  /\ own = NoKey
  /\ document = <<>>
  /\ fetched = <<>>
  /\ cached = <<>>

(***************************************************************************)
(* The issuer.                                                             *)
(***************************************************************************)
LoadKey ==
  /\ \E name \in Handlers, key \in Keys, kid \in Kids :
       /\ Prepares(Handler[name], key) = Ok
       /\ own' = [handler |-> name, key |-> PreparedKey(Handler[name], key), kid |-> kid]
  /\ UNCHANGED <<document, fetched, cached>>

Import ==
  /\ \E name \in Handlers, jwk \in Jwks, kid \in Kids :
       /\ Imports(Handler[name], jwk) = Ok
       /\ own' = [handler |-> name, key |-> PyJwk(jwk, ""), kid |-> kid]
  /\ UNCHANGED <<document, fetched, cached>>

Holds == own # NoKey /\ own.key.form = "jwk"

(* to_jwk(key.public_key()), with the kid added.                           *)
Entry == [Exported(Handler[own.handler], PublicKey(own.key)) EXCEPT !.kid = own.kid]

Publish ==
  /\ Holds /\ Len(document) < MaxKeys
  /\ Exports(Handler[own.handler], PublicKey(own.key)) = Ok
  /\ document' = Append(document, Entry)
  /\ UNCHANGED <<own, fetched, cached>>

PublishOther ==
  /\ Len(document) < MaxKeys
  /\ \E jwk \in Published : document' = Append(document, jwk)
  /\ UNCHANGED <<own, fetched, cached>>

Withdraw ==
  /\ \E i \in DOMAIN document : document' = RemoveAt(document, i)
  /\ UNCHANGED <<own, fetched, cached>>

(***************************************************************************)
(* The verifier.  A set without a usable key is refused, and the verifier  *)
(* stays with the one it has.                                              *)
(***************************************************************************)
Fetch ==
  /\ KeySetLoads(document) = Ok
  /\ cached' = KeySet(document)
  /\ fetched' = document
  /\ UNCHANGED <<own, document>>

Next == LoadKey \/ Import \/ Publish \/ PublishOther \/ Withdraw \/ Fetch

Spec == Init /\ [][Next]_vars

(***************************************************************************)
(* Tokens: encode(payload, key, alg, headers = {"kid": ...}).  The kid is  *)
(* one more member of the signed header.                                   *)
(***************************************************************************)
Request(key, alg) ==
  [entry |-> "module", alg |-> alg, key |-> IF key.form = "jwk" THEN Held(key, FALSE) ELSE key,
   header |-> [alg |-> "", b64 |-> "absent"], payload |-> Payload, encoder |-> FALSE,
   enforce |-> FALSE]

Issues(key, alg) == Encode(Request(key, alg), Supported)

Issued(key, alg, kid) ==
  LET token  == Encoded(Request(key, alg))
      header == [kind |-> "object", plain |-> TRUE, alg |-> token.header.alg,
                 b64 |-> token.header.b64, kid |-> kid]
  IN  [token EXCEPT !.header = header, !.sig.header = header]

(* get_unverified_header: a kid that is there must be a string.            *)
UnverifiedKid(token) ==
     Require(token.header.kind = "object" /\ token.header.plain, "DecodeError")
  ?? Require(token.header.kid # "nonstring", "InvalidToken")
  ?? Require(token.header.kid # Unnamed, "KeyError")

(* decode(token, set[kid], algorithms = [set[kid].algorithm_name])         *)
Verified(token, set) ==
  LET key == ByKid(set, token.header.kid)
      req == [entry |-> "module", token |-> token, key |-> Held(key, TRUE),
              algorithms |-> Expect({AlgorithmName(key)}), options |-> NoOptions,
              verify |-> Null, leeway |-> 0, content |-> NoPayload,
              audience |-> Anything, issuer |-> Anything, subject |-> Anything]
  IN  UnverifiedKid(token) ?? HasKid(set, token.header.kid)
        ?? Decode(req, Merged(req, NoOptions, NoOptions), 0)

(***************************************************************************)
(* Properties.                                                             *)
(***************************************************************************)
(* The set is what a load of the document at that time gives, never empty  *)
(* once one was loaded, and it keeps no encryption key and no JWK without  *)
(* a kty; the own key has an algorithm, unless it is RSA or on P-192.      *)
TypeOK ==
  /\ Len(document) <= MaxKeys
  /\ cached = KeySet(fetched) /\ (fetched # <<>> => cached # <<>>)
  /\ \A i \in DOMAIN cached :
       /\ cached[i] \in {PyJwk(fetched[j], "") : j \in DOMAIN fetched}
       /\ cached[i].jwk.kty # "" /\ cached[i].jwk.use # "enc"
  /\ Holds => own.key.alg # "" \/ own.key.jwk.kty = "RSA" \/ own.key.jwk.crv = "P-192"

(* The alg the issuer signs with.                                          *)
OwnAlg == IF Holds THEN AlgorithmName(own.key) ELSE Handler[own.handler].alg

(* What stands before the own key in a document takes its place only if   *)
(* it is usable and has its kid.                                           *)
Reaches(jwks) ==
  \E i \in DOMAIN jwks :
    /\ jwks[i] = Entry
    /\ \A j \in 1..(i - 1) : jwks[j].kid = own.kid => ~Usable(jwks[j])

(* The own key as the handler of its kind holds it; HMACAlgorithm alone    *)
(* takes a PyJWK of any kind.                                              *)
OfItsKind == Holds /\ own.key.jwk.kty = Handler[own.handler].family

(* It has the half that signs for its pair: Ed25519 signs with the public  *)
(* half too, but for another one.                                          *)
IsSigner == OfItsKind /\ KeyBytes(own.key.jwk, FALSE).half # "public"

(* A JWK may declare the algorithm of another kind of key, as a secret of  *)
(* 32 bytes that declares EdDSA, or ES256 on secp256k1, for which encode   *)
(* signs with ES256K under a header that says ES256.                       *)
DeclaresItsKind ==
  OwnAlg \in Crypto \ Hmac /\ KeyKind(own.key.jwk) = KindFor(OwnAlg)

(* A token of the issuer is accepted as soon as its public key is in the   *)
(* set, and a document with that key loads: whatever form the key was      *)
(* loaded from, and whatever encryption keys, malformed or unknown ones    *)
(* stand before or after it.  (A public oct key has lost its secret.)      *)
SignerIsFound ==
  /\ IsSigner /\ DeclaresItsKind /\ own.key.jwk.use # "enc"
  /\ Issues(own.key, OwnAlg) = Ok
  =>
    /\ Reaches(document) => KeySetLoads(document) = Ok
    /\ Reaches(fetched) => Verified(Issued(own.key, OwnAlg, own.kid), cached) = Ok

(* Every token that someone with one of the keys can issue.                *)
Signers ==
  {key \in Keys : key.form = "str"}
    \cup {PyJwk(jwk, "") : jwk \in {j \in Jwks : Normalizes(j, "") = Ok}}
    \cup {Loaded(key) : key \in {k \in Keys : k.form # "str" /\ Loads(k) = Ok}}

Tokens ==
  {Issued(ka[1], ka[2], kid) :
     ka \in {x \in Signers \X Supported : Issues(x[1], x[2]) = Ok},
     kid \in Kids \cup {Unnamed, "nonstring"}}

(* The verifier accepts a token only under a signing key of its signer     *)
(* that the set it loaded last names so: a withdrawn key, a key for        *)
(* encryption and a key of another name verify nothing.                    *)
AcceptsOnlyPublished ==
  \A token \in Tokens :
    Verified(token, cached) = Ok =>
      \E i \in DOMAIN fetched :
        /\ fetched[i].of = token.sig.by.of /\ fetched[i].kid = token.header.kid
        /\ fetched[i].use # "enc"

(* public_key leaves nothing to sign with: no handler makes, with a        *)
(* published key, a signature that the own key verifies.                   *)
NothingToSignWith ==
  OfItsKind => \A i \in DOMAIN document, name \in Handlers :
    LET theirs == PyJwk(document[i], "")
        mine   == Handler[own.handler]
    IN  document[i] = Entry /\ HandlerSigns(Handler[name], theirs) = Ok =>
          HandlerVerifies(mine, own.key, Payload,
                          HandlerSignature(Handler[name], theirs, Payload)) # Ok

IsOfPair(jwk) == KeyKind(jwk) = KeyKind(own.key.jwk) /\ jwk.of = own.key.jwk.of

(* The forms of the own key that its handler takes: itself, its public     *)
(* half, what it exports and imports again, and other texts of the pair.   *)
Forms ==
  {own.key, PublicKey(own.key)}
    \cup {PyJwk(Exported(Handler[own.handler], key), "") : key \in {own.key, PublicKey(own.key)}}
    \cup {Loaded(key) : key \in {k \in Keys : /\ k.form \in {"pem", "ssh"}
                                              /\ IsOfPair(Parsed(k))
                                              /\ Prepares(Handler[own.handler], k) = Ok}}

(* What a handler signs it verifies with every form of the same key that   *)
(* has a public half: a key loaded from PEM, SSH or JWK, private or        *)
(* public, exported and imported, is one key.                              *)
HandlerRoundTrip ==
  IsSigner /\ HandlerSigns(Handler[own.handler], own.key) = Ok =>
    \A key \in Forms :
      Extracts(key.jwk, TRUE) = Ok =>
        HandlerVerifies(Handler[own.handler], key, Payload,
                        HandlerSignature(Handler[own.handler], own.key, Payload)) = Ok
=============================================================================
