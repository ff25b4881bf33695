# Verification of webtoken

TLA+ models of webtoken, a Python package over a Rust extension that reads and writes JSON Web
Tokens (JWT, JWS, JWE) and Keys (JWK), PASETO v4 tokens and the text form of PASETO keys
(PASERK). The models are written from `src/webtoken/webtoken.py` and the Rust files under
`src/src/`. TLC checks them on small instances; TLAPS proves for every instance all of it but
liveness.

    tlc -workers 2 -config MCJwtService.cfg MCJwtService     # one run
    tlapm JwtService_proofs.tla                              # one proof module

## 1. The system

webtoken keeps little state of its own. Its calls are long chains of guards with early
returns, many decisions are taken twice, and the calls run in threads that share dicts, a clock
and the interpreter lock. What can go wrong is mostly a disagreement: of two readers, of a writer
and a reader, of a check and a later use.

| Component | Source | State | Operations | Modelled in |
|---|---|---|---|---|
| Claim checks | `jwt.rs` | none; reads the clock | `validate_claims` | JwtClaims |
| JWT/JWS calls | `webtoken.py`, `lib.rs`, `jwt.rs`, `jws.rs`, `algorithms.rs` | `options` of each PyJWT and PyJWS | `encode`, `decode`, `decode_complete`, `decode_async` | JwtToken, JwtTrip |
| Threads | `webtoken.py`, `lib.rs` | a frame per call, the interpreter lock, dicts of the caller | the steps of the calls | JwtService |
| PASERK keys | `paseto.rs`, `lib.rs`, `webtoken.py` | `Key` objects | `Key.new`, `from_asymmetric_key_params`, `from_paserk`, `to_paserk`, ids, `paserk_wrap`, `paserk_unwrap` | Paserk, PasetoKey |
| PASETO tokens | `webtoken.py`, `lib.rs`, `paseto.rs` | the caller's payload dict; reads the clock | `paseto_encode`, `paseto_decode` | Paseto, PasetoService |
| JWKs and handlers | `jwk.rs`, `pyjwt_jwk_api.rs`, `webtoken.py` | the keys of a set | `PyJWK`, `PyJWKSet`, `public_key`; `prepare_key`, `sign`, `verify`, `to_jwk`, `from_jwk` of the handlers | Jwk, JwkAlgorithms, KeySetService |
| Algorithm registry | `webtoken.py`, `lib.rs` | a dict per PyJWS; a table of providers behind an RwLock | `register_algorithm`, `unregister_algorithm`, the guard of `PyJWS.encode` | AlgorithmRegistry |
| JWE | `jwe.rs`, `lib.rs` | none | `encrypt_compact`, `decrypt_compact` | Jwe, JweService |
| Key containers | `key_utils.rs`, `crypto_parsing.rs` | none | PEM, DER, SSH, X.509 parsing | what it yields, in JwkAlgorithms |
| Primitives | `crypto.rs` | none | signatures, MACs, ciphers | as ideal operators |

**How they interact.** `decode` of webtoken.py merges three dicts and calls
`decode_complete` of lib.rs. That runs its guards under the interpreter lock, peeks at the
token's algorithm to load the key, then releases the lock (`py.detach`) and calls
`jwt::decode`, which parses the token again, checks the signature, reads the clock and
calls `validate_claims`. `encode` goes through `rust_lib.sign` and keeps the lock.
`paseto_decode` calls the engine for each key of a list and then the same `validate_claims`.
A PyJWT program holds a handler, which turns texts into PyJWKs and signs through `raw_sign`;
a verifier finds a PyJWK by the kid of an unverified header and hands it to `decode`.
`PyJWS.encode` asks its dict of handlers for a name and signs with the extension all the
same; nothing reads the table of providers. JWE calls share only the key forms.

**What is hard in it.**

* *Interleaving and stale state.* Dicts are copied and updated in several steps of a call
  (`webtoken.py:76`), the clock is read late in the call (`jwt.rs:206`), and `paseto_encode`
  writes into the caller's dict (`webtoken.py:873`).
* *Two readers of one thing.* The algorithm is peeked by one decoder and parsed by another
  (`lib.rs:564`); PASERK has two writers and two readers (`paseto.rs:28`, `lib.rs:1057`).
* *Order of checks.* Eleven claim checks with flags and early returns (`jwt.rs:208`).
* *Representations.* An Ed25519 key has 32 or 64 bytes, a PyJWK two halves, a claim can be text.
* *Partial failure.* A list of keys swallows errors (`webtoken.py:914`); a key set drops keys
  silently (`jwk.rs:17`).
* *Scheduling.* An encoder keeps all waiting for the lock (`lib.rs:646`); a provider is
  dropped, with Python code to run, under a write guard (`lib.rs:533`); a name is looked up
  in one line and inserted in another (`webtoken.py:321`).

The `hazards` of `PROJECT.json` list them, with the properties that would notice.

**What makes each component right.** Claims: the verdict is a condition on the claims that
does not depend on the order of the checks, and time moves it one way. Tokens: what is
signed is accepted, what is accepted was signed, and a check is only skipped on request.
Threads: a call answers as if in one instant, and it answers. PASERK: a key survives any
chain of exports and imports, and a protected one opens for its secret alone. PASETO: the
same, over a list of keys and a moving clock. Registry: a handler is lost only to a removal or
to a registration that overlaps its own, and calls end. Keys and sets: every form of a key is one
key, the key a token names is found, and what is published cannot sign. JWE: a message opens
for its recipients, and only as a whole.

## 2. The modules

    Verdict
      JwtClaims                 validate_claims, stage by stage
        JwtToken                one token: merge, guards, key loading, parse, signature, encode
          JwtPolicy             when a token is acceptable: one condition, no order
            JwtClaimsClock      a claim set under a clock         MCJwtClaims
            JwtTrip             one token on its way              MCJwtToken
            JwtEnvironment      threads' requests, dicts, tokens
              DecodeContract    the abstract decode: two looks, one instant
              JwtService        the steps of concurrent calls
                JwtRefinement   JwtService implements DecodeContract   MCJwtService
          Jwk                   JWKs, PyJWK, PyJWKSet
            JwkAlgorithms       the handlers, and reading of PEM and SSH
              KeySetService     an issuer, a published set, a verifier   MCKeySet
            Jwe                 encrypt_compact and decrypt_compact
              JweService        messages and mixtures of them            MCJwe
      Paserk                    writers, readers and ids of PASERK
        PasetoKey               Key and the universal parser
          PaserkLife            a key passed from program to program   MCPaserk
          Paseto (+ JwtClaims)  paseto_encode and paseto_decode, one key
            PasetoService       payload dict, clock, lists of keys     MCPaseto
    AlgorithmRegistry           two tables of algorithms, two locks      MCAlgorithmRegistry

The algorithms are pure operators; the state machines are thin modules above them.
What is proved of a module `M` stands in `M_proofs`: JwtClaims_proofs has the verdicts as
operators, JwtClaimsClock_proofs, JwtTrip_proofs and JwtService_proofs extend it, and
PasetoService, PaserkLife and JweService have theirs. Handlers_proofs is about the handlers in
use (KeySetService) and their tables (AlgorithmRegistry). A chain of Rust checks with `?`
is written `first ?? second ?? third`, where `??` returns its left side unless that is Ok.
The `map` of `PROJECT.json` has the lines of every definition. Operators whose name has an
underscore (`Opens_AnyFooter`) are mutations: plausible bugs, which stand before the definition
they would replace; each breaks a property.

**JwtClaims.** A claim is a record with a type (`num`, `datestr`, `nan`, `str`, `arr`,
`bool`, `null`, `obj`). Every check of `validate_claims` is one operator and
`ValidateClaims` their chain. Instants are integers in units of 1/`Resolution` second,
since claims are floats while a leeway is a whole number of seconds.

**JwtToken.** A header shows its `alg`, its `b64` and whether the narrow reader
`peek_algorithm` can read it (`plain`). A signature is the record of what it was made over
and with which bytes. `Prepare` is `decode_complete` up to `py.detach`, `Examine` is
`jwt::decode` up to the claims, `CheckClaims` the rest; `Decode` is their sequence and
`Encode` the way through PyJWT or PyJWS and `sign`. The asynchronous wrapper is an
entry of its own.

**JwtTrip.** `enc` is an encode call, `dec` the decode call made of what arrived; `Send` has
the one between the other. `Defaults` is the options dict of an instance that was given none,
and `Peer` the half of a key that a verifier holds.

**JwtService.** `pc` has a value for each place where another thread can run: after the
copy of the options, after the merge, after the guards, after the signature, after the
claims. Steps under the lock need `HasGil`; the detached ones do not. `gil` is held across
steps by an encoder only. `EditDefaults`, `EditShared` and `Tick` are application and clock.

**PaserkLife.** One program at a time has a `Key` (`key`), writes it with `to_paserk`
(`Export`) or `paserk_wrap` (`WrapOut`), and the next reads it with `from_paserk`
(`Import`) or `paserk_unwrap` (`ImportBytes`). Texts can be relabelled or spoilt on their
way. `first`, `sent` and `kept` are history. Bytes are sequences of 32-byte blocks: legal
keys have one block or two, and the empty sequence and longer ones stand for wrong lengths.

**PasetoService.** `Encode` is one call of `paseto_encode`, with the dates it stamps into
`dict` even when it fails later. `Begin`, `Try` and `GiveUp` are `paseto_decode`: one `Try`
for each key, with the clock running between them. `Alter` and `Damage` are what can happen
to a text. `own` and `made` are history.

**AlgorithmRegistry.** `pc` has a value for each line a thread can stop before.
`CheckFree`/`Insert` and `CheckPresent`/`Delete` are the two lines of the methods of PyJWS
(calls their check refuses change nothing and are left out), `Guard`/`Sign` is its `encode`.
`Enter`, `Lock`, `Swap`, `Unlock` is a call on the table of providers: it takes the
interpreter lock, waits for the write guard without giving that lock up, changes the map, and
drops what the map gave back. If that was the last reference and its class has a finaliser,
Python runs there (`finalise`), under the guard, and may let other threads in or call the
table again. `gil` is `NoGil` throughout for a free-threaded interpreter. `fresh` is
history: the names whose handler came in after the check of a registration under way.

**KeySetService.** `own` is the issuer's key as a handler of webtoken.py took it (`LoadKey`
from text, `Import` from a JWK); `Publish` appends what `to_jwk` makes of `public_key()`,
`PublishOther` what somebody else put there, `Withdraw` takes keys out, and `Fetch` loads the
document as a PyJWKSet, whose load may fail. A JWK has the names of its members and of those
that do not decode; a member's value is known by the pair it is from. A token is encoded and
decoded by the operators of JwtToken, with the half of the PyJWK that Jwk says is handed out.

**JweService.** One action, `Encrypt`; a call keeps the interpreter lock and shares no
state. A content key is the record of what it was made from, a box opens under the key it was
closed with, and a tag is the record of what was authenticated. Random values are the number
of the message. A header may come from an earlier message.

## 3. The runs

| Run | Checks | Bounds |
|---|---|---|
| `claims` | `TypeOK`, `VerdictIsPolicy`, `LeewayOnlyWidens`, `ExpiredForGood`, `TimeOnlyExpires` | about 251,000 states |
| `token` | `TypeOK`, `DecodeIsPolicy`, `RoundTrip`, `OnlyWhatWasSigned`, `SecretIsNoPublicKey`, `LaxOnlyIfAsked` | about 966,000 states |
| `service` | `TypeOK`, `Authentic`, `ValidDuringCall`, `ContractSpec` | 2 threads, about 193,000 states |
| `service_live` | `CallsReturn` | 2 threads, one value of each dict, about 12,700 states |
| `paserk` | `TypeOK`, `KeyKept`, `OnlyTheRightSecretOpens`, `ReadersAgree`, `WrittenOpens` | about 95,500 states |
| `paseto` | `TypeOK`, `Authentic`, `ValidDuringCall`, `RefusedByEveryKey`, `RoundTrip` | about 286,000 states |
| `registry` | `RegistryTypeOK`, `OnlyFinalisersBlock`, `LostOnlyToOverlap`, `CallsReturn` | 2 threads, about 42,600 states |
| `keyset` | `TypeOK`, `SignerIsFound`, `AcceptsOnlyPublished`, `NothingToSignWith`, `HandlerRoundTrip` | sets of 2 keys, about 100,600 states |
| `jwe` | `TypeOK`, `RoundTrip`, `OnlyWhatWasSealed` | 2 messages, about 12,200 states |
| `claims_nan`, `paserk_seal`, `paseto_expiry` | one property each, violated: section 4 | as above |

**claims.** `validate_claims` accepts exactly what `ClaimsAcceptable` describes, for every
combination of a date in each form (number, text, NaN, wrong type, null, absent) and of an
audience, issuer, subject and id in each form, with every flag that matters. Six instants at two
per second reach every date before, at and after it, with a leeway of zero and of one second.
`Questions` has dates and names apart, since no check reads both.

**token.** A behaviour has at most one step: an encode request, then a decode request for what
arrived. All 22 keys, eleven algorithm names, three entry points and four `b64` headers are
encoded; 36 of the requests are also decoded if they succeed, their tokens arriving in up to
twelve forms (as sent, changed, cut short, signed elsewhere), with several keys, four entry points
and the option settings that change a guard. `Instants` lie before and after the expiry.
`RoundTrip` gives each token of a `Coherent` request, whose key is of the algorithm's kind, to
three entry points with the peer of its key; they accept it exactly where its claims are
acceptable, PyJWS everywhere. Other keys sign too (`IsSeed`, section 4).

**service.** Two threads suffice for every pair of interleaved steps, and a third has no lock or
dict of its own to add. The issued tokens start with one from another library. `MaxTime = 1` lets
the clock pass the expiry during a call; two values of each dict let an edit fall before or after
each look. Threads are symmetric. `ContractSpec` is the refinement: every behaviour of the steps
is one of `DecodeContract`, in which a call looks at the instance's options, then at the caller's
dict, and answers in one instant by the order-free condition. A pair of edits between the two
looks can be seen half, in the code as in the contract.

**service_live.** Fairness is strong for the steps of a decode and weak for the end of an
encode. A decode step under the lock is disabled whenever an encoder signs; the
interpreter hands its lock to every waiting thread in the end. The signing thread is never
disabled. Nothing is assumed of callers or the clock.

**paserk.** One symmetric key and one Ed25519 pair in every form an application has (raw,
64-byte pair, JWK as dict and as text, PEM, PASERK); two secrets of each kind, so that there is
a wrong one; secrets of no and of two blocks; an X25519 pair and an Ed25519 pair that unseals;
two pairs of secrets at once. `MaxBlocks` stops `paserk_wrap`, which takes keys of any length,
from growing them. The number of exports and imports is not bounded.

**registry.** Two threads suffice for two checks to meet, and for one to wait for
the other's guard; a third would only wait as well. One name in two spellings tells the dict of
PyJWS, which takes names as they are, from the table, which makes them upper case. One filter
leaves no default in, so that a registration can succeed; two handlers are told apart; one
provider has a finaliser and one has none. Fairness is strong for the steps of a call, as in
`service_live`; the RwLock, too, wakes every waiting thread. `CallsReturn` leaves out the calls
that `Wedged` describes, which really wait for ever: a finaliser that uses its own table, or one
that lets a thread run which waits for the guard with the interpreter lock. `OnlyFinalisersBlock`
says that nothing else blocks.

**keyset.** Eleven keys as text (every family, an EC key without its point, a label no parser
takes, Ed448), two PyJWKs that do not sign as their kind does (a public half, a
32-byte secret declared EdDSA) and four JWKs (a curve without PEM, a coordinate
that does not decode, an RSA key with some CRT members) with five handlers, so that each family
has one and a key can come to the wrong one. Two places in a set are enough for a key and what
stands before or after it: an encryption key, a malformed one or another key of the same name.
The tokens are all those keys can issue, with a kid, without one and with one that is no string.
Some keys sign what their set refuses (section 4): `OfItsKind` leaves out a PyJWK in the HMAC
handler that is no secret, `IsSigner` a public half, `DeclaresItsKind` a JWK with the alg of
another kind.

**jwe.** Twelve keys and 26 headers: every family of key management, each with a content
encryption whose size the key decides, one of a fixed size and the composite. Two messages
mix segments and reuse a header; every mixture of five segments is decrypted with every key, and
messages respelled, without their encrypted key or cut short. No deadlock check:
the run ends with both messages sent.

**paseto.** Two symmetric keys and a pair, as Key objects, bytes and text; calls that fail
before and after the dates are stamped; lists of up to three keys, the wrong ones first.
`MaxTokens = 1` with texts that circulate besides the token itself; `MaxTime = 2` passes the
expiry between two keys of one call. Resolution is one, for no claim here has a fraction of a
second. The expiry run allows two tokens, as reuse needs.

## 4. Where code and documents disagree

Each is a run of its own with the property the document states.

* `claims_nan`: `exp: "nan"` passes "exp must be a number" (`jwt.rs:84`) and never expires.
* `paserk_seal`: `paserk_wrap` seals to the public key *of* the public key it is given
  (`paseto.rs:885`); what it seals to a public key nobody opens.
* `paseto_expiry`: a payload dict used twice keeps the expiry of the first token.

Seen while modelling, without a run of their own:

*Tokens.*

* `peek_algorithm` reads two base64 alphabets where the parser reads four (`lib.rs:781`;
  "Try all variants", `py_utils.rs:18`), so a good ES256 token of another library with a padded
  header is refused. `DecodeIsPolicy` has this in its policy.
* `decode_async` (`README.md:79`) fails on every call: `asyncio` is not imported, and `decode`
  gets nine positional arguments (`webtoken.py:226`).
* `encode` keeps the interpreter lock although `README.md:69` says that encode and decode release
  it (`CallsReturn` shows what remains true).
* A PyJWK whose algorithm is not HS256 needs an `algorithms` list (`lib.rs:419`).

*PASERK and PASETO.*

* `to_peer_paserk_id` raises for a 64-byte secret key, which is what every PASERK yields
  (`lib.rs:1046`, against `webtoken.py:1183`); `KeyKept` says what holds where it answers.
* A public Ed25519 JWK given as text becomes a secret key (`webtoken.py:1052`).
* `Key.decrypt`, `sign` and `verify` call functions the extension does not export.

*Registry, keys and JWE.*

* Of two threads that register under one free name both can pass the check: the second handler
  replaces one whose registration succeeded, against "Algorithm already has a handler."
  (`webtoken.py:321`). `LostOnlyToOverlap` says what remains true.
* A registered handler is never used to sign or verify: `PyJWS.encode` only asks whether the
  name is there, `decode` does not ask, and nothing reads the providers (`lib.rs:529`).
* `get_default_algorithms` has `RSAAlgorithm` under the PS names, which signs with PKCS #1 v1.5
  (`webtoken.py:761`).
* An oct JWK without an alg is an HS256 key, so the HS512 handler cannot sign with it; an X25519
  JWK is usable only with an alg or a hint (`jwk.rs:78`).
* The HMAC handlers take an `ecdsa-sha2-` public key for a secret and any PyJWK
  (`webtoken.py:589`).
* Any 32 raw bytes sign EdDSA as a seed (`crypto.rs:657`), be they a secret or the `x` of a public
  JWK; the same bytes verify nothing.
* A secp256k1 JWK that declares ES256 signs with ES256K under an ES256 header, which decode
  refuses (`pyjwt_jwk_api.rs:561`).
* `pem_to_jwk` refuses a PEM file that begins with EC PARAMETERS (`key_utils.rs:237`).
* RSA-OAEP uses SHA-256 (`crypto.rs:151`), key wrapping and GCM of 192 bits always fail, and
  ECDH-ES ignores an encrypted key.
* Any 32 bytes are an X25519 key (`crypto_parsing.rs:58`): encryption to a private X25519 PEM or
  to an Ed25519 JWK gives a token that nobody opens. `Recipient` leaves those out.

## 5. What is proved

The first two theorems are about operators. The others state, for every value of the constants,
each invariant and action property of the passing runs.

| Module | Theorem | Property |
|---|---|---|
| JwtClaims_proofs | `ClaimsVerdictIsPolicy` | `validate_claims` returns Ok exactly on the acceptable claim sets |
| | `DecodeVerdictIsPolicy` | so does all of decode: guards, parse, signature and claims |
| JwtClaimsClock_proofs | `TypeAlways`, `PolicyAlways`, `WideningAlways` | `TypeOK`, `VerdictIsPolicy`, `LeewayOnlyWidens` |
| | `ExpiredForGoodAlways`, `TimeOnlyExpiresAlways` | the two action properties of the clock |
| JwtTrip_proofs | one `<invariant>Always` each | the six invariants of `token` |
| JwtService_proofs | `TypeCorrect`, `AuthenticAlways`, `ValidDuringCallAlways` | its three invariants |
| | `ServiceImplementsContract` | `ContractSpec`: the refinement |
| PasetoService_proofs | one `<invariant>Always` each | the five invariants of `paseto` |
| PaserkLife_proofs | one `<invariant>Always` each | the five invariants of `paserk` |
| JweService_proofs | one `<invariant>Always` each | the three invariants of `jwe` |
| Handlers_proofs | one `<invariant>Always` each | the invariants of `keyset` and `registry` |
| | `LostOnlyToOverlapAlways` | the action property of `registry` |

### Assumptions

The numbers (`Resolution`, `MaxTime`, `MaxTokens`, `MaxBlocks`, `MaxSent`) are natural. The
rest is the shape of what a caller can pass, in the module that declares the constant, and
TLC evaluates it on the values of every run.

* `QuestionsAssumption`, and `ShapeAssumption` of JwtTrip, JwtEnvironment and PasetoService:
  claims, settings, flags, expectations and option dicts are what the Rust types let through;
  a dict has any names in it, but booleans for flags. In JwtTrip a key has a half of its
  kind: an SSH text is public and never symmetric.
* `EnvironmentAssumption`: a token from elsewhere carries the signature of the key it is
  recorded with.
* `IsDocument` (PASETO, PASERK): a private half comes with its own public half, in a JWK and
  in 64 raw bytes. `IsUsing`: no real secret is the mark for "no secret".
* JweService: names of keys mean what they say: two keys of one owner are of one kind, and
  no RSA key has 32 bytes.
* `RegistryAssumption`: upper case is reached in one step, and the marks for "no thread", "no
  lock" and "no object" are none of the things they stand beside.
* `KeySetAssumption`: a kid the issuer gives is none of the marks for "no kid", "empty" and "no
  string". `JwkAssumption`: a JWK is in one piece, no curve is called "RSA", "OKP" or "oct", and a
  PyJWK that somebody holds was loaded from such a JWK. `PayloadAssumption`: the payload has no
  claim that could be refused.

### Arguments

*Claims and decode.* One lemma for each stage says when it is Ok, `Sequencing` that a chain is
Ok when all its stages are, and their conjunction is rearranged into the policy;
`DecodeVerdictIsPolicy` does so once more with the guards, the parse and the signature stage
in front. The policy states in its own words which options and expectations are readable, which
algorithms permitted and which keys fit; `ReadableIsClear`, `AllowedIsPermitted` and
`LoadsIsFit` equate these with the code's. It shares `Peek`, which `SecretIsNoPublicKey`
is about. For the clock, `StagesOverTime` says how the three stages that read it move; their
errors are kept apart, so that an early return hides no change.

*JwtTrip.* `IInv` only says where the two requests come from; the work is in operators. What
is accepted meets the policy, and `OnlyWhatWasSigned` and `SecretIsNoPublicKey` are read off
it. `LaxOnlyIfAsked` needs that the merge of three dicts, in each of its orders, leaves
`verify_exp` on unless a caller's dict or argument speaks of it (`StaysOn`, `ExpiryIsOn`). For
`RoundTrip`, `Signing` says what a request must be like to be signed, `PeerBytes` that the
verifier's half opens what the signer's closed, and `UsualDict` what the defaults are after the
merge; the policy then has only the claims left.

*JwtService.* `TypeOK` is inductive once every stage is known to end in Ok or a known error.
`Authentic` is not: it speaks of a thread that returns, and what it needs was decided two steps
before. `IInv` adds *Provenance* (every issued token is a token with the signature of its
recorded signer) and *Examined* (a thread past the signature check, with no error, has a request
and options for which that check succeeds). A successful check says that the bytes, header and
payload signed are those presented, and the signature then names its signer. `CInv` adds what
the refinement needs: *Typed*, *Framed* (an idle thread has an empty frame, as its abstract call
has), *Guarded* (a thread past the guards passed them) and *Timely* (an accepted call passed the
claims at an instant since it began). `ValidDuringCall` follows by
`DecodeVerdictIsPolicy`.

*The refinement.* One lemma for each action (`CallStep`, `SeeInstanceStep`, `StageStep` and
others) shows the step of the contract it is, or that it stutters. The contract answers in one
step, by the policy at one instant; the code answers in three, so the step that ends a call
with Ok uses *Guarded*, *Examined* and *Timely* at once.

*PasetoService.* `IInv` says of what was made that the engine made it (`Making`), of every text
on the wire that its body was made or opens for nobody (`Circulating`), and of a call that its
keys, clock and result belong together (`IsCall`, `Found`, `Refused`). `EngineMakes` and
`EngineOpens` are the heart: the body shows the root of the key that closed it, and only a key
of that root opens it, in each of the forms the universal parser reads (`UniversalRoot`,
`PublicRoot`). `Refused` is inductive only because each refusal is remembered with an instant of
its own, not with the present one.

*PaserkLife.* `KeyKept` is not inductive, since a text in transit must remember the key it was
written from. `IInv` says that the text is the original, or one altered in data or header
(`Written`), and that, while every import was of an original, the sender's key is the first key
(`Kept`). `FourKinds` sorts texts by their writer: plain, wrapped, under a password, sealed.
`BoxTells` and `RightSecret` say that a box names the secret that opens it and the header it is
under, and `ThreeWays` that `paserk_unwrap` has three branches for them.

*JweService.* `IInv` says that every message is *Sealed*: encrypting again with the header it
came out with, as the same number, gives the same message. So it does not matter that a header
was reused: what encryption writes does not depend on what was there (`Owned`). `KeyComesBack`
goes through the families of key management. For mixtures, a tag names its header, content key,
nonce and ciphertext, the content key names its message and recipient, and so four segments are
of one message.

*KeySetService.* `IInv` says that the own key is what a handler made of a key or JWK it took
(`OwnInv`), and that the documents hold nothing but entries and the set is what `KeySet` makes
of the fetched one (`SetInv`). The rest is about operators. `KeySet` is a loop over a document
of any length; `Unfold` gives one step of it and `KeySetOf`, by induction over the length, what
it has gathered: the usable keys, and of those with one name the first comes first.
`SignerIsFound` adds that what is published is usable (`EntryOf`, `PublicOf`) and verifies what
the private half signed (`SignerKind`, `EntryVerifies`, `TokenAccepted`). `NothingToSignWith`
and `HandlerRoundTrip` go through the families of handlers (`OfFamily`, `RawSigning`,
`RawVerifying`) and the forms of a key (`FormOf`, `ParsedKind`).

*AlgorithmRegistry.* `OnlyFinalisersBlock` follows from `KeepsLock`: a thread past `Enter`,
except in a finaliser, has the interpreter lock, if there is one, so no second thread is in
the table's own code. `LostOnlyToOverlap` (`LossStep`) and the contents of the tables follow from
`Checked`: while a registration is between its lines, its name is free or `fresh` has it.

### What is only model-checked

`CallsReturn`, of `service_live` and of `registry`, which is liveness under fairness: out of
the prover's reach, as ENABLED is. No prover here can use the library's induction theorems, whose
parameter is an operator, nor recursive operators; the one loop of the models is a recursive
function, with its induction over a set of numbers (`Induction`).

## 6. What is not modelled

Cryptography is ideal: a forged signature, a wrong tag and a weak key do not exist, nor does the
arithmetic of `crypto.rs`. Of key containers there are the members a PEM or SSH text yields;
X.509 certificates and DER are not read. Base64 is reduced to who can read a segment. Subclass
hooks (`_decode_payload`), custom JSON encoders and `Token.new` are left out, as are the methods
of `Key` that encrypt and sign, and `paseto_sign` and `paseto_verify`, which add only an ideal
signature. Of the handlers, that of "none", key lengths and `public_numbers` are left out. JWE
cuts `p2c` to 32 bits on both sides of a header that is authenticated; the model does not.
Panics count as refusals. Lists within claims are sets: only membership is asked.

The hazards of `PROJECT.json` without a property are open: raw bytes that read as a PASERK,
panics as outcomes of their own, the purpose of a sealed or signing key, and subclass hooks.
