------------------------------ MODULE JwtTrip ------------------------------
(***************************************************************************)
(* One token on its way: an encode call issues it, and a decode call is    *)
(* made of what arrived, which may be the token itself, another one, or    *)
(* what became of it in transit, with any key and any arguments.           *)
(***************************************************************************)
EXTENDS JwtPolicy

CONSTANTS EncodeRequests,      \* the calls that issue
          DecodeRequests(_),   \* the calls that may be made of the token of one
          Registry,            \* the algorithms a PyJWS has handlers for
          Instants             \* when a decode call can read the clock

(* What a caller can pass: a key has one of its kind's halves (an SSH text *)
(* the public one), a header                                               *)
(* says of b64 nothing, true, false or something else, and a payload is a  *)
(* claim set or bytes.                                                     *)
IsKey(key) ==
  /\ key = [form |-> key.form, kty |-> key.kty, of |-> key.of, half |-> key.half,
            alg |-> key.alg, len |-> key.len]
  /\ key.half \in IF key.kty = "oct" THEN {"secret", "public"} ELSE {"private", "public"}
  /\ key.form \in {"ssh", "badssh"} => key.half = "public" /\ key.kty # "oct"

IsEncodeRequest(req) ==
  /\ IsKey(req.key) /\ req.payload.kind \in {"claims", "text"}
  /\ req.header.b64 \in {"absent", "true", "false", "bad"}

ASSUME ShapeAssumption ==
  \A req \in EncodeRequests :
    /\ IsEncodeRequest(req)
    /\ \A d \in DecodeRequests(req) : /\ d.entry \in {"jwt", "module", "jws", "async"}
                                      /\ IsRequest(d) /\ IsDict(d.options)

VARIABLES enc,   \* the encode request
          dec    \* the decode request, or Unsent

vars == <<enc, dec>>

Unsent == [entry |-> "none"]

(* The options of a PyJWT and of a PyJWS that were given none, and of the  *)
(* module-level functions, which have none.                                *)
Defaults(entry) ==
  IF entry \in {"module", "async"} THEN NoOptions
  ELSE LET on == Names \ (IF entry = "jws" THEN {"strict_aud", "verify_sub"}
                                           ELSE {"strict_aud"})
       IN  [name \in on \cup {"require"} |-> IF name = "require" THEN Arr({}) ELSE Bool(TRUE)]

Init == enc \in EncodeRequests /\ dec = Unsent

Send ==
  /\ dec = Unsent
  /\ Encode(enc, Registry) = Ok
  /\ dec' \in DecodeRequests(enc)
  /\ UNCHANGED enc

Next == Send

Spec == Init /\ [][Next]_vars

(***************************************************************************)
(* Properties.                                                             *)
(***************************************************************************)
Options == Merged(dec, Defaults(dec.entry), dec.options)

Accepted(at) == dec # Unsent /\ Decode(dec, Options, at) = Ok

TrustedAccept(at) == Accepted(at) /\ Verifying(Options)

(* Every request, however odd, ends in Ok or in one of the known errors.   *)
TypeOK ==
  /\ dec = Unsent => Encode(enc, Registry) \in Errors \cup {Ok, "NotImplementedError"}
  /\ dec # Unsent => \A at \in Instants : Decode(dec, Options, at) \in Errors \cup {Ok}

(* The guards before the lock is released, the parse, the signature and    *)
(* the claims together accept exactly the acceptable tokens, in whatever   *)
(* order the code looks at them.                                           *)
DecodeIsPolicy ==
  dec # Unsent => \A at \in Instants : Accepted(at) <=> Acceptable(dec, Options, at)

(* The key a verifier holds for the key that signed: its public half, but  *)
(* a PyJWK as it is.                                                       *)
Peer(key) ==
  IF key.half = "private" /\ key.form # "jwk" THEN [key EXCEPT !.half = "public"] ELSE key

(* The requests whose answer a decoder can be expected to accept: the      *)
(* header names the algorithm that signed, and the key is of the kind, the *)
(* half and the declared algorithm it wants.  encode checks none of this   *)
(* for a PyJWK, nor the header's alg for the module-level functions, and   *)
(* it signs with EdDSA under any secret of 32 bytes, which verifies        *)
(* nothing then.                                                           *)
Coherent(req) ==
  LET alg == Prepared(req).alg
  IN  /\ alg = JwkAlg(req) /\ ~IsNone(alg) /\ req.key.half # "public"
      /\ req.key.kty = KindFor(alg)
      /\ req.key.form = "jwk" => req.key.alg = "" \/ SameName(req.key.alg, alg)
      /\ Prepared(req).b64 # "bad"

Answer(req, entry) ==
  [entry |-> entry, token |-> Encoded(req), key |-> Peer(req.key),
   algorithms |-> Expect({Prepared(req).alg}), options |-> NoOptions, verify |-> Null,
   leeway |-> 0, content |-> IF Prepared(req).b64 = "false" THEN req.payload ELSE NoPayload,
   audience |-> Anything, issuer |-> Anything, subject |-> Anything]

(* What encode signs for a coherent request decode accepts, for every      *)
(* entry point, key form and algorithm, with and without detached content: *)
(* nothing but its claims and the clock can stand against it, and PyJWS    *)
(* reads neither.                                                          *)
RoundTrip ==
  dec = Unsent /\ Coherent(enc) /\ Encode(enc, Registry) = Ok =>
    \A entry \in {"jwt", "module", "jws"}, at \in Instants :
      LET req  == Answer(enc, entry)
          opts == Merged(req, Defaults(entry), NoOptions)
      IN  Decode(req, opts, at) = Ok
            <=> \/ entry = "jws"
                \/ /\ enc.payload.kind = "claims"
                   /\ ClaimsAcceptable(enc.payload.claims, Settings(opts), Flags(opts),
                                       Expected(req), at)

(* decode accepts, when it verifies, only what was signed: content, header *)
(* and algorithm as they were, under the key of the signer.                *)
OnlyWhatWasSigned ==
  \A at \in Instants : TrustedAccept(at) =>
    LET token == Presented(dec)
    IN  /\ token.sig.payload = token.payload /\ token.sig.header = token.header
        /\ token.sig.by.of = dec.key.of
        /\ token.sig.scheme = Scheme(token.header.alg)
        /\ Permitted(dec, token.header.alg)

(* "should not be used as an HMAC secret" (lib.rs:596): no token verified  *)
(* with HMAC is accepted under a string that looks like a public key, also *)
(* where peek_algorithm cannot read the header that the parser reads.      *)
SecretIsNoPublicKey ==
  \A at \in Instants : TrustedAccept(at) /\ Presented(dec).header.alg \in Hmac =>
    ~LooksPublic(dec.key)

Expired(payload, at) ==
  /\ payload.kind = "claims" /\ Has(payload.claims, "exp")
  /\ Earlier(payload.claims["exp"], at - dec.leeway * Resolution)

(* A check is skipped only if someone asked for it: a token that a strict  *)
(* caller would find expired is accepted only by the raw PyJWS entry, or   *)
(* if the instance, the options or the verify argument said so.            *)
LaxOnlyIfAsked ==
  \A at \in Instants : Accepted(at) /\ Expired(Presented(dec).payload, at) =>
    \/ dec.entry = "jws"
    \/ Has(dec.options, "verify_exp") \/ Off(dec.options)
    \/ dec.verify = Bool(FALSE) /\ dec.entry = "module"
=============================================================================
