--------------------------- MODULE JwtEnvironment ---------------------------
(***************************************************************************)
(* The application around the library, which both the contract of decode   *)
(* and the code's own steps run in: threads, the requests they make, the   *)
(* dicts they may edit, and the tokens that exist.                         *)
(***************************************************************************)
EXTENDS JwtPolicy

CONSTANTS
  Threads,         \* application threads that call the library
  NoThread,        \* who holds the interpreter lock when nobody does
  DecodeRequests,  \* what decode is called with, but for the token
  EncodeRequests,  \* what encode is called with
  Registry,        \* algorithms a PyJWS instance has handlers for
  Foreign,         \* signed tokens from other libraries, as Issued records
  OtherPayloads,   \* payloads a token may have got on its way
  DefaultDicts,    \* values of the options attribute of the PyJWT and PyJWS instances
  OptionDicts,     \* values of the options dict that the threads share
  MaxTime          \* bound: the last instant of the clock

ASSUME EnvironmentAssumption ==
  /\ NoThread \notin Threads
  /\ MaxTime \in Nat
  /\ \A i \in Foreign :
       /\ i.token = Token(i.token.header, i.token.payload, i.token.sig)
       /\ i.token.sig = Signature(i.alg, Bytes(i.key, "sign"), i.token.header, i.payload)

(* The shape of what the application holds and passes: every dict has      *)
(* booleans for its flags, a foreign token has a header in one piece.      *)
ASSUME ShapeAssumption ==
  /\ \A dict \in DefaultDicts \cup OptionDicts : IsDict(dict)
  /\ \A r \in DecodeRequests :
       /\ IsDict(r.options) /\ r.algorithms.kind \in {"any", "of"}
       /\ \A e \in {r.audience, r.issuer, r.subject} : IsExpectation(e)
  /\ \A i \in Foreign : IsHeader(i.token.header)
  /\ \A r \in EncodeRequests :
       {"entry", "alg", "key", "header", "payload", "encoder", "enforce"} \subseteq DOMAIN r

(* A token together with who signed what: its key, algorithm and payload.  *)
Issued(req) ==
  [token |-> Encoded(req), key |-> req.key, alg |-> JwkAlg(req), payload |-> req.payload]

(* What a caller may hold: a token as issued, or with another payload in   *)
(* it, or stripped of its signature.                                       *)
Stripped(token) == Token([token.header EXCEPT !.alg = "none"], token.payload, NoSig)

Swapped(token) == {[token EXCEPT !.payload = p] : p \in OtherPayloads}

Presentable(issued) ==
  UNION {{i.token, Stripped(i.token)} \cup Swapped(i.token) : i \in issued}

(* A request to decode one of them.                                        *)
Receiving(template, token) ==
  [token |-> token, entry |-> template.entry, key |-> template.key,
   algorithms |-> template.algorithms, options |-> template.options,
   shares |-> template.shares, verify |-> template.verify, leeway |-> template.leeway,
   content |-> template.content, audience |-> template.audience,
   issuer |-> template.issuer, subject |-> template.subject]

NoRequest == [entry |-> "none"]

(* The options dict a call is given.                                       *)
Dict(req, shared) == IF req.shares THEN shared ELSE req.options

(* Whether a call starts from the options of an instance.                  *)
HasInstance(req) == req.entry \in {"jwt", "jws"}
=============================================================================
