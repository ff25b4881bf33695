--------------------------- MODULE PasetoService ---------------------------
(***************************************************************************)
(* An application that encodes PASETO tokens from a dict it may reuse, and *)
(* one that decodes what arrives with a list of keys, while the clock      *)
(* runs.  paseto_decode tries the keys one after the other, reads the      *)
(* clock again for each, and swallows every error but the last.            *)
(***************************************************************************)
EXTENDS Paseto

CONSTANTS EncodeCalls,  \* the arguments paseto_encode is called with
          DecodeCalls,  \* and those of paseto_decode, but for the token
          Dicts,        \* what the application starts a payload with
          MaxTime,      \* bound: the last instant of the clock
          MaxTokens     \* bound: tokens made

ASSUME PasetoAssumption == MaxTime \in Nat /\ MaxTokens \in Nat

(* The shape of what the application passes.                               *)
ASSUME ShapeAssumption ==
  /\ \A claims \in Dicts : IsClaimSet(claims)
  /\ \A c \in EncodeCalls : IsDocument(c.arg.doc) /\ c.exp_seconds \in Int
  /\ \A c \in DecodeCalls :
       /\ IsList(c.keys)
       /\ \A i \in DOMAIN c.keys : IsDocument(c.keys[i].doc)
       /\ c.how.leeway \in Nat

VARIABLES now,
          dict,     \* the claims of the application's payload dict
          own,      \* history: the claims the application put there itself
          made,     \* history: what paseto_encode returned, and for which call
          wire,     \* the token texts in circulation
          call      \* the running or last call of paseto_decode

vars == <<now, dict, own, made, wire, call>>

NoText == TokenText("none", Short, "")
NoAnswer == [payload |-> PlainBytes, footer |-> "", purpose |-> "none"]

NoCall == [pc |-> "idle", text |-> NoText, keys |-> <<>>, list |-> FALSE,
           how |-> [purpose |-> "", implicit |-> "", deserializer |-> "none",
                    validate |-> TRUE, leeway |-> 0, expected |-> [n \in {} |-> {}]],
           next |-> 1, began |-> 0, ended |-> 0, error |-> Ok, answer |-> NoAnswer]

Init == /\ now = 0
        /\ dict \in Dicts /\ own = dict
        /\ made = {} /\ wire = {}
        /\ call = NoCall

Tick == /\ now < MaxTime
        /\ now' = now + 1
        /\ UNCHANGED <<dict, own, made, wire, call>>

NewDict(claims) ==
  /\ dict' = claims /\ own' = claims
  /\ UNCHANGED <<now, made, wire, call>>

(***************************************************************************)
(* paseto_encode.  A call that fails after the dates were stamped leaves   *)
(* them in the dict.                                                       *)
(***************************************************************************)
Encode(c) ==
  LET stamps  == c.dict /\ GuardError(c.arg, Dict(dict), c.serializer) = Ok
      stamped == IF stamps THEN Stamped(dict, now, c.add_iat, c.exp_seconds) ELSE dict
      payload == IF c.dict THEN Dict(stamped) ELSE PlainBytes
      text    == EngineEncode(c.arg, Effective(c.arg, c.purpose), payload, c.footer, c.implicit)
  IN  /\ Cardinality(made) < MaxTokens
      /\ dict' = stamped
      /\ IF EncodeError(c.arg, c.purpose, payload, c.serializer, c.nonceFits) = Ok
         THEN /\ made' = made \cup {[text |-> text, call |-> c, payload |-> payload,
                                     at |-> now, own |-> own]}
              /\ wire' = wire \cup {text}
         ELSE UNCHANGED <<made, wire>>
      /\ UNCHANGED <<now, own, call>>

(* A text arrives with another footer, under the other purpose, or damaged. *)
Alter(text) ==
  /\ Cardinality(wire) <= MaxTokens
  /\ \/ \E c \in EncodeCalls : wire' = wire \cup {[text EXCEPT !.footer = c.footer]}
     \/ \E purpose \in {"local", "public"} : wire' = wire \cup {[text EXCEPT !.purpose = purpose]}
  /\ UNCHANGED <<now, dict, own, made, call>>

Damage(text) ==
  /\ Cardinality(wire) <= MaxTokens
  /\ \E body \in {Short, [Short EXCEPT !.box = "junk"]} :
       wire' = wire \cup {[text EXCEPT !.body = body]}
  /\ UNCHANGED <<now, dict, own, made, call>>

(***************************************************************************)
(* paseto_decode of a text with one key or with a list of keys.            *)
(***************************************************************************)
Begin(text, c) ==
  /\ call.pc # "trying"
  /\ c.list \/ Len(c.keys) = 1
  /\ call' = [NoCall EXCEPT !.pc = "trying", !.text = text, !.keys = c.keys,
                            !.list = c.list, !.how = c.how, !.began = now]
  /\ UNCHANGED <<now, dict, own, made, wire>>

Ends(error, answer) ==
  call' = [call EXCEPT !.pc = "done", !.ended = now, !.error = error, !.answer = answer]

(* Mutant: an error other than a wrong key ends the loop.                  *)
Try_StopsEarly ==
  /\ call.pc = "trying" /\ call.next <= Len(call.keys)
  /\ LET error == DecodeOneError(call.keys[call.next], call.text, call.how, now)
     IN  IF error = Ok THEN Ends(Ok, Answer(call.text))
         ELSE IF call.list /\ error = "ValueError"
              THEN call' = [call EXCEPT !.next = @ + 1]
              ELSE Ends(error, NoAnswer)
  /\ UNCHANGED <<now, dict, own, made, wire>>

Try ==
  /\ call.pc = "trying" /\ call.next <= Len(call.keys)
  /\ LET error == DecodeOneError(call.keys[call.next], call.text, call.how, now)
     IN  IF error = Ok THEN Ends(Ok, Answer(call.text))
         ELSE IF call.list THEN call' = [call EXCEPT !.next = @ + 1]
         ELSE Ends(error, NoAnswer)
  /\ UNCHANGED <<now, dict, own, made, wire>>

GiveUp ==
  /\ call.pc = "trying" /\ call.next > Len(call.keys)
  /\ Ends("ValueError", NoAnswer)
  /\ UNCHANGED <<now, dict, own, made, wire>>

Next ==
  \/ Tick
  \/ \E claims \in Dicts : NewDict(claims)
  \/ \E c \in EncodeCalls : Encode(c)
  \/ \E text \in wire : Alter(text) \/ Damage(text)
  \/ \E text \in wire, c \in DecodeCalls : Begin(text, c)
  \/ Try
  \/ GiveUp

Spec == Init /\ [][Next]_vars

(***************************************************************************)
(* Properties.                                                             *)
(***************************************************************************)
Accepted == call.pc = "done" /\ call.error = Ok

(* A call answers or raises, never both, in one of the exceptions the shim *)
(* documents, and only within the time it ran.                             *)
TypeOK ==
  /\ now \in 0..MaxTime
  /\ call.next \in 1..(Len(call.keys) + 1)
  /\ call.error \in {Ok, "ValueError", "DecryptError", "VerifyError"}
  /\ call.pc = "done" => call.began <= call.ended /\ call.ended <= now
  /\ (call.answer # NoAnswer) = Accepted

(* The random bytes a key comes from, whatever was derived or kept of it.  *)
Root(bytes) == bytes[1][Len(bytes[1])]

RootOf(arg) ==
  Root(IF arg.doc.kind = "paserk" THEN arg.doc.paserk.data.holds
       ELSE IF Given(arg.doc.public) THEN arg.doc.public ELSE arg.doc.private)

(* What paseto_decode accepts was encoded as it stands, payload, footer    *)
(* and purpose, for the same implicit assertion, and with a key that comes *)
(* from the same secret as one of the keys in the list, claims checked or  *)
(* not.  (verify_v4_public, paseto_v4_decrypt, pae)                        *)
Authentic ==
  Accepted =>
    \E m \in made :
      /\ m.text = call.text /\ m.call.implicit = call.how.implicit
      /\ call.answer = [payload |-> m.payload, footer |-> m.call.footer,
                        purpose |-> Engine(Effective(m.call.arg, m.call.purpose))]
      /\ \E i \in 1..Len(call.keys) : RootOf(call.keys[i]) = RootOf(m.call.arg)

(* The claims of an accepted dict held, give or take the leeway, at an     *)
(* instant of the call, though only the decode of one key saw them.        *)
ValidDuringCall ==
  LET claims == call.answer.payload.claims
      slack  == call.how.leeway * Resolution
  IN  Accepted /\ call.how.validate /\ call.answer.payload.dict =>
        /\ Has(claims, "exp") => ~Earlier(claims["exp"], call.began - slack)
        /\ Has(claims, "nbf") => ~Later(claims["nbf"], call.ended + slack)
        /\ Has(call.how.expected, "aud") =>
             /\ Has(claims, "aud")
             /\ call.how.expected.aud
                  \cap (IF claims["aud"].type = "arr" THEN claims["aud"].vals
                                                      ELSE {claims["aud"]}) # {}

(* A list of keys is refused only if no key of it would have been accepted *)
(* throughout the call: an error of one key hides no later key.            *)
RefusedByEveryKey ==
  call.pc = "done" /\ call.list /\ call.error # Ok =>
    \A i \in 1..Len(call.keys) :
      \E at \in call.began..call.ended :
        DecodeOneError(call.keys[i], call.text, call.how, at) # Ok

(* Keys that paseto_encode takes and paseto_decode does not: bytes that    *)
(* spell a document, documents without a private half, and asymmetric keys *)
(* in PASERK, whose type tells the two apart.                              *)
BothWays(arg, effective) ==
  \/ IsRaw(arg.doc)
  \/ /\ arg.as = "text"
     /\ IF arg.doc.kind = "paserk" THEN effective = "local" ELSE Given(arg.doc.private)

(* A token decodes, at the instant it was made, with the key it was made   *)
(* with, whatever form the key was in: 32 or 64 bytes of a secret key, a   *)
(* PEM, a JWK, or a Key used for another purpose than its own.             *)
RoundTrip ==
  \A m \in made :
    LET effective == Effective(m.call.arg, m.call.purpose)
        how == [purpose |-> IF effective = "local" THEN "local" ELSE "secret",
                implicit |-> m.call.implicit, deserializer |-> "none",
                validate |-> FALSE, leeway |-> 0, expected |-> [n \in {} |-> {}]]
    IN  BothWays(m.call.arg, effective) =>
          DecodeOneError(m.call.arg, m.text, how, m.at) = Ok

(* Not so: a token made with exp_seconds is good for that long, unless the *)
(* application gave the dict an exp of its own.                            *)
ExpiresAsAsked ==
  \A m \in made :
    m.payload.dict /\ m.call.exp_seconds # NoExpiry /\ ~Has(m.own, "exp") =>
      m.payload.claims["exp"].at >= m.at + m.call.exp_seconds * Resolution
=============================================================================
