----------------------------- MODULE JweService -----------------------------
(***************************************************************************)
(* Senders encrypt messages to one another's keys, now and then with the   *)
(* header of an earlier message, its key management parameters and all;    *)
(* what arrives is any token whose five segments come from tokens sent.    *)
(*                                                                         *)
(* The calls keep the interpreter lock from start to end and share no      *)
(* state, so that a call is one step; senders and receivers are external.  *)
(***************************************************************************)
EXTENDS Jwe

CONSTANTS
  Keys,     \* keys in use, in every form
  Headers,  \* headers that senders write
  MaxSent   \* bound: messages sent

ASSUME JweAssumption == MaxSent \in Nat

(* What the names of keys say: two that come from one pair or one secret   *)
(* are of one kind, and no RSA key is as short as 32 bytes.                *)
ASSUME ShapeAssumption ==
  /\ \A header \in Headers : IsJweHeader(header)
  /\ \A key, other \in Keys :
       JweKeyLoads(key, TRUE) = Ok /\ JweKeyLoads(other, FALSE) = Ok =>
         LET to     == JweKeyBytes(key, TRUE)
             theirs == JweKeyBytes(other, FALSE)
         IN  /\ to.half \in {"secret", "private", "public"}
             /\ to.of = theirs.of => to.kty = theirs.kty
             /\ to.kty = "RSA" => to.len # 32

VARIABLE sent   \* the messages sent, with the sender's key

Init == sent = <<>>

(* A header of one's own, or one that came, with other algorithms.         *)
Renamed(header, alg, enc) == [header EXCEPT !.alg = alg, !.enc = enc]

Chosen ==
  Headers \cup {Renamed(sent[i].token.header, h.alg, h.enc) : i \in DOMAIN sent, h \in Headers}

(* Message n has n for its payload.                                        *)
Encrypt ==
  /\ Len(sent) < MaxSent
  /\ \E header \in Chosen, key \in Keys :
       /\ Encrypts(header, key) = Ok
       /\ LET n == Len(sent) + 1
          IN  sent' = Append(sent, [token |-> Encrypted(header, key, n, n), key |-> key])

Spec == Init /\ [][Encrypt]_sent

(***************************************************************************)
(* Properties.                                                             *)
(***************************************************************************)
Messages == DOMAIN sent

(* Five segments; an encrypted key exactly where there is one to wrap; and *)
(* parameters of the token's own where the key management has them.        *)
TypeOK ==
  /\ Len(sent) <= MaxSent
  /\ \A i \in Messages :
       LET token == sent[i].token
           alg   == token.header.alg
       IN  /\ token.parts = 5 /\ token.header.spelling = "own"
           /\ (token.ek = NoBox) <=> alg \in {"dir", "ECDH-ES"}
           /\ alg \in Agreement => token.header.epk = Ephemeral(i)
           /\ alg \in Pbes2 => token.header.p2s = i /\ token.header.p2c > 0

(* Who can read a message: the holder of the same bytes, or of the private *)
(* half of the RSA or X25519 key it was encrypted to.                      *)
Symmetric(alg) == alg \in {"dir"} \cup KeyWrap \cup Pbes2

Recipient(message, key) ==
  /\ JweKeyLoads(key, FALSE) = Ok
  /\ LET theirs == JweKeyBytes(key, FALSE)
         to     == JweKeyBytes(message.key, TRUE)
     IN  IF Symmetric(message.token.header.alg) THEN theirs = to
         ELSE /\ to.kty \in {"RSA", "X25519"} /\ to.half = "public"
              /\ theirs.kty = to.kty /\ theirs.of = to.of /\ theirs.half = "private"

(* Whoever a message is for reads it, in whatever form the two hold the    *)
(* key, and also where the sender's header came with the ephemeral key or  *)
(* the salt of another message: a token that encrypt_compact makes is one  *)
(* that decrypt_compact opens.                                             *)
RoundTrip ==
  \A i \in Messages, key \in Keys :
    Recipient(sent[i], key) =>
      /\ Decrypts(sent[i].token, key) = Ok
      /\ Decrypted(sent[i].token) = [payload |-> i, deflated |-> FALSE]

(* Tokens put together from segments of messages, one with its header      *)
(* spelled in another way, one without its encrypted key, and one cut      *)
(* short.                                                                  *)
Mixed ==
  {[parts |-> 5, header |-> sent[m[1]].token.header, ek |-> sent[m[2]].token.ek,
    iv |-> sent[m[3]].token.iv, ct |-> sent[m[4]].token.ct, tag |-> sent[m[5]].token.tag] :
     m \in Messages \X Messages \X Messages \X Messages \X Messages}

Received ==
  Mixed \cup {[sent[i].token EXCEPT !.header.spelling = "other"] : i \in Messages}
        \cup {[sent[i].token EXCEPT !.ek = NoBox] : i \in Messages}
        \cup {[sent[i].token EXCEPT !.parts = 4] : i \in Messages}

(* What decrypt_compact accepts is one message, to the letter of its       *)
(* header, nonce, ciphertext and tag, under a recipient's key; and its     *)
(* encrypted key too, except with ECDH-ES, which has none and ignores what *)
(* is there.                                                               *)
OnlyWhatWasSealed ==
  \A token \in Received, key \in Keys :
    Decrypts(token, key) = Ok =>
      \E i \in Messages :
        /\ token = [sent[i].token EXCEPT !.ek = token.ek]
        /\ token.header.alg = "ECDH-ES" \/ token.ek = sent[i].token.ek
        /\ Recipient(sent[i], key) /\ Decrypted(token).payload = i
=============================================================================
