------------------------------ MODULE MCPaseto ------------------------------
(***************************************************************************)
(* Instances of PasetoService: a symmetric key and an Ed25519 pair in the  *)
(* forms both calls take, a second symmetric key, dicts with and without   *)
(* dates of their own, and lists of keys in which a wrong key comes first. *)
(***************************************************************************)
EXTENDS PasetoService

Seed   == << <<"a">> >>
Public == <<EdPublic(<<"a">>)>>
Pair   == Seed \o Public
Sym    == << <<"k">> >>
Other  == << <<"o">> >>

LocalKey  == KeyObject(Key("local", Sym))
SecretKey == KeyObject(Key("secret", Seed))
PairKey   == KeyObject(Key("secret", Pair))
PublicKey == KeyObject(Key("public", Public))

Plain == [arg |-> LocalKey, purpose |-> "", dict |-> TRUE, footer |-> "", implicit |-> "",
          serializer |-> "json", nonceFits |-> TRUE, add_iat |-> FALSE, exp_seconds |-> NoExpiry]

(* Key objects of every kind with dates to stamp, some used for another    *)
(* purpose than their own; documents, bytes and text with a footer and an  *)
(* implicit assertion; and calls that fail before or after the stamping.   *)
MCEncodeCalls ==
  {[Plain EXCEPT !.arg = a, !.purpose = p, !.add_iat = (p = ""), !.exp_seconds = 1] :
     a \in {LocalKey, SecretKey, PairKey}, p \in {"", "public"}}
  \cup
  {[Plain EXCEPT !.arg = a, !.purpose = p, !.dict = FALSE, !.footer = "f", !.implicit = "i"] :
     a \in {PublicKey, KeyText(Pem(Seed, Public)), KeyBytes(Pem(Seed, Public)),
            KeyText(InPaserk(PlainText("local", Sym))),
            KeyText(InPaserk(PlainText("secret", Pair)))},
     p \in {"", "local", "secret"}}
  \cup
  {[Plain EXCEPT !.serializer = s, !.exp_seconds = 1] : s \in {"none", "odd", "failing"}}
  \cup
  {[Plain EXCEPT !.nonceFits = FALSE, !.exp_seconds = 1]}

NoExpectation == [n \in {} |-> {}]
How == [purpose |-> "", implicit |-> "", deserializer |-> "none", validate |-> TRUE,
        leeway |-> 0, expected |-> NoExpectation]

OtherKey == KeyObject(Key("local", Other))

MCDecodeCalls ==
  {[keys |-> <<OtherKey, PublicKey, LocalKey>>, list |-> TRUE, how |-> h] :
     h \in {How, [How EXCEPT !.implicit = "i"],
            [How EXCEPT !.expected = [aud |-> {Str("b")}]]}}
  \cup
  {[keys |-> k, list |-> Len(k) # 1, how |-> How] :
     k \in {<<>>, <<LocalKey, PairKey>>, <<KeyBytes(InPaserk(PlainText("local", Sym)))>>}}
  \cup
  {[keys |-> <<k>>, list |-> FALSE, how |-> h] :
     k \in {LocalKey, KeyText(Pem(Absent, Public))},
     h \in {[How EXCEPT !.purpose = "local", !.implicit = "i"],
            [How EXCEPT !.purpose = "public", !.validate = FALSE],
            [How EXCEPT !.leeway = 1, !.deserializer = "odd"]}}

MCDicts == {[n \in {} |-> Null], [aud |-> Str("b"), nbf |-> DateStr(1)]}
=============================================================================
