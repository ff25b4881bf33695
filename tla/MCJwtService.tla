---------------------------- MODULE MCJwtService ----------------------------
(***************************************************************************)
(* Two threads, one secret and one key pair, two values of every dict.     *)
(***************************************************************************)
EXTENDS JwtRefinement, TLC

CONSTANTS t1, t2

MCThreads == {t1, t2}

Secret == [form |-> "str", kty |-> "oct", of |-> "s", half |-> "secret", alg |-> "", len |-> 32]
PemPub == [form |-> "pem", kty |-> "P-256", of |-> "pair", half |-> "public", alg |-> "",
           len |-> 100]
PemKey == [PemPub EXCEPT !.half = "private"]

Expiring == Claims([exp |-> Num(0), iss |-> Str("a")])
Other    == Claims([iss |-> Str("b")])

AllOn == [name \in (Names \ {"strict_aud"}) \cup {"require"} |->
            IF name = "require" THEN Arr({}) ELSE Bool(TRUE)]
Lax   == [AllOn EXCEPT !["verify_exp"] = Bool(FALSE)]

MCDefaultDicts == {AllOn, Lax}
MCOptionDicts  == {NoOptions, [verify_signature |-> Bool(FALSE)]}

Template(entry, key, algs, shares) ==
  [entry |-> entry, key |-> key, algorithms |-> Expect(algs), options |-> NoOptions,
   shares |-> shares, verify |-> Null, leeway |-> 0, content |-> NoPayload,
   audience |-> Anything, issuer |-> Anything, subject |-> Anything]

MCDecodeRequests ==
  {Template("jwt", Secret, {"HS256"}, TRUE),
   Template("module", PemPub, {"HS256", "ES256"}, TRUE)}

(* One key signs, the other is no signing key.                             *)
MCEncodeRequests ==
  {[entry |-> "jws", alg |-> "ES256", key |-> k, header |-> [alg |-> "", b64 |-> "absent"],
    payload |-> Other, encoder |-> FALSE, enforce |-> FALSE] : k \in {PemKey, PemPub}}

MCRegistry == {"HS256", "ES256", "none"}

MCForeign ==
  {LET h == Header("HS256", "absent")
   IN  [token |-> Token(h, Expiring, Signature("HS256", Bytes(Secret, "sign"), h, Expiring)),
        key |-> Secret, alg |-> "HS256", payload |-> Expiring]}

MCOtherPayloads == {Other}

(* For liveness: one value of each dict.                                   *)
OneDefault == {AllOn}
OneOption  == {NoOptions}

Symmetry == Permutations(MCThreads)
=============================================================================
