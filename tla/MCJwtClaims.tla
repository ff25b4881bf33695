---------------------------- MODULE MCJwtClaims ----------------------------
(***************************************************************************)
(* Every claim set and every way to check it of a small universe, under a  *)
(* clock that runs through all the instants the claims mention.            *)
(***************************************************************************)
EXTENDS JwtClaimsClock, TLC

Times == {Num(2), DateStr(3), NaNStr, Str("soon"), Null}
Names3 == {Str("a"), Str("b"), Num(2), Null}
Auds   == {Str("a"), Str(""), Arr({}), Arr({Str("a"), Str("b")}), Arr({Str("a"), Num(2)}),
           Null, Bool(TRUE), Bool(FALSE), Object}

(* The claim set that has exactly the claims of `some`.                    *)
Only(some) == [name \in {n \in DOMAIN some : some[n].type # "absent"} |-> some[name]]
Absent == [type |-> "absent"]

DateSets == {Only([exp |-> e, nbf |-> n, iat |-> i]) :
               e \in Times \cup {Absent}, n \in {Num(2), Str("soon"), Absent},
               i \in {Num(3), DateStr(1), Null, Absent}}
NameSets == {Only([aud |-> a, iss |-> i, sub |-> s, jti |-> j]) :
               a \in Auds \cup {Absent}, i \in Names3 \cup {Absent},
               s \in {Str("a"), Num(2), Absent}, j \in {Num(2), Absent}}

AllFlags(x) == [f \in FlagNames |-> IF f = "strict" THEN FALSE ELSE x]

DateFlags == {[AllFlags(TRUE) EXCEPT !.exp = e, !.nbf = n, !.iat = i] :
                e \in BOOLEAN, n \in BOOLEAN, i \in BOOLEAN}
NameFlags == {[AllFlags(TRUE) EXCEPT !.strict = s] : s \in BOOLEAN}
               \cup {AllFlags(FALSE)}

Expectations == {Only([aud |-> a, iss |-> i, sub |-> s]) :
                   a \in {Absent, [type |-> "of", vals |-> {Str("a")}],
                          [type |-> "of", vals |-> {Str("a"), Str("c")}]},
                   i \in {Absent, [type |-> "of", vals |-> {Str("a")}]},
                   s \in {Absent, [type |-> "of", vals |-> {Str("a")}]}}

MCQuestions ==
  [claims : DateSets, flags : DateFlags, expected : {[n \in {} |-> {}]},
   val : [leeway : {0, 1}, required : {{}, {"exp"}, {"nbf", "iat"}}]]
  \cup
  [claims : NameSets, flags : NameFlags,
   expected : {[n \in DOMAIN e |-> e[n].vals] : e \in Expectations},
   val : [leeway : {0}, required : {{}, {"aud"}, {"iss"}}]]
=============================================================================
