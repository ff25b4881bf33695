------------------------------ MODULE MCPaserk ------------------------------
(***************************************************************************)
(* Instances of PaserkLife: one Ed25519 pair and one symmetric key in      *)
(* every form Key.new takes, two secrets of each kind, the two halves of   *)
(* one X25519 key, and secrets of wrong lengths.                           *)
(***************************************************************************)
EXTENDS PaserkLife

Seed   == << <<"a">> >>
Public == <<EdPublic(<<"a">>)>>
Secret == << <<"k">> >>

MCDocuments ==
  {Raw(Seed, FALSE), Raw(Secret, FALSE), Raw(Public, FALSE), Raw(<<>>, FALSE)}
  \cup {Raw(Seed \o Public, spells) : spells \in BOOLEAN}
  \cup {JwkDict(Seed, Public), JwkDict(Absent, Public),
        Ed25519Text(Seed, Public), Ed25519Text(Absent, Public),
        Pem(Seed, Public), Pem(Absent, Public),
        InPaserk(PlainText("secret", Seed \o Public)),
        InPaserk(PlainText("public", Public)),
        InPaserk(PieText("secret", << <<"w1">> >>, Seed \o Public))}

Private == << <<"r">> >>      \* an X25519 private key
Mine    == << <<"m">>, <<"ed", "m">> >>   \* an Ed25519 pair that unseals

MCUsings ==
  {Nothing,
   Wrapping(<< <<"w1">> >>), Wrapping(<< <<"w2">> >>), Wrapping(<<>>),
   Wrapping(<< <<"w1">>, <<"w1">> >>),
   Password(<< <<"p1">> >>), Password(<< <<"p2">> >>),
   Sealing(Private), Sealing(<<XPublic(Private[1])>>),
   Sealing(Mine), Sealing(<<XPublic(XPrivate(Mine[1]))>>),
   [Nothing EXCEPT !.wk = << <<"w1">> >>, !.pw = << <<"p1">> >>],
   [Nothing EXCEPT !.wk = << <<"w1">> >>, !.x = Private]}
=============================================================================
