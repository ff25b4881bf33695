--------------------------- MODULE JwtClaimsClock ---------------------------
(***************************************************************************)
(* One claim set under a running clock.  A state is a question that a      *)
(* caller puts to validate_claims; Tick lets time pass and asks it again.  *)
(***************************************************************************)
EXTENDS JwtPolicy

CONSTANTS
  Questions,   \* records of the claims, settings, flags and expectations of a call
  MaxTime      \* bound: the last instant of the clock

ASSUME QuestionsAssumption ==
  /\ MaxTime \in Nat
  /\ \A q \in Questions : /\ IsClaimSet(q.claims) /\ IsSettings(q.val)
                          /\ IsFlags(q.flags) /\ IsExpected(q.expected)

VARIABLES claims, val, flags, expected, now

vars == <<claims, val, flags, expected, now>>

Verdict(at) == ValidateClaims(claims, val, flags, expected, at)

Init ==
  /\ now = 0
  /\ \E q \in Questions :
       claims = q.claims /\ val = q.val /\ flags = q.flags /\ expected = q.expected

Tick ==
  /\ now < MaxTime
  /\ now' = now + 1
  /\ UNCHANGED <<claims, val, flags, expected>>

Next == Tick

Spec == Init /\ [][Next]_vars

(***************************************************************************)
(* Properties.                                                             *)
(***************************************************************************)
Verdicts == {Ok, "DecodeError", "InvalidIssuedAt", "ExpiredSignature",
             "ImmatureSignature", "MissingRequiredClaim", "InvalidIssuer",
             "InvalidAudience", "InvalidSubject", "InvalidJTI"}

(* validate_claims returns one of its own errors, whatever the claims.     *)
TypeOK == now \in 0..MaxTime /\ Verdict(now) \in Verdicts

(* The order of the checks and their early returns never change whether a  *)
(* claim set passes: validate_claims returns Ok exactly on the acceptable. *)
VerdictIsPolicy ==
  Verdict(now) = Ok <=> ClaimsAcceptable(claims, val, flags, expected, now)

(* Widening the leeway of jwt.rs can only let more through, on both ends.  *)
LeewayOnlyWidens ==
  Verdict(now) = Ok =>
    ValidateClaims(claims, [val EXCEPT !.leeway = @ + 1], flags, expected, now) = Ok

(* A claim set that is out of date stays so: no later reading of the clock *)
(* in validate_claims brings an expired token back.                        *)
ExpiredForGood ==
  [][Verdict(now) = "ExpiredSignature" => Verdict(now') = "ExpiredSignature"]_vars

(* Time alone only ever takes an accepted token to ExpiredSignature, and   *)
(* leaves every verdict that is not about time as it is.                   *)
TimeOnlyExpires ==
  [][/\ Verdict(now) = Ok => Verdict(now') \in {Ok, "ExpiredSignature"}
     /\ Verdict(now) \notin {Ok, "ImmatureSignature", "ExpiredSignature"} =>
          Verdict(now') \in {Verdict(now), "ExpiredSignature"}]_vars

(* PyJWT: "exp must be a number" (jwt.rs:84).  What check_numeric_claims   *)
(* lets through as a number has a place on the time line: some later clock *)
(* would find it expired.                                                  *)
AcceptedExpIsANumber ==
  Verdict(now) = Ok /\ flags.exp /\ Has(claims, "exp") =>
    \E later \in now..(MaxTime + 2 * Leeway(val) + 4) : Verdict(later) = "ExpiredSignature"
=============================================================================
