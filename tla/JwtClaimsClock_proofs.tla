------------------------ MODULE JwtClaimsClock_proofs ------------------------
(***************************************************************************)
(* What time does to a claim set, for every question and every clock: the  *)
(* properties that the run of MCJwtClaims checks on a small universe.      *)
(***************************************************************************)
EXTENDS JwtClaimsClock, JwtClaims_proofs

(* What stays true of the question while the clock runs.                   *)
Asked ==
  /\ IsClaimSet(claims) /\ IsSettings(val) /\ IsFlags(flags) /\ IsExpected(expected)
  /\ now \in 0..MaxTime

(* The clock of the model moves forward, one tick at a time.               *)
LEMMA Asking == Spec => []Asked
<1>1. Init => Asked
  BY QuestionsAssumption DEF Init, Asked
<1>2. Asked /\ [Next]_vars => Asked'
  <2>1. SUFFICES ASSUME Asked, [Next]_vars PROVE Asked'
    OBVIOUS
  <2>2. UNCHANGED <<claims, val, flags, expected>>
    BY <2>1 DEF Next, Tick, vars
  <2>3. now' \in 0..MaxTime
    BY <2>1, QuestionsAssumption DEF Asked, Next, Tick, vars
  <2> QED
    BY <2>1, <2>2, <2>3 DEF Asked
<1> QED
  BY <1>1, <1>2, PTL DEF Spec

(* Once before an instant, before every later one; once not after an       *)
(* instant, not after any later one.                                       *)
LEMMA InstantsPass ==
  ASSUME NEW v, v.type # "nan" => v.at \in Int, NEW i \in Int, NEW j \in Int, i <= j
  PROVE  /\ Earlier(v, i) => Earlier(v, j)
         /\ ~Later(v, i) => ~Later(v, j)
BY DEF Earlier, Later

(* An accepted leeway is a whole number of ticks.                          *)
LEMMA LeewayIsNat ==
  ASSUME NEW v, IsSettings(v)
  PROVE  Leeway(v) \in Nat
<1>1. v.leeway \in Nat /\ Resolution \in Nat
  BY ResolutionAssumption DEF IsSettings
<1> QED
  BY <1>1 DEF Leeway

(* A claim that check_numeric_claims let through has an instant, or is NaN *)
LEMMA DatesHaveInstants ==
  ASSUME NEW c, IsClaimSet(c), NumericClaims(c) = Ok, NEW name \in DateClaims, Has(c, name)
  PROVE  c[name].type # "nan" => c[name].at \in Int
<1>1. IsDate(c[name])
  BY NumericStage
<1> QED
  BY <1>1 DEF IsDate, IsClaimSet, Has

(* The expiry check turns only from Ok to expired, and the two checks that *)
(* a token is not yet due only from immature to Ok.                        *)
LEMMA StagesOverTime ==
  ASSUME NEW c, NEW v, NEW f, NEW i \in Int, NEW j \in Int, i <= j,
         IsClaimSet(c), IsSettings(v), IsFlags(f), NumericClaims(c) = Ok
  PROVE  /\ Expiration(c, v, f, i) # Ok => Expiration(c, v, f, j) = Expiration(c, v, f, i)
         /\ Expiration(c, v, f, i) = Ok =>
              Expiration(c, v, f, j) \in {Ok, "ExpiredSignature"}
         /\ NotBefore(c, v, f, i) = Ok => NotBefore(c, v, f, j) = Ok
         /\ IssuedAt(c, v, f, i) = Ok => IssuedAt(c, v, f, j) = Ok
<1>1. Leeway(v) \in Nat
  BY LeewayIsNat
<1>2. i - Leeway(v) <= j - Leeway(v) /\ i + Leeway(v) <= j + Leeway(v)
  BY <1>1
<1>3. \A name \in DateClaims : Has(c, name) =>
        /\ Earlier(c[name], i - Leeway(v)) => Earlier(c[name], j - Leeway(v))
        /\ ~Later(c[name], i + Leeway(v)) => ~Later(c[name], j + Leeway(v))
  BY <1>1, <1>2, DatesHaveInstants, InstantsPass
<1>4. Has(c, "exp") => (Earlier(c["exp"], i - Leeway(v)) => Earlier(c["exp"], j - Leeway(v)))
  BY <1>3 DEF DateClaims
<1>5. /\ Has(c, "nbf") => (~Later(c["nbf"], i + Leeway(v)) => ~Later(c["nbf"], j + Leeway(v)))
      /\ Has(c, "iat") => (~Later(c["iat"], i + Leeway(v)) => ~Later(c["iat"], j + Leeway(v)))
  BY <1>3 DEF DateClaims
<1>6. f.exp \in BOOLEAN /\ f.nbf \in BOOLEAN /\ f.iat \in BOOLEAN
  BY DEF IsFlags, FlagNames
<1> QED
  BY <1>4, <1>5, <1>6 DEF Expiration, NotBefore, IssuedAt, Require, Ok

(* The errors of the checks that read the clock.                           *)
LEMMA TimedErrors ==
  ASSUME NEW c, NEW v, NEW f, NEW i
  PROVE  /\ Expiration(c, v, f, i) \in {Ok, "ExpiredSignature", "MissingRequiredClaim"}
         /\ NotBefore(c, v, f, i) \in {Ok, "ImmatureSignature"}
         /\ IssuedAt(c, v, f, i) \in {Ok, "ImmatureSignature"}
BY DEF Expiration, NotBefore, IssuedAt, Require, Ok

(* None of the checks that do not read the clock finds a token expired.    *)
LEMMA UntimedErrors ==
  ASSUME NEW c, NEW v, NEW f, NEW e
  PROVE  /\ NumericClaims(c) # "ExpiredSignature" /\ NumericClaims(c) # "ImmatureSignature"
         /\ Issuer(c, v, f, e) # "ExpiredSignature"
         /\ AudienceCheck(c, v, f, e) # "ExpiredSignature"
         /\ Subject(c, f, e) # "ExpiredSignature"
         /\ Jti(c) # "ExpiredSignature" /\ Required(c, v) # "ExpiredSignature"
BY DEF NumericClaims, Issuer, AudienceCheck, Audience, Subject, Jti, Required, Require, Ok, ??

(* What the verdict of a later instant can be.                             *)
LEMMA VerdictOverTime ==
  ASSUME NEW c, NEW v, NEW f, NEW e, NEW i \in Int, NEW j \in Int, i <= j,
         IsClaimSet(c), IsSettings(v), IsFlags(f)
  PROVE  LET V(t) == ValidateClaims(c, v, f, e, t)
         IN  /\ V(i) = "ExpiredSignature" => V(j) = "ExpiredSignature"
             /\ V(i) = Ok => V(j) \in {Ok, "ExpiredSignature"}
             /\ V(i) \notin {Ok, "ImmatureSignature", "ExpiredSignature"} =>
                  V(j) \in {V(i), "ExpiredSignature"}
<1> DEFINE V(t) == ValidateClaims(c, v, f, e, t)
           Untimed == Issuer(c, v, f, e) ?? AudienceCheck(c, v, f, e) ?? Subject(c, f, e)
                        ?? Jti(c)
           Early(t) == Expiration(c, v, f, t) ?? NotBefore(c, v, f, t)
           Late(t)  == IssuedAt(c, v, f, t) ?? Required(c, v)
<1>1. ASSUME NumericClaims(c) # Ok PROVE V(i) = V(j) /\ V(i) = NumericClaims(c)
  BY <1>1 DEF ValidateClaims, ??
<1>2. ASSUME NumericClaims(c) = Ok
      PROVE  /\ V(i) = (Early(i) ?? Untimed ?? Late(i))
             /\ V(j) = (Early(j) ?? Untimed ?? Late(j))
  BY <1>2 DEF ValidateClaims, ??, Ok
<1>3. Untimed # "ExpiredSignature" /\ Required(c, v) # "ExpiredSignature"
  BY UntimedErrors DEF ??, Ok
<1>4. CASE NumericClaims(c) = Ok
  BY <1>2, <1>3, <1>4, StagesOverTime, TimedErrors DEF ??, Ok
<1>5. CASE NumericClaims(c) # Ok
  BY <1>1, <1>5, UntimedErrors
<1> QED
  BY <1>4, <1>5

(* A wider leeway.                                                         *)
Wider == [val EXCEPT !.leeway = @ + 1]

(* A tick of the clock, for a question that stays the same.                *)
LEMMA TickAsksLater ==
  ASSUME Asked, [Next]_vars
  PROVE  /\ now \in Int /\ now' \in Int /\ now <= now'
         /\ UNCHANGED <<claims, val, flags, expected>>
BY QuestionsAssumption DEF Asked, Next, Tick, vars

(***************************************************************************)
(* The theorems.                                                           *)
(***************************************************************************)

(* For every claim set, whatever is in it, setting and clock, one of the   *)
(* nine claim errors or none is what validate_claims returns.              *)
THEOREM TypeAlways == Spec => []TypeOK
<1>1. ASSUME NEW x \in Verdicts, NEW y \in Verdicts PROVE (x ?? y) \in Verdicts
  BY <1>1 DEF ??
<1>2. \A i : Verdict(i) \in Verdicts
  <2> SUFFICES ASSUME NEW i PROVE Verdict(i) \in Verdicts
    OBVIOUS
  <2>1. NumericClaims(claims) \in Verdicts
    BY DEF NumericClaims, Require, Ok, Verdicts, ??
  <2>2. /\ Expiration(claims, val, flags, i) \in Verdicts
        /\ NotBefore(claims, val, flags, i) \in Verdicts
        /\ IssuedAt(claims, val, flags, i) \in Verdicts
    BY TimedErrors DEF Verdicts
  <2>3. Issuer(claims, val, flags, expected) \in Verdicts
    BY DEF Issuer, Require, Ok, Verdicts, ??
  <2>4. AudienceCheck(claims, val, flags, expected) \in Verdicts
    <3>1. \A auds, strict : Audience(claims, auds, strict) \in Verdicts
      BY DEF Audience, Require, Ok, Verdicts, ??
    <3> QED
      BY <3>1 DEF AudienceCheck, Require, Ok, Verdicts
  <2>5. /\ Subject(claims, flags, expected) \in Verdicts
        /\ Jti(claims) \in Verdicts /\ Required(claims, val) \in Verdicts
    BY DEF Subject, Jti, Required, Require, Ok, Verdicts
  <2> QED
    BY <1>1, <2>1, <2>2, <2>3, <2>4, <2>5 DEF Verdict, ValidateClaims
<1>3. Asked => TypeOK
  BY <1>2 DEF Asked, TypeOK
<1> QED
  BY <1>3, Asking, PTL

(* For every claim set, setting and clock, the staged checks of            *)
(* validate_claims accept what the order-free policy accepts.              *)
THEOREM PolicyAlways == Spec => []VerdictIsPolicy
<1>1. Asked => VerdictIsPolicy
  BY ClaimsVerdictIsPolicy DEF Asked, VerdictIsPolicy, Verdict
<1> QED
  BY <1>1, Asking, PTL

(* For every claim set, setting and clock, more leeway never rejects what  *)
(* less leeway let through.                                                *)
THEOREM WideningAlways == Spec => []LeewayOnlyWidens
<1>1. Asked => LeewayOnlyWidens
  <2>1. SUFFICES ASSUME Asked, Verdict(now) = Ok
                 PROVE  ValidateClaims(claims, Wider, flags, expected, now) = Ok
    BY DEF LeewayOnlyWidens, Wider
  <2>2. /\ IsSettings(Wider)
        /\ Wider.required = val.required
        /\ Wider.leeway = val.leeway + 1
    BY <2>1 DEF Wider, Asked, IsSettings
  <2>3. Leeway(val) \in Nat /\ Leeway(Wider) \in Nat /\ Leeway(val) <= Leeway(Wider)
    <3>1. val.leeway \in Nat /\ Resolution \in Nat
      BY <2>1, ResolutionAssumption DEF Asked, IsSettings
    <3>2. Wider.leeway * Resolution = val.leeway * Resolution + Resolution
      BY <2>2, <3>1
    <3>3. val.leeway * Resolution \in Nat
      BY <3>1
    <3> QED
      BY <3>1, <3>2, <3>3 DEF Leeway
  <2>4. /\ WellTyped(claims) /\ val.required \subseteq DOMAIN claims
        /\ InWindow(claims, flags, Leeway(val), now)
        /\ IsForCaller(claims, flags, expected)
    BY <2>1, ClaimsVerdictIsPolicy DEF Asked, Verdict, ClaimsAcceptable
  <2>5. InWindow(claims, flags, Leeway(Wider), now)
    <3>1. now \in Int
      BY <2>1, QuestionsAssumption DEF Asked
    <3>2. /\ now - Leeway(Wider) \in Int /\ now - Leeway(val) \in Int
          /\ now - Leeway(Wider) <= now - Leeway(val)
          /\ now + Leeway(Wider) \in Int /\ now + Leeway(val) \in Int
          /\ now + Leeway(val) <= now + Leeway(Wider)
      BY <2>3, <3>1
    <3>3. NumericClaims(claims) = Ok /\ IsClaimSet(claims)
      BY <2>1, <2>4, NumericStage DEF WellTyped, Asked
    <3>4. \A name \in DateClaims : Has(claims, name) =>
            (claims[name].type # "nan" => claims[name].at \in Int)
      BY <3>3, DatesHaveInstants
    <3>5. \A name \in DateClaims : Has(claims, name) =>
            /\ ~Earlier(claims[name], now - Leeway(val)) =>
                 ~Earlier(claims[name], now - Leeway(Wider))
            /\ ~Later(claims[name], now + Leeway(val)) =>
                 ~Later(claims[name], now + Leeway(Wider))
      BY <3>2, <3>4, InstantsPass
    <3> QED
      BY <2>4, <3>5 DEF InWindow, DateClaims
  <2> QED
    BY <2>1, <2>2, <2>4, <2>5, ClaimsVerdictIsPolicy DEF Asked, ClaimsAcceptable
<1> QED
  BY <1>1, Asking, PTL

(* For every claim set, setting and clock, expired is expired for good.    *)
THEOREM ExpiredForGoodAlways == Spec => ExpiredForGood
<1>1. Asked /\ [Next]_vars =>
        [Verdict(now) = "ExpiredSignature" => Verdict(now') = "ExpiredSignature"]_vars
  BY TickAsksLater, VerdictOverTime DEF Asked, Verdict
<1> QED
  BY <1>1, Asking, PTL DEF Spec, ExpiredForGood

(* For every claim set, setting and clock, time only ever expires what was *)
(* accepted, and never changes what was rejected for another reason.       *)
THEOREM TimeOnlyExpiresAlways == Spec => TimeOnlyExpires
<1>1. Asked /\ [Next]_vars =>
        [/\ Verdict(now) = Ok => Verdict(now') \in {Ok, "ExpiredSignature"}
         /\ Verdict(now) \notin {Ok, "ImmatureSignature", "ExpiredSignature"} =>
              Verdict(now') \in {Verdict(now), "ExpiredSignature"}]_vars
  BY TickAsksLater, VerdictOverTime DEF Asked, Verdict
<1> QED
  BY <1>1, Asking, PTL DEF Spec, TimeOnlyExpires
==============================================================================
