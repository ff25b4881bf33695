-------------------------- MODULE JwtService_proofs --------------------------
(***************************************************************************)
(* Type correctness and authenticity of concurrent encode and decode, and  *)
(* that their threads implement the contract of decode, for any number of  *)
(* threads, any requests, keys, dicts and foreign tokens.                  *)
(***************************************************************************)
EXTENDS JwtRefinement, JwtClaims_proofs

(***************************************************************************)
(* Type correctness.                                                       *)
(***************************************************************************)

(* What Conclude leaves behind when the thread was on its way.             *)
LEMMA ConcludeTyped ==
  ASSUME TypeOK, NEW t \in Threads, NEW outcome \in Outcomes,
         NEW next \in {"verify", "claims", "return"},
         pc[t] \in {"prepare", "verify", "claims"},
         Conclude(t, outcome, next), UNCHANGED <<req, opts, began, gil, world>>
  PROVE  TypeOK'
<1>1. pc' \in [Threads -> DecodeSteps \cup {"idle", "sign"}]
  BY DEF Conclude, Goto, TypeOK, DecodeSteps
<1>2. verdict' \in [Threads -> {Ok} \cup Errors]
  BY DEF Conclude, TypeOK, Outcomes
<1>3. \A u \in Threads : pc'[u] # "return" => verdict'[u] = Ok
  BY DEF Conclude, Goto, TypeOK
<1>4. \A u \in Threads : gil' = u <=> pc'[u] = "sign"
  BY DEF Conclude, Goto, TypeOK
<1> QED
  BY <1>1, <1>2, <1>3, <1>4 DEF TypeOK, world

(* Every action keeps the shape of every thread's frame.                   *)
LEMMA TypeStep == TypeOK /\ [Next]_vars => TypeOK'
<1> SUFFICES ASSUME TypeOK, [Next]_vars PROVE TypeOK'
  OBVIOUS
<1> USE DEF TypeOK, DecodeSteps
<1>1. ASSUME NEW t \in Threads, BeginDecode(t) PROVE TypeOK'
  BY <1>1 DEF BeginDecode, At, Goto, world
<1>2. ASSUME NEW t \in Threads, CopyDefaults(t) PROVE TypeOK'
  BY <1>2 DEF CopyDefaults, At, Goto, world
<1>3. ASSUME NEW t \in Threads, ReadOptions(t) PROVE TypeOK'
  BY <1>3 DEF ReadOptions, At, Goto, world
<1>4. ASSUME NEW t \in Threads, PrepareCall(t) PROVE TypeOK'
  BY <1>4, PrepareOutcome, ConcludeTyped DEF PrepareCall, At
<1>5. ASSUME NEW t \in Threads, VerifyToken(t) PROVE TypeOK'
  BY <1>5, ExamineOutcome, ConcludeTyped DEF VerifyToken, At
<1>6. ASSUME NEW t \in Threads, ValidateToken(t) PROVE TypeOK'
  BY <1>6, CheckOutcome, ConcludeTyped DEF ValidateToken, At
<1>7. ASSUME NEW t \in Threads, ReturnDecoded(t) PROVE TypeOK'
  BY <1>7, EnvironmentAssumption DEF ReturnDecoded, At, Goto, world
<1>8. ASSUME NEW t \in Threads, BeginEncode(t) PROVE TypeOK'
  <2>1. gil = NoThread
    BY <1>8 DEF BeginEncode, At, HasGil
  <2>2. /\ pc' \in [Threads -> DecodeSteps \cup {"idle", "sign"}]
        /\ \A u \in Threads : u # t => pc'[u] = pc[u] /\ pc[u] # "sign"
        /\ pc'[t] = "sign" /\ gil' = t
    BY <1>8, <2>1, EnvironmentAssumption DEF BeginEncode, Goto
  <2>3. DOMAIN req' = Threads
    BY <1>8 DEF BeginEncode
  <2>4. UNCHANGED <<opts, verdict, began, defaults, shared, now>>
    BY <1>8 DEF BeginEncode, world
  <2>5. \A u \in Threads : pc'[u] # "return" => verdict'[u] = Ok
    BY <2>2, <2>4, <1>8 DEF BeginEncode, At
  <2>6. \A u \in Threads : gil' = u <=> pc'[u] = "sign"
    BY <2>2
  <2>7. /\ verdict' \in [Threads -> {Ok} \cup Errors]
        /\ began' \in [Threads -> 0..MaxTime] /\ now' \in 0..MaxTime
        /\ \A u \in Threads : began'[u] <= now'
        /\ defaults' \in DefaultDicts /\ shared' \in OptionDicts
        /\ gil' \in Threads \cup {NoThread} /\ DOMAIN opts' = Threads
    BY <2>2, <2>4
  <2> QED
    BY <2>2, <2>3, <2>5, <2>6, <2>7
<1>9. ASSUME NEW t \in Threads, FinishEncode(t) PROVE TypeOK'
  BY <1>9, EnvironmentAssumption DEF FinishEncode, At, Goto
<1>10. CASE EditDefaults
  BY <1>10 DEF EditDefaults, local
<1>11. CASE EditShared
  BY <1>11 DEF EditShared, local
<1>12. CASE Tick
  BY <1>12, EnvironmentAssumption DEF Tick, local
<1>13. CASE UNCHANGED vars
  BY <1>13 DEF vars
<1> QED
  BY <1>1, <1>2, <1>3, <1>4, <1>5, <1>6, <1>7, <1>8, <1>9, <1>10, <1>11, <1>12, <1>13
     DEF Next, DecodeStep

(* For any number of threads and any requests, a call carries an error     *)
(* only on its way out, and the lock is kept by exactly who signs.         *)
THEOREM TypeCorrect == Spec => []TypeOK
<1>1. Init => TypeOK
  BY EnvironmentAssumption DEF Init, TypeOK, DecodeSteps
<1> QED
  BY <1>1, TypeStep, PTL DEF Spec

(***************************************************************************)
(* Authenticity.  The invariant follows a signature from the key that made *)
(* it, through whoever handled the token, to the call that accepts it.     *)
(***************************************************************************)
IsToken(token) == token = Token(token.header, token.payload, token.sig)

(* A token of the right shape, its signature, if any, of its signer.       *)
Sealed(i) ==
  /\ IsToken(i.token)
  /\ i.token.sig \in {NoSig, Signature(i.alg, Bytes(i.key, "sign"), i.token.header, i.payload)}

(* A token as a caller can have it: any parts, but a signature that exists *)
Received(token) ==
  IsToken(token) /\ \E i \in issued : token.sig \in {NoSig, i.token.sig}

Provenance ==
  /\ \A i \in issued : Sealed(i)
  /\ \A t \in Threads : pc[t] \in DecodeSteps => Received(req[t].token)

(* An accepting call has been through the signature stage.                 *)
Examined ==
  \A t \in Threads : pc[t] = "claims" \/ Accepting(t) => Examine(req[t], opts[t]) = Ok

IInv == TypeOK /\ Provenance /\ Examined

(* What a fresh token looks like.                                          *)
LEMMA EncodeSeals ==
  ASSUME NEW r
  PROVE  Sealed(Issued(r))
<1>1. /\ Issued(r).token = Encoded(r) /\ Issued(r).key = r.key
      /\ Issued(r).alg = JwkAlg(r) /\ Issued(r).payload = r.payload
  BY DEF Issued
<1>2. IsToken(Encoded(r)) /\ Encoded(r).header = Prepared(r)
  BY DEF Encoded, Token, IsToken
<1>3. Encoded(r).sig = IF IsNone(JwkAlg(r)) THEN NoSig
                       ELSE Signature(JwkAlg(r), Bytes(r.key, "sign"), Prepared(r), r.payload)
  BY DEF Encoded, Token
<1> QED
  BY <1>1, <1>2, <1>3 DEF Sealed

(* Whatever is presented has the signature of an issued token, or none.    *)
LEMMA PresentableReceived ==
  ASSUME \A i \in issued : Sealed(i), NEW token \in Presentable(issued)
  PROVE  Received(token)
<1>1. PICK i \in issued : token \in {i.token, Stripped(i.token)} \cup Swapped(i.token)
  BY DEF Presentable
<1>2. i.token = [parts |-> 3, header |-> i.token.header, payload |-> i.token.payload,
                 sig |-> i.token.sig]
  BY DEF Sealed, IsToken, Token
<1>3. CASE token = i.token
  BY <1>3 DEF Received, Sealed
<1>4. CASE token = Stripped(i.token)
  BY <1>4 DEF Stripped, Received, IsToken, Token
<1>5. CASE token \in Swapped(i.token)
  <2>1. PICK p \in OtherPayloads : token = [i.token EXCEPT !.payload = p]
    BY <1>5 DEF Swapped
  <2>2. token = [parts |-> 3, header |-> i.token.header, payload |-> p, sig |-> i.token.sig]
    BY <1>2, <2>1
  <2> QED
    BY <2>2 DEF Received, IsToken, Token
<1> QED
  BY <1>1, <1>3, <1>4, <1>5

(* The signature stage accepts only a signature over what is presented,    *)
(* made for the key of the caller.                                         *)
LEMMA ExaminedSignature ==
  ASSUME NEW r, NEW o, IsToken(r.token), Examine(r, o) = Ok, Verifying(o)
  PROVE  LET token == Presented(r)
         IN  r.token.sig = [kind |-> "sig", scheme |-> Scheme(token.header.alg),
                            header |-> token.header, payload |-> token.payload,
                            by |-> Bytes(r.key, "verify")]
<1> DEFINE token == Presented(r)
<1>1. VerifySignature(token, r.key, Allowed(r)) = Ok
  BY DEF Examine, Presented, ??, Ok
<1>2. token.sig = [kind |-> "sig", scheme |-> Scheme(token.header.alg),
                   header |-> token.header, payload |-> token.payload,
                   by |-> Bytes(r.key, "verify")]
  <2>1. Verifies(token.header.alg, Bytes(r.key, "verify"), token.header, token.payload,
                 token.sig) = Ok
    BY <1>1 DEF VerifySignature, ??, Ok
  <2> QED
    BY <2>1 DEF Verifies, Require, ??, Ok
<1>3. token.sig = r.token.sig
  BY DEF Presented, Attach, IsToken, Token
<1> QED
  BY <1>2, <1>3

(* A signature names its signer, whatever the scheme.                      *)
LEMMA SignatureNamesSigner ==
  ASSUME NEW alg, NEW k, NEW h, NEW p
  PROVE  /\ Signature(alg, Bytes(k, "sign"), h, p).header = h
         /\ Signature(alg, Bytes(k, "sign"), h, p).payload = p
         /\ Signature(alg, Bytes(k, "sign"), h, p).by.of = k.of
         /\ Signature(alg, Bytes(k, "sign"), h, p).by.kty = k.kty
<1>1. Bytes(k, "sign").of = k.of /\ Bytes(k, "sign").kty = k.kty
  BY DEF Bytes
<1>2. Bytes(k, "sign") = [kty |-> k.kty, of |-> k.of, half |-> Bytes(k, "sign").half]
  BY DEF Bytes
<1> QED
  BY <1>1, <1>2 DEF Signature

(* So the invariant has what Authentic promises.                           *)
LEMMA ProvenanceImpliesAuthentic == IInv => Authentic
<1> SUFFICES ASSUME IInv, NEW t \in Threads, Accepting(t), Verifying(opts[t])
             PROVE  \E i \in issued :
                      /\ i.token.header = Presented(req[t]).header
                      /\ i.payload = Presented(req[t]).payload
                      /\ i.key.of = req[t].key.of /\ i.key.kty = req[t].key.kty
  BY DEF Authentic
<1>1. Received(req[t].token) /\ Examine(req[t], opts[t]) = Ok
  BY DEF IInv, Provenance, Examined, Accepting, At, DecodeSteps
<1>2. req[t].token.sig
        = [kind |-> "sig", scheme |-> Scheme(Presented(req[t]).header.alg),
           header |-> Presented(req[t]).header, payload |-> Presented(req[t]).payload,
           by |-> Bytes(req[t].key, "verify")]
  BY <1>1, ExaminedSignature DEF Received
<1>3. PICK i \in issued : req[t].token.sig \in {NoSig, i.token.sig}
  BY <1>1 DEF Received
<1>4. req[t].token.sig # NoSig
  BY <1>2 DEF NoSig
<1>5. req[t].token.sig = Signature(i.alg, Bytes(i.key, "sign"), i.token.header, i.payload)
  BY <1>3, <1>4 DEF IInv, Provenance, Sealed
<1>6. /\ i.token.header = Presented(req[t]).header
      /\ i.payload = Presented(req[t]).payload
      /\ i.key.of = req[t].key.of /\ i.key.kty = req[t].key.kty
  <2>1. /\ req[t].token.sig.header = Presented(req[t]).header
        /\ req[t].token.sig.payload = Presented(req[t]).payload
        /\ req[t].token.sig.by = Bytes(req[t].key, "verify")
    BY <1>2
  <2>2. Bytes(req[t].key, "verify").of = req[t].key.of /\ Bytes(req[t].key, "verify").kty = req[t].key.kty
    BY DEF Bytes
  <2>3. /\ req[t].token.sig.header = i.token.header
        /\ req[t].token.sig.payload = i.payload
        /\ req[t].token.sig.by.of = i.key.of /\ req[t].token.sig.by.kty = i.key.kty
    BY <1>5, SignatureNamesSigner
  <2> QED
    BY <2>1, <2>2, <2>3
<1> QED
  BY <1>6

(* Threads that keep their requests keep the provenance of their tokens.   *)
LEMMA OnTheWay ==
  ASSUME Provenance, UNCHANGED issued,
         \A u \in Threads : pc'[u] \in DecodeSteps => pc[u] \in DecodeSteps /\ req'[u] = req[u]
  PROVE  Provenance'
BY DEF Provenance, Received

(* No action forges: tokens come from encode, and calls get what exists.   *)
LEMMA ProvenanceStep == IInv /\ [Next]_vars => Provenance'
<1> SUFFICES ASSUME IInv, [Next]_vars PROVE Provenance'
  OBVIOUS
<1> USE DEF DecodeSteps
<1>0. TypeOK /\ Provenance
  BY DEF IInv
<1>1. ASSUME NEW t \in Threads, BeginDecode(t) PROVE Provenance'
  <2>1. PICK r \in DecodeRequests, token \in Presentable(issued) :
          /\ req' = [req EXCEPT ![t] = Receiving(r, token)]
          /\ pc' = [pc EXCEPT ![t] = IF HasInstance(r) THEN "copy" ELSE "read"]
    BY <1>1 DEF BeginDecode, Goto
  <2>2. issued' = issued
    BY <1>1 DEF BeginDecode, world
  <2>3. Received(token)
    BY <1>0, PresentableReceived DEF Provenance
  <2>4. Receiving(r, token).token = token
    BY DEF Receiving
  <2>5. req'[t].token = token
    BY <1>0, <2>1, <2>4 DEF TypeOK
  <2>6. \A u \in Threads : u # t => pc'[u] = pc[u] /\ req'[u] = req[u]
    BY <1>0, <2>1 DEF TypeOK
  <2> QED
    BY <1>0, <2>2, <2>3, <2>5, <2>6 DEF Provenance, Received
<1>2. ASSUME NEW t \in Threads, CopyDefaults(t) \/ ReadOptions(t) PROVE Provenance'
  BY <1>0, <1>2, OnTheWay DEF CopyDefaults, ReadOptions, At, Goto, world, TypeOK
<1>3. ASSUME NEW t \in Threads, PrepareCall(t) \/ VerifyToken(t) \/ ValidateToken(t)
      PROVE  Provenance'
  BY <1>0, <1>3, OnTheWay
     DEF PrepareCall, VerifyToken, ValidateToken, Conclude, At, Goto, world, TypeOK
<1>4. ASSUME NEW t \in Threads, ReturnDecoded(t) PROVE Provenance'
  BY <1>0, <1>4, OnTheWay DEF ReturnDecoded, Goto, world, TypeOK
<1>5. ASSUME NEW t \in Threads, BeginEncode(t) PROVE Provenance'
  <2>1. /\ \A u \in Threads : u # t => pc'[u] = pc[u] /\ req'[u] = req[u]
        /\ pc'[t] = "sign"
    BY <1>0, <1>5 DEF BeginEncode, Goto, TypeOK
  <2>2. issued' = issued
    BY <1>5 DEF BeginEncode, world
  <2> QED
    BY <1>0, <2>1, <2>2, OnTheWay
<1>6. ASSUME NEW t \in Threads, FinishEncode(t) PROVE Provenance'
  <2>1. issued' \in {issued, issued \cup {Issued(req[t])}}
    BY <1>6 DEF FinishEncode
  <2>2. \A i \in issued' : Sealed(i)
    BY <1>0, <2>1, EncodeSeals DEF Provenance
  <2>3. \A u \in Threads : pc'[u] \in DecodeSteps => pc[u] \in DecodeSteps /\ req'[u] = req[u]
    BY <1>0, <1>6 DEF FinishEncode, Goto, TypeOK
  <2> QED
    BY <1>0, <2>1, <2>2, <2>3 DEF Provenance, Received
<1>7. CASE EditDefaults \/ EditShared \/ Tick \/ UNCHANGED vars
  BY <1>0, <1>7, OnTheWay DEF EditDefaults, EditShared, Tick, local, vars
<1> QED
  BY <1>1, <1>2, <1>3, <1>4, <1>5, <1>6, <1>7 DEF Next, DecodeStep

(* Only a call whose signature stage found nothing goes on to the claims,  *)
(* and neither its request nor its options change under its feet.          *)
LEMMA ExaminedStep == IInv /\ [Next]_vars => Examined'
<1> SUFFICES ASSUME IInv, [Next]_vars, NEW u \in Threads,
                    pc'[u] = "claims" \/ (pc'[u] = "return" /\ verdict'[u] = Ok)
             PROVE  Examine(req'[u], opts'[u]) = Ok
  BY DEF Examined, Accepting, At
<1>0. TypeOK /\ Examined
  BY DEF IInv
<1>1. ASSUME pc'[u] = pc[u], verdict'[u] = verdict[u], req'[u] = req[u], opts'[u] = opts[u]
      PROVE  Examine(req'[u], opts'[u]) = Ok
  BY <1>0, <1>1 DEF Examined, Accepting, At
<1>2. ASSUME NEW t \in Threads, BeginDecode(t) \/ CopyDefaults(t) \/ ReadOptions(t)
      PROVE  Examine(req'[u], opts'[u]) = Ok
  BY <1>0, <1>1, <1>2 DEF BeginDecode, CopyDefaults, ReadOptions, Goto, TypeOK
<1>3. ASSUME NEW t \in Threads, PrepareCall(t) PROVE Examine(req'[u], opts'[u]) = Ok
  BY <1>0, <1>1, <1>3 DEF PrepareCall, Conclude, Goto, TypeOK
<1>4. ASSUME NEW t \in Threads, VerifyToken(t) PROVE Examine(req'[u], opts'[u]) = Ok
  BY <1>0, <1>1, <1>4 DEF VerifyToken, Conclude, Goto, TypeOK
<1>5. ASSUME NEW t \in Threads, ValidateToken(t) PROVE Examine(req'[u], opts'[u]) = Ok
  <2>1. Examine(req[t], opts[t]) = Ok
    BY <1>0, <1>5 DEF ValidateToken, Examined, At
  <2> QED
    BY <1>0, <1>1, <1>5, <2>1 DEF ValidateToken, Conclude, Goto, TypeOK
<1>6. ASSUME NEW t \in Threads, ReturnDecoded(t) \/ BeginEncode(t) \/ FinishEncode(t)
      PROVE  Examine(req'[u], opts'[u]) = Ok
  BY <1>0, <1>1, <1>6 DEF ReturnDecoded, BeginEncode, FinishEncode, Goto, TypeOK
<1>7. CASE EditDefaults \/ EditShared \/ Tick \/ UNCHANGED vars
  BY <1>1, <1>7 DEF EditDefaults, EditShared, Tick, local, vars
<1> QED
  BY <1>2, <1>3, <1>4, <1>5, <1>6, <1>7 DEF Next, DecodeStep

(* For any number of threads, requests and foreign tokens: what a verified *)
(* decode returns was signed, as it is, by the key it was called with.     *)
THEOREM AuthenticAlways == Spec => []Authentic
<1>1. Init => IInv
  <2>1. ASSUME Init PROVE \A i \in issued : Sealed(i)
    BY <2>1, EnvironmentAssumption DEF Init, Sealed, IsToken
  <2> QED
    BY <2>1, EnvironmentAssumption
       DEF Init, IInv, TypeOK, DecodeSteps, Provenance, Examined, Accepting, At
<1>2. IInv /\ [Next]_vars => IInv'
  BY TypeStep, ProvenanceStep, ExaminedStep DEF IInv
<1> QED
  BY <1>1, <1>2, ProvenanceImpliesAuthentic, PTL DEF Spec

(***************************************************************************)
(* The contract.  What a step decides must be what the policy says, so the *)
(* invariant knows what a thread carries, and which stages it has passed.  *)
(***************************************************************************)
(* Headers are in one piece, requests and dicts of the shape Rust reads.   *)
Typed ==
  /\ \A i \in issued : IsHeader(i.token.header)
  /\ \A t \in Threads :
       /\ IsDict(opts[t])
       /\ pc[t] \in DecodeSteps => IsRequest(req[t]) /\ IsDict(req[t].options)

(* Nothing is left of a call that is over, or there before it began.       *)
Framed ==
  \A t \in Threads :
    /\ pc[t] = "idle" => req[t] = NoRequest
    /\ pc[t] \in {"idle", "copy", "sign"} => opts[t] = NoOptions
    /\ pc[t] = "copy" => HasInstance(req[t])
    /\ pc[t] = "sign" =>
         \E r \in EncodeRequests, on \in BOOLEAN : req[t] = [r EXCEPT !.enforce = on]

(* A thread without the lock was let go by every guard, and one with an    *)
(* answer passed the claims at an instant of its call.                     *)
Guarded ==
  \A t \in Threads :
    pc[t] \in {"verify", "claims"} \/ Accepting(t) => Prepare(req[t], opts[t]) = Ok

Timely ==
  \A t \in Threads : Accepting(t) =>
    \E instant \in began[t]..now : CheckClaims(req[t], opts[t], instant) = Ok

CInv == IInv /\ Typed /\ Framed /\ Guarded /\ Timely

(* A request to decode something presentable is one the policy can judge.  *)
LEMMA ReceivingTyped ==
  ASSUME IInv, Typed, NEW r \in DecodeRequests, NEW token \in Presentable(issued)
  PROVE  IsRequest(Receiving(r, token)) /\ IsDict(Receiving(r, token).options)
<1>1. PICK i \in issued : token \in {i.token, Stripped(i.token)} \cup Swapped(i.token)
  BY DEF Presentable
<1>2. IsHeader(i.token.header) /\ IsToken(i.token)
  BY DEF Typed, IInv, Provenance, Sealed
<1>3. i.token = [parts |-> 3, header |-> i.token.header, payload |-> i.token.payload,
                 sig |-> i.token.sig]
  BY <1>2 DEF IsToken, Token
<1>4. IsCompact(token)
  <2>1. CASE token = i.token
    BY <1>2, <1>3, <2>1 DEF IsCompact, IsHeader
  <2>2. CASE token = Stripped(i.token)
    <3>1. [i.token.header EXCEPT !.alg = "none"].kind = i.token.header.kind
      BY <1>2 DEF IsHeader
    <3> QED
      BY <1>2, <2>2, <3>1 DEF IsCompact, IsHeader, Stripped, Token
  <2>3. CASE token \in Swapped(i.token)
    <3>1. PICK p \in OtherPayloads : token = [i.token EXCEPT !.payload = p]
      BY <2>3 DEF Swapped
    <3>2. token = [parts |-> 3, header |-> i.token.header, payload |-> p, sig |-> i.token.sig]
      BY <1>3, <3>1
    <3> QED
      BY <1>2, <3>2 DEF IsCompact, IsHeader
  <2> QED
    BY <1>1, <2>1, <2>2, <2>3
<1> QED
  BY <1>4, ShapeAssumption DEF Receiving, IsRequest

(* Requests, tokens and dicts keep their shape.                            *)
LEMMA TypedStep == CInv /\ [Next]_vars => Typed'
<1> SUFFICES ASSUME CInv, [Next]_vars PROVE Typed'
  OBVIOUS
<1> USE DEF DecodeSteps
<1>0. TypeOK /\ IInv /\ Typed
  BY DEF CInv, IInv
<1>1. ASSUME NEW t \in Threads, BeginDecode(t) PROVE Typed'
  <2>1. PICK r \in DecodeRequests, token \in Presentable(issued) :
          req' = [req EXCEPT ![t] = Receiving(r, token)]
    BY <1>1 DEF BeginDecode
  <2>2. IsRequest(req'[t]) /\ IsDict(req'[t].options)
    BY <1>0, <2>1, ReceivingTyped DEF TypeOK
  <2>3. /\ \A u \in Threads : u # t => pc'[u] = pc[u] /\ req'[u] = req[u]
        /\ UNCHANGED <<issued, opts>>
    BY <1>0, <1>1 DEF BeginDecode, Goto, world, TypeOK
  <2> QED
    BY <1>0, <2>2, <2>3 DEF Typed
<1>2. ASSUME NEW t \in Threads, CopyDefaults(t) PROVE Typed'
  <2>1. IsDict(opts'[t]) /\ pc[t] = "copy"
    BY <1>0, <1>2, ShapeAssumption DEF CopyDefaults, At, TypeOK
  <2>2. /\ \A u \in Threads : u # t => pc'[u] = pc[u] /\ opts'[u] = opts[u]
        /\ UNCHANGED <<issued, req>>
    BY <1>0, <1>2 DEF CopyDefaults, Goto, world, TypeOK
  <2> QED
    BY <1>0, <2>1, <2>2 DEF Typed
<1>3. ASSUME NEW t \in Threads, ReadOptions(t) PROVE Typed'
  <2>1. opts'[t] = Merged(req[t], opts[t], Dict(req[t], shared)) /\ pc[t] = "read"
    BY <1>0, <1>3 DEF ReadOptions, At, TypeOK
  <2>2. IsDict(Dict(req[t], shared))
    BY <1>0, <2>1, ShapeAssumption DEF Dict, Typed, TypeOK
  <2>3. IsDict(opts'[t])
    BY <1>0, <2>1, <2>2, MergedTyped DEF Typed
  <2>4. /\ \A u \in Threads : u # t => pc'[u] = pc[u] /\ opts'[u] = opts[u]
        /\ UNCHANGED <<issued, req>>
    BY <1>0, <1>3 DEF ReadOptions, Goto, world, TypeOK
  <2> QED
    BY <1>0, <2>1, <2>3, <2>4 DEF Typed
<1>4. ASSUME NEW t \in Threads, PrepareCall(t) \/ VerifyToken(t) \/ ValidateToken(t)
      PROVE  Typed'
  BY <1>0, <1>4 DEF PrepareCall, VerifyToken, ValidateToken, Conclude, At, Goto, world, TypeOK, Typed
<1>5. ASSUME NEW t \in Threads, ReturnDecoded(t) PROVE Typed'
  <2>1. IsDict(NoOptions)
    BY DEF IsDict, NoOptions
  <2> QED
    BY <1>0, <1>5, <2>1 DEF ReturnDecoded, Goto, world, TypeOK, Typed
<1>6. ASSUME NEW t \in Threads, BeginEncode(t) PROVE Typed'
  BY <1>0, <1>6 DEF BeginEncode, Goto, world, TypeOK, Typed
<1>7. ASSUME NEW t \in Threads, FinishEncode(t) PROVE Typed'
  <2>1. issued' \in {issued, issued \cup {Issued(req[t])}}
    BY <1>7 DEF FinishEncode
  <2>2. IsHeader(Issued(req[t]).token.header)
    BY DEF Issued, Encoded, Token, Prepared, Header, IsHeader
  <2>3. \A u \in Threads : pc'[u] \in DecodeSteps => pc[u] \in DecodeSteps /\ req'[u] = req[u]
    BY <1>0, <1>7 DEF FinishEncode, Goto, TypeOK
  <2> QED
    BY <1>0, <1>7, <2>1, <2>2, <2>3 DEF FinishEncode, Typed
<1>8. CASE EditDefaults \/ EditShared \/ Tick \/ UNCHANGED vars
  BY <1>0, <1>8 DEF EditDefaults, EditShared, Tick, local, vars, Typed
<1> QED
  BY <1>1, <1>2, <1>3, <1>4, <1>5, <1>6, <1>7, <1>8 DEF Next, DecodeStep

(* Every call starts from an empty frame and leaves one.                   *)
LEMMA FramedStep == CInv /\ [Next]_vars => Framed'
<1> SUFFICES ASSUME CInv, [Next]_vars PROVE Framed'
  OBVIOUS
<1>0. TypeOK /\ Framed
  BY DEF CInv, IInv
<1>1. ASSUME NEW t \in Threads, BeginDecode(t) PROVE Framed'
  <2>1. PICK r \in DecodeRequests, token \in Presentable(issued) :
          /\ req' = [req EXCEPT ![t] = Receiving(r, token)]
          /\ pc' = [pc EXCEPT ![t] = IF HasInstance(r) THEN "copy" ELSE "read"]
    BY <1>1 DEF BeginDecode, Goto
  <2>2. HasInstance(Receiving(r, token)) <=> HasInstance(r)
    BY DEF HasInstance, Receiving
  <2> QED
    BY <1>0, <1>1, <2>1, <2>2 DEF BeginDecode, At, TypeOK, Framed
<1>2. ASSUME NEW t \in Threads, CopyDefaults(t) \/ ReadOptions(t) PROVE Framed'
  BY <1>0, <1>2 DEF CopyDefaults, ReadOptions, Goto, TypeOK, Framed
<1>3. ASSUME NEW t \in Threads, PrepareCall(t) \/ VerifyToken(t) \/ ValidateToken(t)
      PROVE  Framed'
  BY <1>0, <1>3 DEF PrepareCall, VerifyToken, ValidateToken, Conclude, Goto, TypeOK, Framed
<1>4. ASSUME NEW t \in Threads, ReturnDecoded(t) PROVE Framed'
  BY <1>0, <1>4 DEF ReturnDecoded, Goto, TypeOK, Framed
<1>5. ASSUME NEW t \in Threads, BeginEncode(t) PROVE Framed'
  <2>1. PICK r \in EncodeRequests :
          req' = [req EXCEPT ![t] = [r EXCEPT !.enforce = Enforcing(defaults)]]
    BY <1>5 DEF BeginEncode
  <2>2. Enforcing(defaults) \in BOOLEAN
    BY DEF Enforcing, Has
  <2>3. \E on \in BOOLEAN : req'[t] = [r EXCEPT !.enforce = on]
    BY <1>0, <2>1, <2>2 DEF TypeOK
  <2>4. \A u \in Threads : u # t => pc'[u] = pc[u] /\ req'[u] = req[u]
    BY <1>0, <1>5 DEF BeginEncode, Goto, TypeOK
  <2>5. opts' = opts /\ pc[t] = "idle" /\ pc'[t] = "sign"
    BY <1>0, <1>5 DEF BeginEncode, Goto, At, TypeOK
  <2> QED
    BY <1>0, <2>3, <2>4, <2>5 DEF Framed
<1>6. ASSUME NEW t \in Threads, FinishEncode(t) PROVE Framed'
  BY <1>0, <1>6 DEF FinishEncode, At, Goto, TypeOK, Framed
<1>7. CASE EditDefaults \/ EditShared \/ Tick \/ UNCHANGED vars
  BY <1>0, <1>7 DEF EditDefaults, EditShared, Tick, local, vars, Framed
<1> QED
  BY <1>1, <1>2, <1>3, <1>4, <1>5, <1>6, <1>7 DEF Next, DecodeStep

(* No call passes a stage it has not been through.                         *)
LEMMA GuardedStep == CInv /\ [Next]_vars => Guarded'
<1> SUFFICES ASSUME CInv, [Next]_vars, NEW u \in Threads,
                    pc'[u] \in {"verify", "claims"} \/ (pc'[u] = "return" /\ verdict'[u] = Ok)
             PROVE  Prepare(req'[u], opts'[u]) = Ok
  BY DEF Guarded, Accepting, At
<1>0. TypeOK /\ Guarded
  BY DEF CInv, IInv
<1>1. ASSUME pc'[u] = pc[u], verdict'[u] = verdict[u], req'[u] = req[u], opts'[u] = opts[u]
      PROVE  Prepare(req'[u], opts'[u]) = Ok
  BY <1>0, <1>1 DEF Guarded, Accepting, At
<1>2. ASSUME NEW t \in Threads, BeginDecode(t) \/ CopyDefaults(t) \/ ReadOptions(t)
      PROVE  Prepare(req'[u], opts'[u]) = Ok
  BY <1>0, <1>1, <1>2 DEF BeginDecode, CopyDefaults, ReadOptions, Goto, TypeOK
<1>3. ASSUME NEW t \in Threads, PrepareCall(t) PROVE Prepare(req'[u], opts'[u]) = Ok
  BY <1>0, <1>1, <1>3 DEF PrepareCall, Conclude, Goto, TypeOK
<1>4. ASSUME NEW t \in Threads, VerifyToken(t) \/ ValidateToken(t)
      PROVE  Prepare(req'[u], opts'[u]) = Ok
  <2>1. Prepare(req[t], opts[t]) = Ok
    BY <1>0, <1>4 DEF VerifyToken, ValidateToken, Guarded, At
  <2> QED
    BY <1>0, <1>1, <1>4, <2>1 DEF VerifyToken, ValidateToken, Conclude, Goto, TypeOK
<1>5. ASSUME NEW t \in Threads, ReturnDecoded(t) \/ BeginEncode(t) \/ FinishEncode(t)
      PROVE  Prepare(req'[u], opts'[u]) = Ok
  BY <1>0, <1>1, <1>5 DEF ReturnDecoded, BeginEncode, FinishEncode, Goto, TypeOK
<1>6. CASE EditDefaults \/ EditShared \/ Tick \/ UNCHANGED vars
  BY <1>1, <1>6 DEF EditDefaults, EditShared, Tick, local, vars
<1> QED
  BY <1>2, <1>3, <1>4, <1>5, <1>6 DEF Next, DecodeStep

(* The clock a call was answered by is between its start and now.          *)
LEMMA TimelyStep == CInv /\ [Next]_vars => Timely'
<1> SUFFICES ASSUME CInv, [Next]_vars, NEW u \in Threads, pc'[u] = "return", verdict'[u] = Ok
             PROVE  \E instant \in began'[u]..now' : CheckClaims(req'[u], opts'[u], instant) = Ok
  BY DEF Timely, Accepting, At
<1>0. TypeOK /\ Timely
  BY DEF CInv, IInv
<1> DEFINE Goal == \E instant \in began'[u]..now' : CheckClaims(req'[u], opts'[u], instant) = Ok
<1>1. ASSUME pc'[u] = pc[u], verdict'[u] = verdict[u], req'[u] = req[u], opts'[u] = opts[u],
             began'[u] = began[u], now' = now \/ now' = now + 1
      PROVE  Goal
  <2>1. PICK instant \in began[u]..now : CheckClaims(req[u], opts[u], instant) = Ok
    BY <1>0, <1>1 DEF Timely, Accepting, At
  <2>2. instant \in began'[u]..now'
    BY <1>0, <1>1, EnvironmentAssumption DEF TypeOK
  <2> QED
    BY <1>1, <2>1, <2>2
<1>2. ASSUME NEW t \in Threads, BeginDecode(t) PROVE Goal
  BY <1>0, <1>1, <1>2 DEF BeginDecode, Goto, world, TypeOK
<1>3. ASSUME NEW t \in Threads, CopyDefaults(t) \/ ReadOptions(t) PROVE Goal
  BY <1>0, <1>1, <1>3 DEF CopyDefaults, ReadOptions, Goto, world, TypeOK
<1>4. ASSUME NEW t \in Threads, PrepareCall(t) \/ VerifyToken(t) PROVE Goal
  BY <1>0, <1>1, <1>4 DEF PrepareCall, VerifyToken, Conclude, Goto, world, TypeOK
<1>5. ASSUME NEW t \in Threads, ValidateToken(t) PROVE Goal
  <2>1. CASE u = t
    <3>1. CheckClaims(req'[u], opts'[u], now) = Ok
      BY <1>0, <1>5, <2>1 DEF ValidateToken, Conclude, TypeOK
    <3>2. now \in began'[u]..now'
      BY <1>0, <1>5, <2>1, EnvironmentAssumption DEF ValidateToken, world, TypeOK
    <3> QED
      BY <3>1, <3>2
  <2>2. CASE u # t
    BY <1>0, <1>1, <1>5, <2>2 DEF ValidateToken, Conclude, Goto, world, TypeOK
  <2> QED
    BY <2>1, <2>2
<1>6. ASSUME NEW t \in Threads, ReturnDecoded(t) \/ BeginEncode(t) \/ FinishEncode(t) PROVE Goal
  BY <1>0, <1>1, <1>6 DEF ReturnDecoded, BeginEncode, FinishEncode, Goto, world, TypeOK
<1>7. CASE EditDefaults \/ EditShared \/ Tick \/ UNCHANGED vars
  BY <1>1, <1>7 DEF EditDefaults, EditShared, Tick, local, vars
<1> QED
  BY <1>2, <1>3, <1>4, <1>5, <1>6, <1>7 DEF Next, DecodeStep

(* The invariant of the contract's proof holds of every thread's call.     *)
LEMMA CInvAlways == Spec => []CInv
<1>1. Init => CInv
  <2>1. ASSUME Init PROVE IInv
    <3>1. \A i \in issued : Sealed(i)
      BY <2>1, EnvironmentAssumption DEF Init, Sealed, IsToken
    <3> QED
      BY <2>1, <3>1, EnvironmentAssumption
         DEF Init, IInv, TypeOK, DecodeSteps, Provenance, Examined, Accepting, At
  <2>2. ASSUME Init PROVE Typed /\ Framed /\ Guarded /\ Timely
    <3>1. IsDict(NoOptions)
      BY DEF IsDict, NoOptions
    <3> QED
      BY <2>2, <3>1, ShapeAssumption
         DEF Init, DecodeSteps, Typed, Framed, Guarded, Timely, Accepting, At
  <2> QED
    BY <2>1, <2>2 DEF CInv
<1>2. CInv /\ [Next]_vars => CInv'
  <2>1. CInv /\ [Next]_vars => IInv'
    BY TypeStep, ProvenanceStep, ExaminedStep DEF CInv, IInv
  <2> QED
    BY <2>1, TypedStep, FramedStep, GuardedStep, TimelyStep DEF CInv
<1> QED
  BY <1>1, <1>2, PTL DEF Spec

(* What a thread decides on is judged by the policy.                       *)
LEMMA Judged ==
  ASSUME CInv, NEW t \in Threads, pc[t] \in DecodeSteps, NEW instant
  PROVE  Acceptable(req[t], opts[t], instant)
           <=> /\ Prepare(req[t], opts[t]) = Ok /\ Examine(req[t], opts[t]) = Ok
               /\ CheckClaims(req[t], opts[t], instant) = Ok
<1>1. IsRequest(req[t]) /\ IsDict(opts[t])
  BY DEF CInv, Typed
<1>2. Decode(req[t], opts[t], instant) = Ok <=> Acceptable(req[t], opts[t], instant)
  BY <1>1, DecodeVerdictIsPolicy
<1> QED
  BY <1>2, Sequencing DEF Decode

(* For any number of threads, requests, dicts and clocks: an accepted      *)
(* token was acceptable at an instant of the call, by the options the call *)
(* was made with.                                                          *)
THEOREM ValidDuringCallAlways == Spec => []ValidDuringCall
<1>1. CInv => ValidDuringCall
  <2>1. SUFFICES ASSUME CInv, NEW t \in Threads, Accepting(t)
                 PROVE  \E instant \in began[t]..now : Acceptable(req[t], opts[t], instant)
    BY DEF ValidDuringCall
  <2>2. pc[t] \in DecodeSteps
    BY <2>1 DEF Accepting, At, DecodeSteps
  <2>3. Prepare(req[t], opts[t]) = Ok /\ Examine(req[t], opts[t]) = Ok
    BY <2>1 DEF CInv, IInv, Guarded, Examined
  <2>4. PICK instant \in began[t]..now : CheckClaims(req[t], opts[t], instant) = Ok
    BY <2>1 DEF CInv, Timely
  <2> QED
    BY <2>1, <2>2, <2>3, <2>4, Judged
<1> QED
  BY <1>1, CInvAlways, PTL

(***************************************************************************)
(* The steps of the threads are steps of the contract, or none.            *)
(***************************************************************************)
(* What the contract sees of the other threads stays as it is.             *)
LEMMA Elsewhere ==
  ASSUME NEW u \in Threads, pc'[u] = pc[u], req'[u] = req[u], verdict'[u] = verdict[u]
  PROVE  /\ Phase(u)' = Phase(u) /\ Seen(u)' = Seen(u) /\ Accepting(u)' = Accepting(u)
         /\ (IF pc[u] = "sign" THEN NoRequest ELSE req[u])'
              = (IF pc[u] = "sign" THEN NoRequest ELSE req[u])
BY DEF Phase, Seen, Accepting, At

(* The contract is an instance with words of its own, which mean the same. *)
LEMMA SamePolicy ==
  \A r, o, i : Contract!Acceptable(r, o, i) <=> Acceptable(r, o, i)
BY DEF
         Acceptable, Contract!Acceptable, Legible, Contract!Legible, Presented,
         Contract!Presented, Attach, Contract!Attach, NoPayload,
         Contract!NoPayload, Named, Contract!Named, Peek, Contract!Peek, Hmac,
         Contract!Hmac, LooksPublic, Contract!LooksPublic, Names,
         Contract!Names, Has, Contract!Has, Verifying, Contract!Verifying,
         Given, Contract!Given, Bool, Contract!Bool, Trusted, Contract!Trusted,
         Bytes, Contract!Bytes, Crypto, Contract!Crypto, Rsa, Contract!Rsa,
         Ecdsa, Contract!Ecdsa, EdDsa, Contract!EdDsa, Scheme, Contract!Scheme,
         IsNone, Contract!IsNone, SameName, Contract!SameName, Supported,
         Contract!Supported, MinLength, Contract!MinLength, Enforcing,
         Contract!Enforcing, ClaimsAcceptable, Contract!ClaimsAcceptable,
         WellTyped, Contract!WellTyped, DateClaims, Contract!DateClaims, IsDate,
         Contract!IsDate, IsString, Contract!IsString, InWindow,
         Contract!InWindow, Earlier, Contract!Earlier, Later, Contract!Later,
         Leeway, Contract!Leeway, IsForCaller, Contract!IsForCaller,
         AudienceMatches, Contract!AudienceMatches, Truthy, Contract!Truthy,
         Null, Contract!Null, Str, Contract!Str, Arr, Contract!Arr, Settings,
         Contract!Settings, Flags, Contract!Flags, Flag, Contract!Flag,
         Expected, Contract!Expected, OptionsClear, Contract!OptionsClear,
         ExpectationsClear, Contract!ExpectationsClear, Permitted,
         Contract!Permitted, KeyFit, Contract!KeyFit

LEMMA SameDicts ==
  /\ \A r, o, p : Contract!Merged(r, o, p) = Merged(r, o, p)
  /\ \A r, o : Contract!Dict(r, o) = Dict(r, o)
  /\ \A r : Contract!HasInstance(r) <=> HasInstance(r)
  /\ Contract!NoOptions = NoOptions
BY DEF
         Merged, Contract!Merged, Bool, Contract!Bool, TurnOff,
         Contract!TurnOff, Update, Contract!Update, Num, Contract!Num,
         Defaulted, Contract!Defaulted, Off, Contract!Off, Has,
         Contract!Has, Names, Contract!Names, Dict, Contract!Dict,
         HasInstance, Contract!HasInstance, NoOptions, Contract!NoOptions,
         Null, Contract!Null

LEMMA SameTokens ==
  /\ \A r : Contract!Issued(r) = Issued(r)
  /\ \A s : Contract!Presentable(s) = Presentable(s)
  /\ \A r, s : Contract!Receiving(r, s) = Receiving(r, s)
  /\ Contract!NoRequest = NoRequest
BY DEF
         Issued, Contract!Issued, Encoded, Contract!Encoded, Prepared,
         Contract!Prepared, Header, Contract!Header, ByJwk,
         Contract!ByJwk, Token, Contract!Token, NoPayload,
         Contract!NoPayload, IsNone, Contract!IsNone, JwkAlg,
         Contract!JwkAlg, SigningAlg, Contract!SigningAlg, NoSig,
         Contract!NoSig, Signature, Contract!Signature, Scheme,
         Contract!Scheme, Hmac, Contract!Hmac, Bytes, Contract!Bytes,
         Presentable, Contract!Presentable, Stripped, Contract!Stripped,
         Swapped, Contract!Swapped, Receiving, Contract!Receiving,
         NoRequest, Contract!NoRequest

LEMMA CallStep ==
  ASSUME CInv, NEW t \in Threads, BeginDecode(t)
  PROVE  Contract!Call(t)
<1>0. TypeOK /\ Framed
  BY DEF CInv, IInv
<1>1. PICK r \in DecodeRequests, token \in Presentable(issued) :
        /\ req' = [req EXCEPT ![t] = Receiving(r, token)]
        /\ pc' = [pc EXCEPT ![t] = IF HasInstance(r) THEN "copy" ELSE "read"]
  BY DEF BeginDecode, Goto
<1>2. HasInstance(Receiving(r, token)) <=> HasInstance(r)
  BY DEF HasInstance, Receiving
<1>3. /\ pc[t] = "idle" /\ pc'[t] = (IF HasInstance(r) THEN "copy" ELSE "read")
      /\ req'[t] = Receiving(r, token)
      /\ UNCHANGED <<opts, verdict, issued, defaults, shared, now>>
  BY <1>0, <1>1 DEF BeginDecode, At, world, TypeOK
<1>4. /\ Phase(t) = "idle" /\ Phase(t)' = "open"
      /\ Seen(t) = {} /\ Seen(t)' = {} /\ Accepting(t) = FALSE /\ Accepting(t)' = FALSE
  BY <1>2, <1>3 DEF Phase, PhaseOf, Seen, Accepting, At, DecodeSteps
<1>5. \A u \in Threads : u # t => pc'[u] = pc[u] /\ req'[u] = req[u] /\ verdict'[u] = verdict[u]
  BY <1>0, <1>1, <1>3 DEF TypeOK
<1>6. \A u \in Threads : u # t =>
         /\ Phase(u)' = Phase(u) /\ Seen(u)' = Seen(u) /\ Accepting(u)' = Accepting(u)
         /\ (IF pc[u] = "sign" THEN NoRequest ELSE req[u])'
              = (IF pc[u] = "sign" THEN NoRequest ELSE req[u])
  BY <1>5, Elsewhere
<1> QED
  BY <1>3, <1>4, <1>6, SameTokens DEF Contract!Call

LEMMA SeeInstanceStep ==
  ASSUME CInv, NEW t \in Threads, CopyDefaults(t)
  PROVE  Contract!SeeInstance(t)
<1>0. TypeOK /\ Framed
  BY DEF CInv, IInv
<1>1. /\ pc[t] = "copy" /\ pc'[t] = "read" /\ HasInstance(req[t])
      /\ opts' = [opts EXCEPT ![t] = defaults]
      /\ UNCHANGED <<req, verdict, issued, defaults, shared, now>>
  BY <1>0 DEF CopyDefaults, At, Goto, world, TypeOK, Framed
<1>2. /\ Phase(t) = "open" /\ Phase(t)' = "open"
      /\ Seen(t) = {} /\ Seen(t)' = {"instance"} /\ Accepting(t) = FALSE /\ Accepting(t)' = FALSE
  BY <1>1 DEF Phase, PhaseOf, Seen, Accepting, At, DecodeSteps
<1>3. \A u \in Threads : u # t =>
         /\ Phase(u)' = Phase(u) /\ Seen(u)' = Seen(u) /\ Accepting(u)' = Accepting(u)
         /\ (IF pc[u] = "sign" THEN NoRequest ELSE req[u])'
              = (IF pc[u] = "sign" THEN NoRequest ELSE req[u])
  BY <1>0, <1>1, Elsewhere DEF CopyDefaults, Goto, TypeOK
<1> QED
  BY <1>1, <1>2, <1>3, SameDicts DEF Contract!SeeInstance

LEMMA SeeOptionsStep ==
  ASSUME CInv, NEW t \in Threads, ReadOptions(t)
  PROVE  Contract!SeeOptions(t)
<1>0. TypeOK /\ Framed
  BY DEF CInv, IInv
<1>1. /\ pc[t] = "read" /\ pc'[t] = "prepare"
      /\ opts' = [opts EXCEPT ![t] = Merged(req[t], @, Dict(req[t], shared))]
      /\ UNCHANGED <<req, verdict, issued, defaults, shared, now>>
  BY <1>0 DEF ReadOptions, At, Goto, world, TypeOK
<1>2. /\ Phase(t) = "open" /\ Phase(t)' = "open"
      /\ Seen(t) = {x \in {"instance"} : HasInstance(req[t])}
      /\ Seen(t)' = Seen(t) \cup {"options"}
      /\ Accepting(t) = FALSE /\ Accepting(t)' = FALSE
  BY <1>1 DEF Phase, PhaseOf, Seen, Accepting, At, DecodeSteps
<1>3. \A u \in Threads : u # t =>
         /\ Phase(u)' = Phase(u) /\ Seen(u)' = Seen(u) /\ Accepting(u)' = Accepting(u)
         /\ (IF pc[u] = "sign" THEN NoRequest ELSE req[u])'
              = (IF pc[u] = "sign" THEN NoRequest ELSE req[u])
  BY <1>0, <1>1, Elsewhere DEF ReadOptions, Goto, TypeOK
<1> QED
  BY <1>1, <1>2, <1>3, SameDicts DEF Contract!SeeOptions

(* The stages between the look at the dict and the way out: one of them    *)
(* answers, and the others leave no trace.                                 *)
LEMMA StageStep ==
  ASSUME CInv, NEW t \in Threads, PrepareCall(t) \/ VerifyToken(t) \/ ValidateToken(t)
  PROVE  Contract!Answer(t) \/ UNCHANGED Contract!vars
<1>0. TypeOK /\ Framed
  BY DEF CInv, IInv
<1>1. /\ pc[t] \in {"prepare", "verify", "claims"}
      /\ pc'[t] \in {"verify", "claims", "return"}
      /\ UNCHANGED <<req, opts, issued, defaults, shared, now>>
  BY <1>0 DEF PrepareCall, VerifyToken, ValidateToken, Conclude, At, Goto, world, TypeOK
<1>2. \A u \in Threads : u # t =>
         /\ Phase(u)' = Phase(u) /\ Seen(u)' = Seen(u) /\ Accepting(u)' = Accepting(u)
         /\ (IF pc[u] = "sign" THEN NoRequest ELSE req[u])'
              = (IF pc[u] = "sign" THEN NoRequest ELSE req[u])
  BY <1>0, <1>1, Elsewhere
     DEF PrepareCall, VerifyToken, ValidateToken, Conclude, Goto, TypeOK
<1>3. /\ Phase(t) = "open" /\ Seen(t)' = Seen(t) /\ "options" \in Seen(t)
      /\ Accepting(t) = FALSE
  BY <1>1 DEF Phase, PhaseOf, Seen, Accepting, At, DecodeSteps
<1>4. CASE pc'[t] # "return"
  <2>1. Phase(t)' = "open" /\ Accepting(t)' = FALSE
    BY <1>1, <1>4 DEF Phase, PhaseOf, Accepting, At
  <2>2. UNCHANGED Contract!vars
    BY <1>1, <1>2, <1>3, <2>1 DEF Contract!vars
  <2> QED
    BY <2>2
<1>5. CASE pc'[t] = "return"
  <2>1. Phase(t)' = "answered" /\ (Accepting(t)' <=> verdict'[t] = Ok)
    BY <1>5 DEF Phase, PhaseOf, Accepting, At
  <2>2. verdict'[t] = Ok <=> Acceptable(req[t], opts[t], now)
    <3>1. Acceptable(req[t], opts[t], now)
            <=> /\ Prepare(req[t], opts[t]) = Ok /\ Examine(req[t], opts[t]) = Ok
                /\ CheckClaims(req[t], opts[t], now) = Ok
      BY <1>1, Judged DEF DecodeSteps
    <3>2. CASE PrepareCall(t)
      BY <1>0, <1>5, <3>1, <3>2 DEF PrepareCall, Conclude, Goto, TypeOK
    <3>3. CASE VerifyToken(t)
      BY <1>0, <1>5, <3>1, <3>3 DEF VerifyToken, Conclude, Goto, TypeOK
    <3>4. CASE ValidateToken(t)
      <4>1. Prepare(req[t], opts[t]) = Ok /\ Examine(req[t], opts[t]) = Ok
        BY <3>4 DEF ValidateToken, At, CInv, IInv, Guarded, Examined
      <4> QED
        BY <1>0, <3>1, <3>4, <4>1 DEF ValidateToken, Conclude, TypeOK
    <3> QED
      BY <3>2, <3>3, <3>4
  <2>3. Accepting(t)' = Contract!Acceptable(req[t], opts[t], now)
    <3>1. Contract!Acceptable(req[t], opts[t], now) <=> Acceptable(req[t], opts[t], now)
      BY SamePolicy
    <3>2. Accepting(t)' \in BOOLEAN /\ Contract!Acceptable(req[t], opts[t], now) \in BOOLEAN
      BY DEF Accepting, Contract!Acceptable
    <3> QED
      BY <2>1, <2>2, <3>1, <3>2
  <2>4. Contract!Answer(t)
    <3>1. [u \in Threads |-> Accepting(u)]'
            = [[u \in Threads |-> Accepting(u)]
                 EXCEPT ![t] = Contract!Acceptable(req[t], opts[t], now)]
      BY <1>2, <2>3
    <3>2. [u \in Threads |-> Phase(u)]' = [[u \in Threads |-> Phase(u)] EXCEPT ![t] = "answered"]
      BY <1>2, <2>1
    <3>3. /\ UNCHANGED [u \in Threads |-> Seen(u)]
          /\ UNCHANGED [u \in Threads |-> IF pc[u] = "sign" THEN NoRequest ELSE req[u]]
          /\ (IF pc[t] = "sign" THEN NoRequest ELSE req[t]) = req[t]
      BY <1>1, <1>2, <1>3
    <3> QED
      BY <1>1, <1>3, <3>1, <3>2, <3>3 DEF Contract!Answer
  <2> QED
    BY <2>4
<1> QED
  BY <1>4, <1>5

LEMMA ReturnStep ==
  ASSUME CInv, NEW t \in Threads, ReturnDecoded(t)
  PROVE  Contract!Return(t)
<1>0. TypeOK /\ Framed
  BY DEF CInv, IInv
<1>1. /\ pc[t] = "return" /\ pc'[t] = "idle" /\ req'[t] = NoRequest
      /\ opts' = [opts EXCEPT ![t] = NoOptions]
      /\ UNCHANGED <<issued, defaults, shared, now>>
  BY <1>0 DEF ReturnDecoded, At, Goto, world, TypeOK
<1>2. /\ Phase(t) = "answered" /\ Phase(t)' = "idle" /\ Seen(t)' = {} /\ Accepting(t)' = FALSE
  BY <1>1 DEF Phase, PhaseOf, Seen, Accepting, At, DecodeSteps
<1>3. \A u \in Threads : u # t =>
         /\ Phase(u)' = Phase(u) /\ Seen(u)' = Seen(u) /\ Accepting(u)' = Accepting(u)
         /\ (IF pc[u] = "sign" THEN NoRequest ELSE req[u])'
              = (IF pc[u] = "sign" THEN NoRequest ELSE req[u])
  BY <1>0, <1>1, Elsewhere DEF ReturnDecoded, Goto, TypeOK
<1> QED
  BY <1>1, <1>2, <1>3, SameDicts, SameTokens DEF Contract!Return

LEMMA StartIssueStep ==
  ASSUME CInv, NEW t \in Threads, BeginEncode(t)
  PROVE  Contract!StartIssue(t)
<1>0. TypeOK /\ Framed
  BY DEF CInv, IInv
<1>1. /\ pc[t] = "idle" /\ pc'[t] = "sign" /\ req[t] = NoRequest
      /\ UNCHANGED <<opts, verdict, issued, defaults, shared, now>>
  BY <1>0 DEF BeginEncode, At, Goto, world, TypeOK, Framed
<1>2. /\ Phase(t) = "idle" /\ Phase(t)' = "issuing"
      /\ Seen(t) = {} /\ Seen(t)' = {} /\ Accepting(t) = FALSE /\ Accepting(t)' = FALSE
  BY <1>1 DEF Phase, PhaseOf, Seen, Accepting, At, DecodeSteps
<1>3. \A u \in Threads : u # t =>
         /\ Phase(u)' = Phase(u) /\ Seen(u)' = Seen(u) /\ Accepting(u)' = Accepting(u)
         /\ (IF pc[u] = "sign" THEN NoRequest ELSE req[u])'
              = (IF pc[u] = "sign" THEN NoRequest ELSE req[u])
  BY <1>0, <1>1, Elsewhere DEF BeginEncode, Goto, TypeOK
<1> QED
  BY <1>1, <1>2, <1>3 DEF Contract!StartIssue

(* What the flag of the instance says has no place in the token.           *)
LEMMA IssuedWhatever ==
  ASSUME NEW r \in EncodeRequests, NEW on
  PROVE  Issued([r EXCEPT !.enforce = on]) = Issued(r)
<1> DEFINE q == [r EXCEPT !.enforce = on]
<1>1. {"entry", "alg", "key", "header", "payload", "encoder", "enforce"} \subseteq DOMAIN r
  BY ShapeAssumption
<1>2. /\ q.entry = r.entry /\ q.alg = r.alg /\ q.key = r.key /\ q.header = r.header
      /\ q.payload = r.payload /\ q.encoder = r.encoder
  BY <1>1
<1> QED
  BY <1>2 DEF Issued, Encoded, Prepared, SigningAlg, JwkAlg, ByJwk

LEMMA IssueStep ==
  ASSUME CInv, NEW t \in Threads, FinishEncode(t)
  PROVE  Contract!Issue(t)
<1>0. TypeOK /\ Framed
  BY DEF CInv, IInv
<1>1. /\ pc[t] = "sign" /\ pc'[t] = "idle" /\ req'[t] = NoRequest
      /\ issued' \in {issued, issued \cup {Issued(req[t])}}
      /\ UNCHANGED <<opts, verdict, defaults, shared, now>>
  BY <1>0 DEF FinishEncode, At, Goto, TypeOK
<1>2. PICK r \in EncodeRequests, on \in BOOLEAN : req[t] = [r EXCEPT !.enforce = on]
  BY <1>0, <1>1 DEF Framed
<1>3. issued' \in {issued, issued \cup {Contract!Issued(r)}}
  BY <1>1, <1>2, IssuedWhatever, SameTokens
<1>4. /\ Phase(t) = "issuing" /\ Phase(t)' = "idle"
      /\ Seen(t) = {} /\ Seen(t)' = {} /\ Accepting(t) = FALSE /\ Accepting(t)' = FALSE
  BY <1>1 DEF Phase, PhaseOf, Seen, Accepting, At, DecodeSteps
<1>5. \A u \in Threads : u # t =>
         /\ Phase(u)' = Phase(u) /\ Seen(u)' = Seen(u) /\ Accepting(u)' = Accepting(u)
         /\ (IF pc[u] = "sign" THEN NoRequest ELSE req[u])'
              = (IF pc[u] = "sign" THEN NoRequest ELSE req[u])
  BY <1>0, <1>1, Elsewhere DEF FinishEncode, Goto, TypeOK
<1> QED
  BY <1>1, <1>3, <1>4, <1>5 DEF Contract!Issue

(* The dicts and the clock are the application's on both sides.            *)
LEMMA ApplicationStep ==
  ASSUME CInv, EditDefaults \/ EditShared \/ Tick \/ UNCHANGED vars
  PROVE  Contract!Application \/ UNCHANGED Contract!vars
<1>1. UNCHANGED <<pc, req, opts, verdict, issued>>
  BY DEF EditDefaults, EditShared, Tick, local, vars
<1>2. \A u \in Threads :
         /\ Phase(u)' = Phase(u) /\ Seen(u)' = Seen(u) /\ Accepting(u)' = Accepting(u)
         /\ (IF pc[u] = "sign" THEN NoRequest ELSE req[u])'
              = (IF pc[u] = "sign" THEN NoRequest ELSE req[u])
  BY <1>1, Elsewhere
<1>3. CASE EditDefaults \/ EditShared \/ Tick
  <2>1. Contract!Application
    BY <1>1, <1>2, <1>3 DEF EditDefaults, EditShared, Tick, Contract!Application
  <2> QED
    BY <2>1
<1>4. CASE UNCHANGED vars
  <2>1. UNCHANGED Contract!vars
    BY <1>1, <1>2, <1>4 DEF vars, Contract!vars
  <2> QED
    BY <2>1
<1> QED
  BY <1>3, <1>4

(* For any number of threads, requests, dicts and tokens: the stages of    *)
(* decode, with another thread between any two, answer as the contract     *)
(* does, in one instant and by the order-free policy.                      *)
THEOREM ServiceImplementsContract == Spec => ContractSpec
<1>1. Init => Contract!Init
  <2>1. ASSUME Init, NEW t \in Threads
        PROVE  /\ Phase(t) = "idle" /\ Seen(t) = {} /\ Accepting(t) = FALSE
               /\ (IF pc[t] = "sign" THEN NoRequest ELSE req[t]) = NoRequest
    BY <2>1 DEF Init, Phase, PhaseOf, Seen, Accepting, At, DecodeSteps
  <2> QED
    BY <2>1, SameDicts, SameTokens DEF Init, Contract!Init
<1>2. CInv /\ [Next]_vars => [Contract!Next]_Contract!vars
  <2> SUFFICES ASSUME CInv, [Next]_vars PROVE Contract!Next \/ UNCHANGED Contract!vars
    OBVIOUS
  <2>1. ASSUME NEW t \in Threads, BeginDecode(t) \/ DecodeStep(t) \/ BeginEncode(t) \/ FinishEncode(t)
        PROVE  Contract!Next \/ UNCHANGED Contract!vars
    BY <2>1, CallStep, SeeInstanceStep, SeeOptionsStep, StageStep, ReturnStep,
       StartIssueStep, IssueStep DEF DecodeStep, Contract!Next
  <2>2. CASE EditDefaults \/ EditShared \/ Tick \/ UNCHANGED vars
    BY <2>2, ApplicationStep DEF Contract!Next
  <2> QED
    BY <2>1, <2>2 DEF Next
<1> QED
  BY <1>1, <1>2, CInvAlways, PTL DEF Spec, ContractSpec, Contract!Spec
=============================================================================
