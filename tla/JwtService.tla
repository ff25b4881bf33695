----------------------------- MODULE JwtService -----------------------------
(***************************************************************************)
(* encode and decode as concurrent threads execute them.  A decode call    *)
(* goes through the steps of webtoken.py and lib.rs between which another  *)
(* thread can run: it copies the options of its instance, reads the dict   *)
(* it was given, prepares under the interpreter lock, verifies and checks  *)
(* the claims without it, and takes the lock again to return.  An encode   *)
(* call keeps the lock from its first line in lib.rs to its last.          *)
(***************************************************************************)
EXTENDS JwtEnvironment

VARIABLES
  pc,        \* thread -> where it is
  req,       \* thread -> its request
  opts,      \* thread -> the dict of merged options it builds
  verdict,   \* thread -> Ok or the error it is about to raise
  began,     \* thread -> when its call began (history)
  issued,    \* the tokens that exist, with their signers
  defaults,  \* the options attribute of the PyJWT and PyJWS instances
  shared,    \* an options dict that several threads pass
  gil,       \* the thread that keeps the interpreter lock across steps
  now        \* the system clock

local  == <<pc, req, opts, verdict, began>>
world  == <<issued, defaults, shared, now>>
vars   == <<pc, req, opts, verdict, began, issued, defaults, shared, gil, now>>

DecodeSteps == {"copy", "read", "prepare", "verify", "claims", "return"}

(* Python code, and Rust code before py.detach, runs under the lock.       *)
HasGil(t) == gil \in {NoThread, t}

At(t, here)   == pc[t] = here
Goto(t, next) == pc' = [pc EXCEPT ![t] = next]

(* Mutant: the early return is missing, the next stage overwrites it.      *)
Conclude_GoesOn(t, outcome, next) ==
  verdict' = [verdict EXCEPT ![t] = outcome] /\ Goto(t, next)

(* The end of a stage: go on if it found nothing, else raise its error.    *)
Conclude(t, outcome, next) ==
  /\ verdict' = [verdict EXCEPT ![t] = outcome]
  /\ Goto(t, IF outcome = Ok THEN next ELSE "return")

Init ==
  /\ pc = [t \in Threads |-> "idle"]
  /\ req = [t \in Threads |-> NoRequest]
  /\ opts = [t \in Threads |-> NoOptions]
  /\ verdict = [t \in Threads |-> Ok]
  /\ began = [t \in Threads |-> 0]
  /\ issued = Foreign
  /\ defaults \in DefaultDicts /\ shared \in OptionDicts
  /\ gil = NoThread
  /\ now = 0

(***************************************************************************)
(* decode                                                                  *)
(***************************************************************************)
BeginDecode(t) ==
  /\ At(t, "idle") /\ HasGil(t)
  /\ \E r \in DecodeRequests, token \in Presentable(issued) :
       /\ req' = [req EXCEPT ![t] = Receiving(r, token)]
       /\ Goto(t, IF HasInstance(r) THEN "copy" ELSE "read")
  /\ began' = [began EXCEPT ![t] = now]
  /\ UNCHANGED <<opts, verdict, gil, world>>

(* self.options.copy()                                                     *)
CopyDefaults(t) ==
  /\ At(t, "copy") /\ HasGil(t)
  /\ opts' = [opts EXCEPT ![t] = defaults]
  /\ Goto(t, "read")
  /\ UNCHANGED <<req, verdict, began, gil, world>>

(* Mutant: the options of the instance are read again, not the copy.       *)
ReadOptions_Live(t) ==
  /\ At(t, "read") /\ HasGil(t)
  /\ opts' = [opts EXCEPT ![t] = Merged(req[t], IF HasInstance(req[t]) THEN defaults ELSE @,
                                        Dict(req[t], shared))]
  /\ Goto(t, "prepare")
  /\ UNCHANGED <<req, verdict, began, gil, world>>

(* merged.update(options), or options.copy() without an instance, and then *)
(* the verify and leeway arguments on top                                  *)
ReadOptions(t) ==
  /\ At(t, "read") /\ HasGil(t)
  /\ opts' = [opts EXCEPT ![t] = Merged(req[t], @, Dict(req[t], shared))]
  /\ Goto(t, "prepare")
  /\ UNCHANGED <<req, verdict, began, gil, world>>

(* rust decode_complete, up to py.detach                                   *)
PrepareCall(t) ==
  /\ At(t, "prepare") /\ HasGil(t)
  /\ Conclude(t, Prepare(req[t], opts[t]), "verify")
  /\ UNCHANGED <<req, opts, began, gil, world>>

(* jwt::decode, detached: what needs no clock, then what does              *)
VerifyToken(t) ==
  /\ At(t, "verify")
  /\ Conclude(t, Examine(req[t], opts[t]), "claims")
  /\ UNCHANGED <<req, opts, began, gil, world>>

(* Mutant: a clock that was read once, when the module was loaded.         *)
ValidateToken_StaleClock(t) ==
  /\ At(t, "claims")
  /\ Conclude(t, CheckClaims(req[t], opts[t], 0), "return")
  /\ UNCHANGED <<req, opts, began, gil, world>>

ValidateToken(t) ==
  /\ At(t, "claims")
  /\ Conclude(t, CheckClaims(req[t], opts[t], now), "return")
  /\ UNCHANGED <<req, opts, began, gil, world>>

(* Mutant: the error of this call is left for the next.                    *)
ReturnDecoded_KeepsError(t) ==
  /\ At(t, "return") /\ HasGil(t)
  /\ Goto(t, "idle")
  /\ req' = [req EXCEPT ![t] = NoRequest]
  /\ opts' = [opts EXCEPT ![t] = NoOptions]
  /\ began' = [began EXCEPT ![t] = 0]
  /\ UNCHANGED <<verdict, gil, world>>

(* pythonize the token, or raise                                           *)
ReturnDecoded(t) ==
  /\ At(t, "return") /\ HasGil(t)
  /\ Goto(t, "idle")
  /\ req' = [req EXCEPT ![t] = NoRequest]
  /\ opts' = [opts EXCEPT ![t] = NoOptions]
  /\ verdict' = [verdict EXCEPT ![t] = Ok]
  /\ began' = [began EXCEPT ![t] = 0]
  /\ UNCHANGED <<gil, world>>

(***************************************************************************)
(* encode: PyJWS looks up its registry and its options, and the Rust side  *)
(* signs with the lock held, for it has no py.detach.                      *)
(***************************************************************************)
BeginEncode(t) ==
  /\ At(t, "idle") /\ HasGil(t)
  /\ \E r \in EncodeRequests :
       req' = [req EXCEPT ![t] = [r EXCEPT !.enforce = Enforcing(defaults)]]
  /\ gil' = t
  /\ Goto(t, "sign")
  /\ UNCHANGED <<opts, verdict, began, world>>

(* Mutant: signing fails without giving the interpreter lock back.         *)
FinishEncode_KeepsGil(t) ==
  /\ At(t, "sign")
  /\ IF Encode(req[t], Registry) = Ok
     THEN issued' = issued \cup {Issued(req[t])} /\ gil' = NoThread
     ELSE UNCHANGED <<issued, gil>>
  /\ Goto(t, "idle")
  /\ req' = [req EXCEPT ![t] = NoRequest]
  /\ UNCHANGED <<opts, verdict, began, defaults, shared, now>>

FinishEncode(t) ==
  /\ At(t, "sign")
  /\ issued' = IF Encode(req[t], Registry) = Ok THEN issued \cup {Issued(req[t])} ELSE issued
  /\ gil' = NoThread
  /\ Goto(t, "idle")
  /\ req' = [req EXCEPT ![t] = NoRequest]
  /\ UNCHANGED <<opts, verdict, began, defaults, shared, now>>

(***************************************************************************)
(* The application edits the dicts it owns, and time passes.               *)
(***************************************************************************)
EditDefaults ==
  /\ gil = NoThread /\ defaults' \in DefaultDicts \ {defaults}
  /\ UNCHANGED <<local, issued, shared, gil, now>>

EditShared ==
  /\ gil = NoThread /\ shared' \in OptionDicts \ {shared}
  /\ UNCHANGED <<local, issued, defaults, gil, now>>

Tick ==
  /\ now < MaxTime /\ now' = now + 1
  /\ UNCHANGED <<local, issued, defaults, shared, gil>>

DecodeStep(t) ==
  \/ CopyDefaults(t) \/ ReadOptions(t) \/ PrepareCall(t)
  \/ VerifyToken(t) \/ ValidateToken(t) \/ ReturnDecoded(t)

Next ==
  \/ \E t \in Threads : BeginDecode(t) \/ DecodeStep(t) \/ BeginEncode(t) \/ FinishEncode(t)
  \/ EditDefaults \/ EditShared \/ Tick

Spec == Init /\ [][Next]_vars

(* A thread inside the library runs on.  The steps under the lock can be   *)
(* disabled again and again by encoders, and the interpreter hands the     *)
(* lock to every waiting thread, so their fairness is strong.              *)
Fairness ==
  \A t \in Threads : SF_vars(DecodeStep(t)) /\ WF_vars(FinishEncode(t))

FairSpec == Spec /\ Fairness

(***************************************************************************)
(* Properties.                                                             *)
(***************************************************************************)
(* The shape of every thread's frame: an error only on the way out, known  *)
(* errors only, and the lock kept by exactly the thread that signs.        *)
TypeOK ==
  /\ pc \in [Threads -> DecodeSteps \cup {"idle", "sign"}]
  /\ DOMAIN req = Threads /\ DOMAIN opts = Threads
  /\ \A t \in Threads : pc[t] # "return" => verdict[t] = Ok
  /\ verdict \in [Threads -> {Ok} \cup Errors]
  /\ began \in [Threads -> 0..MaxTime] /\ now \in 0..MaxTime
  /\ \A t \in Threads : began[t] <= now
  /\ defaults \in DefaultDicts /\ shared \in OptionDicts
  /\ gil \in Threads \cup {NoThread}
  /\ \A t \in Threads : gil = t <=> pc[t] = "sign"

Accepting(t) == At(t, "return") /\ verdict[t] = Ok

(* Whatever the threads interleave and whatever tokens are cut and pasted  *)
(* together, a verified decode returns a header and a payload that the     *)
(* holder of the very key it was called with signed together.              *)
Authentic ==
  \A t \in Threads : Accepting(t) /\ Verifying(opts[t]) =>
    LET token == Presented(req[t])
    IN  \E i \in issued :
          /\ i.token.header = token.header /\ i.payload = token.payload
          /\ i.key.of = req[t].key.of /\ i.key.kty = req[t].key.kty

(* The clock is read once, in the middle of the call, and may move on      *)
(* before the answer is out: the token was acceptable at some instant      *)
(* between the call and its return.                                        *)
ValidDuringCall ==
  \A t \in Threads : Accepting(t) =>
    \E instant \in began[t]..now : Acceptable(req[t], opts[t], instant)

(* Every call of encode or decode returns.                                 *)
CallsReturn == \A t \in Threads : pc[t] # "idle" ~> pc[t] = "idle"
=============================================================================
