--------------------------- MODULE DecodeContract ---------------------------
(***************************************************************************)
(* What decode promises its callers, however many threads call at once: a  *)
(* call takes one look at the options of its instance and a later one at   *)
(* the dict it was given, and is then answered in one                      *)
(* instant, by what is Acceptable under what it saw and at the time of     *)
(* that instant.  Nothing else about the call can be observed.             *)
(***************************************************************************)
EXTENDS JwtEnvironment

VARIABLES
  phase,     \* thread -> "idle", "issuing", "open" or "answered"
  req,       \* thread -> its decode request
  seen,      \* thread -> which of "instance" and "options" it has looked at
  opts,      \* thread -> the options it is judged by, as it saw them
  accepted,  \* thread -> the answer
  issued,    \* the tokens that exist
  defaults,  \* the options attribute of the instances
  shared,    \* the dict the threads share
  now

vars == <<phase, req, seen, opts, accepted, issued, defaults, shared, now>>

Init ==
  /\ phase = [t \in Threads |-> "idle"]
  /\ req = [t \in Threads |-> NoRequest]
  /\ seen = [t \in Threads |-> {}]
  /\ opts = [t \in Threads |-> NoOptions]
  /\ accepted = [t \in Threads |-> FALSE]
  /\ issued = Foreign
  /\ defaults \in DefaultDicts /\ shared \in OptionDicts
  /\ now = 0

Call(t) ==
  /\ phase[t] = "idle"
  /\ \E r \in DecodeRequests, token \in Presentable(issued) :
       req' = [req EXCEPT ![t] = Receiving(r, token)]
  /\ phase' = [phase EXCEPT ![t] = "open"]
  /\ UNCHANGED <<seen, opts, accepted, issued, defaults, shared, now>>

SeeInstance(t) ==
  /\ phase[t] = "open" /\ seen[t] = {} /\ HasInstance(req[t])
  /\ seen' = [seen EXCEPT ![t] = {"instance"}]
  /\ opts' = [opts EXCEPT ![t] = defaults]
  /\ UNCHANGED <<phase, req, accepted, issued, defaults, shared, now>>

SeeOptions(t) ==
  /\ phase[t] = "open" /\ "options" \notin seen[t]
  /\ HasInstance(req[t]) => "instance" \in seen[t]
  /\ seen' = [seen EXCEPT ![t] = @ \cup {"options"}]
  /\ opts' = [opts EXCEPT ![t] = Merged(req[t], @, Dict(req[t], shared))]
  /\ UNCHANGED <<phase, req, accepted, issued, defaults, shared, now>>

Answer(t) ==
  /\ phase[t] = "open" /\ "options" \in seen[t]
  /\ phase' = [phase EXCEPT ![t] = "answered"]
  /\ accepted' = [accepted EXCEPT ![t] = Acceptable(req[t], opts[t], now)]
  /\ UNCHANGED <<req, seen, opts, issued, defaults, shared, now>>

Return(t) ==
  /\ phase[t] = "answered"
  /\ phase' = [phase EXCEPT ![t] = "idle"]
  /\ req' = [req EXCEPT ![t] = NoRequest]
  /\ seen' = [seen EXCEPT ![t] = {}]
  /\ opts' = [opts EXCEPT ![t] = NoOptions]
  /\ accepted' = [accepted EXCEPT ![t] = FALSE]
  /\ UNCHANGED <<issued, defaults, shared, now>>

(* encode: a token comes to exist while its thread is busy with it.        *)
StartIssue(t) ==
  /\ phase[t] = "idle"
  /\ phase' = [phase EXCEPT ![t] = "issuing"]
  /\ UNCHANGED <<req, seen, opts, accepted, issued, defaults, shared, now>>

Issue(t) ==
  /\ phase[t] = "issuing"
  /\ phase' = [phase EXCEPT ![t] = "idle"]
  /\ \/ \E r \in EncodeRequests : issued' = issued \cup {Issued(r)}
     \/ UNCHANGED issued
  /\ UNCHANGED <<req, seen, opts, accepted, defaults, shared, now>>

Application ==
  /\ \/ defaults' \in DefaultDicts /\ UNCHANGED <<shared, now>>
     \/ shared' \in OptionDicts /\ UNCHANGED <<defaults, now>>
     \/ now < MaxTime /\ now' = now + 1 /\ UNCHANGED <<defaults, shared>>
  /\ UNCHANGED <<phase, req, seen, opts, accepted, issued>>

Next ==
  \/ \E t \in Threads :
       \/ Call(t) \/ SeeInstance(t) \/ SeeOptions(t) \/ Answer(t) \/ Return(t)
       \/ StartIssue(t) \/ Issue(t)
  \/ Application

Spec == Init /\ [][Next]_vars
=============================================================================
