---------------------------- MODULE JwtRefinement ----------------------------
(***************************************************************************)
(* The threads of JwtService implement DecodeContract: the stages of a     *)
(* decode call, with their guards and early returns on both sides of the   *)
(* interpreter lock, add up to one answer given in one instant.            *)
(***************************************************************************)
EXTENDS JwtService

PhaseOf == [idle |-> "idle", sign |-> "issuing", return |-> "answered"]

Phase(t) == IF pc[t] \in DOMAIN PhaseOf THEN PhaseOf[pc[t]] ELSE "open"

Seen(t) ==
  {x \in {"instance", "options"} :
     \/ x = "instance" /\ HasInstance(req[t]) /\ pc[t] \in DecodeSteps \ {"copy"}
     \/ x = "options" /\ pc[t] \in {"prepare", "verify", "claims", "return"}}

Contract == INSTANCE DecodeContract WITH
  phase    <- [t \in Threads |-> Phase(t)],
  req      <- [t \in Threads |-> IF pc[t] = "sign" THEN NoRequest ELSE req[t]],
  seen     <- [t \in Threads |-> Seen(t)],
  accepted <- [t \in Threads |-> Accepting(t)]

(* decode answers as if it decided in a single instant, by the order-free  *)
(* condition of JwtPolicy, on one look at each dict.                       *)
ContractSpec == Contract!Spec
=============================================================================
