-------------------------- MODULE AlgorithmRegistry --------------------------
(***************************************************************************)
(* The two tables of algorithms, as threads use them: the dict of handlers *)
(* of one PyJWS instance (webtoken.py), which guards encode, and the table *)
(* of providers of the extension (lib.rs), a map behind an RwLock.  No     *)
(* reader of the second table exists: encode asks the first for the name   *)
(* alone and signs with the extension's own algorithms.                    *)
(*                                                                         *)
(* Python lines of two threads interleave wherever the interpreter         *)
(* switches.  A thread in the extension keeps the interpreter lock, also   *)
(* while it waits for the RwLock; a free-threaded interpreter, for which   *)
(* the extension is built as well (abi3t), has no such lock.               *)
(*                                                                         *)
(* Init, Next, Spec and TypeOK bear the name of the module here, because   *)
(* Handlers_proofs extends it together with KeySetService.                 *)
(***************************************************************************)
EXTENDS Naturals

CONSTANTS
  Threads,      \* application threads
  NoThread,     \* who holds a lock when nobody does
  NoGil,        \* the interpreter lock of a free-threaded interpreter
  AlgNames,     \* names of algorithms
  Upper,        \* name -> its upper-case form
  Defaults,     \* names get_default_algorithms has handlers for
  Filters,      \* values of the algorithms argument of PyJWS
  Objects,      \* objects registered as handlers or providers
  Nothing,      \* no object
  Instances,    \* the objects that are instances of Algorithm
  Finalised     \* the objects whose class has a finaliser

ASSUME RegistryAssumption ==
  /\ NoThread \notin Threads /\ NoGil \notin Threads \cup {NoThread}
  /\ Upper \in [AlgNames -> AlgNames] /\ \A n \in AlgNames : Upper[Upper[n]] = Upper[n]
  /\ Defaults \subseteq AlgNames
  /\ Instances \subseteq Objects /\ Finalised \subseteq Objects
  /\ Nothing \notin Objects \cup {"builtin"}

VARIABLES
  pc,          \* thread -> where it is
  req,         \* thread -> its call
  algorithms,  \* self._algorithms
  fresh,       \* registering thread -> the names whose handler came in after
               \* its check (history)
  providers,   \* ALGORITHM_REGISTRY
  writer,      \* the thread with the write guard of the RwLock
  gil          \* the thread that keeps the interpreter lock across steps

python       == <<algorithms, fresh>>
rust         == <<providers, writer>>
registryVars == <<pc, req, algorithms, fresh, providers, writer, gil>>

NoCall == [op |-> "none"]

HasGil(t) == gil \in {NoThread, NoGil, t}
Keep(t)   == gil' = IF gil = NoGil THEN NoGil ELSE t
Release   == gil' = IF gil = NoGil THEN NoGil ELSE NoThread

At(t, here)   == pc[t] = here
Goto(t, next) == pc' = [pc EXCEPT ![t] = next]
Return(t)     == Goto(t, "idle") /\ req' = [req EXCEPT ![t] = NoCall]
Call(t, r)    == req' = [req EXCEPT ![t] = r]

Put(table, name, object) ==
  [n \in DOMAIN table \cup {name} |-> IF n = name THEN object ELSE table[n]]
Without(table, name)     == [n \in DOMAIN table \ {name} |-> table[n]]
Lookup(table, name)      == IF name \in DOMAIN table THEN table[name] ELSE Nothing

(* The handlers of get_default_algorithms are none of the objects that are *)
(* registered later; one object stands for them all.                       *)
Builtin == [name \in Defaults |-> "builtin"]

(* PyJWS(algorithms): an empty filter or none leaves all defaults in.      *)
RegistryInit ==
  /\ pc = [t \in Threads |-> "idle"]
  /\ req = [t \in Threads |-> NoCall]
  /\ \E allowed \in Filters :
       algorithms = [n \in (IF allowed = {} THEN Defaults ELSE Defaults \cap allowed)
                       |-> Builtin[n]]
  /\ fresh = [t \in Threads |-> {}]
  /\ providers = [n \in {} |-> Nothing]
  /\ writer = NoThread
  /\ gil \in {NoThread, NoGil}

(***************************************************************************)
(* PyJWS.register_algorithm and unregister_algorithm: a check and then the *)
(* change, as two lines.  A call that its check refuses changes nothing.   *)
(***************************************************************************)
(* Mutant: the name is not looked up.                                      *)
CheckFree_Unguarded(t) ==
  /\ At(t, "idle") /\ HasGil(t)
  /\ \E name \in AlgNames, object \in Instances :
       Call(t, [op |-> "register", name |-> name, object |-> object])
  /\ Goto(t, "insert")
  /\ UNCHANGED <<python, rust, gil>>

CheckFree(t) ==
  /\ At(t, "idle") /\ HasGil(t)
  /\ \E name \in AlgNames \ DOMAIN algorithms, object \in Instances :
       Call(t, [op |-> "register", name |-> name, object |-> object])
  /\ Goto(t, "insert")
  /\ UNCHANGED <<python, rust, gil>>

Insert(t) ==
  /\ At(t, "insert") /\ HasGil(t)
  /\ algorithms' = Put(algorithms, req[t].name, req[t].object)
  /\ fresh' = [u \in Threads |-> IF u # t /\ At(u, "insert")
                                 THEN fresh[u] \cup {req[t].name} ELSE {}]
  /\ Return(t)
  /\ UNCHANGED <<rust, gil>>

CheckPresent(t) ==
  /\ At(t, "idle") /\ HasGil(t)
  /\ \E name \in DOMAIN algorithms :
       Call(t, [op |-> "unregister", name |-> name])
  /\ Goto(t, "remove")
  /\ UNCHANGED <<python, rust, gil>>

(* del raises KeyError when the name has gone since the check.             *)
Delete(t) ==
  /\ At(t, "remove") /\ HasGil(t)
  /\ algorithms' = Without(algorithms, req[t].name)
  /\ fresh' = [u \in Threads |-> fresh[u] \ {req[t].name}]
  /\ Return(t)
  /\ UNCHANGED <<rust, gil>>

(***************************************************************************)
(* PyJWS.encode: the alg of the headers wins over the argument, the dict   *)
(* of handlers must have the name, and the extension signs.                *)
(***************************************************************************)
Guard(t) ==
  /\ At(t, "idle") /\ HasGil(t)
  /\ \E argument \in AlgNames, header \in AlgNames \cup {Nothing} :
       LET name == IF header = Nothing THEN argument ELSE header
       IN  name \in DOMAIN algorithms /\ Call(t, [op |-> "encode", name |-> name])
  /\ Goto(t, "sign")
  /\ UNCHANGED <<python, rust, gil>>

Sign(t) ==
  /\ At(t, "sign") /\ HasGil(t)
  /\ Return(t)
  /\ UNCHANGED <<python, rust, gil>>

(***************************************************************************)
(* register_algorithm and unregister_algorithm of lib.rs.                  *)
(***************************************************************************)
TableCalls ==
  [op : {"provide"}, name : AlgNames, object : Objects]
    \cup [op : {"withdraw"}, name : AlgNames]

Enter(t) ==
  /\ At(t, "idle") /\ HasGil(t)
  /\ \E r \in TableCalls : Call(t, r)
  /\ Goto(t, "lock") /\ Keep(t)
  /\ UNCHANGED <<python, rust>>

(* Mutant: the interpreter lock is given up as soon as the guard is held.  *)
Lock_Detaches(t) ==
  /\ At(t, "lock") /\ writer = NoThread
  /\ writer' = t
  /\ Goto(t, "swap") /\ Release
  /\ UNCHANGED <<req, python, providers>>

(* write() *)
Lock(t) ==
  /\ At(t, "lock") /\ writer = NoThread
  /\ writer' = t
  /\ Goto(t, "swap")
  /\ UNCHANGED <<req, python, providers, gil>>

Old(t) == Lookup(providers, Upper[req[t].name])

(* The value that insert or remove hands back is dropped at the end of the *)
(* statement, before the guard.  If it was the last reference, Python runs *)
(* the finaliser there and then.                                           *)
Dropped(t) == Old(t) \in Finalised /\ ~(req[t].op = "provide" /\ req[t].object = Old(t))

(* Mutant: the name is used as it was given.                               *)
Swap_AsGiven(t) ==
  /\ At(t, "swap")
  /\ providers' = IF req[t].op = "provide" THEN Put(providers, req[t].name, req[t].object)
                  ELSE Without(providers, req[t].name)
  /\ \/ Goto(t, "unlock") /\ UNCHANGED gil
     \/ Dropped(t) /\ Goto(t, "finalise") /\ Release
  /\ UNCHANGED <<req, python, writer>>

Swap(t) ==
  /\ At(t, "swap")
  /\ providers' = LET name == Upper[req[t].name]
                  IN  IF req[t].op = "provide" THEN Put(providers, name, req[t].object)
                      ELSE Without(providers, name)
  /\ \/ Goto(t, "unlock") /\ UNCHANGED gil
     \/ Dropped(t) /\ Goto(t, "finalise") /\ Release
  /\ UNCHANGED <<req, python, writer>>

FinaliserReturns(t) ==
  /\ At(t, "finalise") /\ HasGil(t)
  /\ Goto(t, "unlock") /\ Keep(t)
  /\ UNCHANGED <<req, python, rust>>

(* A finaliser that uses the table itself.  Its frame replaces that of the *)
(* call it interrupts: neither returns.                                    *)
FinaliserCalls(t) ==
  /\ At(t, "finalise") /\ HasGil(t)
  /\ \E r \in TableCalls : Call(t, r)
  /\ Goto(t, "lock") /\ Keep(t)
  /\ UNCHANGED <<python, rust>>

(* Mutant: the guard outlives the call.                                    *)
Unlock_Leaks(t) ==
  /\ At(t, "unlock")
  /\ Return(t) /\ Release
  /\ UNCHANGED <<python, rust>>

Unlock(t) ==
  /\ At(t, "unlock")
  /\ writer' = NoThread
  /\ Return(t) /\ Release
  /\ UNCHANGED <<python, providers>>

Begin(t) == CheckFree(t) \/ CheckPresent(t) \/ Guard(t) \/ Enter(t)

Step(t) ==
  \/ Insert(t) \/ Delete(t) \/ Sign(t)
  \/ Lock(t) \/ Swap(t) \/ FinaliserReturns(t) \/ FinaliserCalls(t) \/ Unlock(t)

RegistryNext == \E t \in Threads : Begin(t) \/ Step(t)

RegistrySpec == RegistryInit /\ [][RegistryNext]_registryVars

(* A thread in a call runs on whenever it can: the interpreter passes its  *)
(* lock to every waiting thread, and the RwLock wakes every waiting one,   *)
(* but a step can be disabled again and again in between.                  *)
FairSpec == RegistrySpec /\ \A t \in Threads : SF_registryVars(Step(t))

(***************************************************************************)
(* Properties.                                                             *)
(***************************************************************************)
InTable == {"swap", "finalise", "unlock"}

(* The tables hold what was put in, and the write guard belongs to the     *)
(* thread that is in the table (or re-entered it from a finaliser).        *)
RegistryTypeOK ==
  /\ pc \in [Threads -> {"idle", "insert", "remove", "sign", "lock"} \cup InTable]
  /\ DOMAIN algorithms \subseteq AlgNames
  /\ fresh \in [Threads -> SUBSET DOMAIN algorithms]
  /\ \A n \in DOMAIN algorithms : algorithms[n] \in Instances \cup {"builtin"}
  /\ \A n \in DOMAIN providers : Upper[n] = n /\ providers[n] \in Objects
  /\ writer \in Threads \cup {NoThread} /\ gil \in Threads \cup {NoThread, NoGil}
  /\ \A t \in Threads : pc[t] \in InTable => writer = t
  /\ writer # NoThread => pc[writer] \in InTable \cup {"lock"}

(* 'Algorithm already has a handler.' (webtoken.py:321): a registration    *)
(* never takes the place of a handler that was there when it began.  A     *)
(* handler is lost only to a call that asked for its removal, or to a      *)
(* registration whose check came before the handler did, however the lines *)
(* of other threads fall between the two of that call.  (Of two threads    *)
(* that both pass the check, the second replaces the first one's handler.) *)
LostOnlyToOverlap ==
  [][\A n \in DOMAIN algorithms :
       \/ n \in DOMAIN algorithms' /\ algorithms'[n] = algorithms[n]
       \/ \E t \in Threads : /\ At(t, "remove") /\ At(t, "idle")'
                            /\ req[t].name = n /\ n \notin DOMAIN algorithms'
       \/ \E t \in Threads : /\ At(t, "insert") /\ At(t, "idle")'
                            /\ req[t].name = n /\ n \in fresh[t]]_registryVars

(* Who keeps the interpreter lock and waits for the table waits for a      *)
(* finaliser: the table's own code never lets the interpreter lock go.     *)
OnlyFinalisersBlock ==
  \A t \in Threads : gil = t /\ At(t, "lock") /\ writer \notin {NoThread, t} =>
    At(writer, "finalise")

(* Waiting that cannot end: for itself, or for a finaliser that waits for  *)
(* the interpreter lock.                                                   *)
Wedged ==
  \E t, u \in Threads :
    At(t, "lock") /\ writer = u /\ (u = t \/ (gil = t /\ At(u, "finalise")))

(* Every call on either table returns, unless a finaliser ran under the    *)
(* write guard and itself, or a thread that came meanwhile, waits for it.  *)
CallsReturn == \A t \in Threads : pc[t] # "idle" ~> pc[t] = "idle" \/ Wedged
=============================================================================
