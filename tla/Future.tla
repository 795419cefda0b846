------------------------------- MODULE Future -------------------------------
(***************************************************************************)
(* base::Promise and base::Future (base/future.h), and the one who uses    *)
(* them across threads: EndPointResolver::Resolve(), whose callers in      *)
(* DoRemoteExecute() and DoPoll() wait for the name to be resolved.        *)
(*                                                                         *)
(* A step is what a thread does while it holds the mutex of the state.     *)
(***************************************************************************)
LOCAL INSTANCE Naturals

CONSTANTS
  Promises,   \* the promises that are made
  Resolver    \* those of them made by Resolve(), by one calling thread each

NoThread == "no thread"
Owner == "owner"         \* the thread that destroys a promise
Null == "null"           \* EndPointPtr()
Address == "address"

\* The thread that Resolve() starts has the name of its promise.
ASSUME FutureAssumption ==
  /\ Resolver \subseteq Promises
  /\ Resolver \intersect {NoThread, Owner} = {}

VARIABLES
  state,     \* Future::State: fulfilled, async_id, value
  resolve,   \* where the thread that calls Resolve() is
  lookup,    \* where the thread of the promise is, and what TcpHost() returned
  resolved   \* what GetValue() gave the caller

futureVars == <<state, resolve, lookup, resolved>>

Unfulfilled == [fulfilled |-> FALSE, async |-> NoThread, value |-> Null]

FutureInit ==
  /\ state = [p \in Promises |-> Unfulfilled]
  /\ resolve = [p \in Resolver |-> "start"]
  /\ lookup = [p \in Resolver |-> [pc |-> "unborn", found |-> Null]]
  /\ resolved = [p \in Resolver |-> Null]

\* Faulty: whoever comes first sets the value.
SetStateValueFirst(s, v, self) ==
  IF ~s.fulfilled THEN [s EXCEPT !.value = v, !.fulfilled = TRUE] ELSE s

\* Once a thread is to find out the value, nobody else sets it.
SetStateValue(s, v, self) ==
  IF ~s.fulfilled /\ s.async \in {NoThread, self}
  THEN [s EXCEPT !.value = v, !.fulfilled = TRUE] ELSE s

\* notify_all() to those who wait for p, if it is fulfilled now.
Notified(p) ==
  [r \in Resolver |-> IF r = p /\ resolve[r] = "wait" /\ state'[r].fulfilled
                      THEN "check" ELSE resolve[r]]

\* ~Promise(): the value for a promise that was never set.
Broken(s, default) == SetStateValue(s, default, Owner)

\* SetValue(fn): the thread is started and known under the mutex.
ResolveStart(p) ==
  /\ resolve[p] = "start"
  /\ state' = [state EXCEPT ![p].async = p]
  /\ lookup' = [lookup EXCEPT ![p].pc = "lookup"]
  /\ resolve' = [resolve EXCEPT ![p] = "leave"]
  /\ UNCHANGED resolved

\* The promise is local to Resolve().
ResolveLeave(p) ==
  /\ resolve[p] = "leave"
  /\ state' = [state EXCEPT ![p] = Broken(@, Null)]
  /\ resolve' = [resolve EXCEPT ![p] = "check"]
  /\ UNCHANGED <<lookup, resolved>>

\* EndPoint::TcpHost() in the thread of the promise: an address, or none.
TcpHost(p) ==
  /\ lookup[p].pc = "lookup"
  /\ \E v \in {Null, Address} :
       lookup' = [lookup EXCEPT ![p] = [pc |-> "set", found |-> v]]
  /\ UNCHANGED <<state, resolve, resolved>>

\* Faulty: nobody is notified.
LookupSetSilently(p) ==
  /\ lookup[p].pc = "set"
  /\ state' = [state EXCEPT ![p] = SetStateValue(@, lookup[p].found, p)]
  /\ lookup' = [lookup EXCEPT ![p].pc = "ended"]
  /\ UNCHANGED <<resolve, resolved>>

LookupSet(p) ==
  /\ lookup[p].pc = "set"
  /\ state' = [state EXCEPT ![p] = SetStateValue(@, lookup[p].found, p)]
  /\ lookup' = [lookup EXCEPT ![p].pc = "ended"]
  /\ resolve' = Notified(p)
  /\ UNCHANGED resolved

\* Future::Wait()
Wait(p) ==
  /\ resolve[p] = "check"
  /\ ~state[p].fulfilled
  /\ resolve' = [resolve EXCEPT ![p] = "wait"]
  /\ UNCHANGED <<state, lookup, resolved>>

GetValue(p) ==
  /\ resolve[p] = "check"
  /\ state[p].fulfilled
  /\ resolved' = [resolved EXCEPT ![p] = state[p].value]
  /\ resolve' = [resolve EXCEPT ![p] = "join"]
  /\ UNCHANGED <<state, lookup>>

\* The last reference to the thread joins it.
Join(p) ==
  /\ resolve[p] = "join"
  /\ lookup[p].pc = "ended"
  /\ resolve' = [resolve EXCEPT ![p] = "returned"]
  /\ UNCHANGED <<state, lookup, resolved>>

ResolveStep(p) == ResolveStart(p) \/ ResolveLeave(p) \/ Wait(p) \/ GetValue(p) \/ Join(p)
LookupStep(p) == TcpHost(p) \/ LookupSet(p)

FutureNext == \E p \in Resolver : ResolveStep(p) \/ LookupStep(p)

\* Threads go on, and a name is looked up in finite time.
FutureFairness ==
  \A p \in Resolver : /\ WF_futureVars(ResolveStep(p))
                      /\ WF_futureVars(LookupStep(p))
-----------------------------------------------------------------------------
\* Resolve() returns what the lookup found: neither the promise that is destroyed while
\* the name is still looked up, nor a caller that comes late or early, makes of an
\* address a failure to resolve.
ResolveTells ==
  \A p \in Resolver : resolve[p] \in {"join", "returned"} => resolved[p] = lookup[p].found

\* Whoever waits for a name goes on, whatever the order of the lookup, the end of the
\* promise and the wait.
ResolveReturns == \A p \in Resolver : (resolve[p] # "start") ~> (resolve[p] = "returned")
=============================================================================
