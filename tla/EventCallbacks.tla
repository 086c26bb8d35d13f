--------------------------- MODULE EventCallbacks ---------------------------
(***************************************************************************)
(* gamelink::Event<T> (include/gamelink.h:222-408 and 1746-1768) and the   *)
(* calls that attach a callback to one request, such as GetPoll and        *)
(* GetOutstandingTransactions: a request is queued, then a one-shot        *)
(* callback is set for its id.                                             *)
(*                                                                         *)
(* Callbacks may call the SDK: while one runs, its thread may add and      *)
(* remove callbacks of the same event.  Other threads may do so at any     *)
(* time; only one thread receives (include/gamelink.h:579).                *)
(*                                                                         *)
(* Abstracted: what a callback computes.  External: the server, which      *)
(* answers each request once.                                              *)
(***************************************************************************)
EXTENDS Integers, Sequences, FiniteSets

CONSTANTS
  Threads,      \* the threads that use the event
  Callers,      \* those that add and remove callbacks, and make requests
  Receiver,     \* the one thread that invokes the event
  Names,        \* names given to AddUnique and RemoveByName
  IdSpace,      \* number of request ids: 128
  HandleSpace,  \* number of values of _currentHandle: 2^28
  LowHandles,   \* of which these many fit below the mask byte: 2^24
  Masked,       \* Masked[s]: the mask byte with the bits s of the counter or-ed in
  ANY_REQUEST_ID,
  UpdateIds,    \* request ids of messages that answer no request
  MaxCallbacks, \* bound: callbacks ever set
  MaxGets,      \* bound: requests with a callback
  MaxUpdates    \* bound: messages that answer no request

ASSUME EventAssumption ==
  /\ Callers \subseteq Threads /\ Receiver \in Threads
  /\ IdSpace \in Nat \ {0}
  /\ HandleSpace \in Nat \ {0} /\ LowHandles \in 1..HandleSpace
  /\ Masked \in [0..((HandleSpace - 1) \div LowHandles) -> Nat]
  /\ ANY_REQUEST_ID \in Nat /\ ANY_REQUEST_ID >= IdSpace
  /\ UpdateIds \subseteq {0, ANY_REQUEST_ID}
  /\ MaxCallbacks \in Nat /\ MaxGets \in Nat /\ MaxUpdates \in Nat

VARIABLES
  callbacks,     \* _callbacks: pointers to objects, guarded by _lock
  object,        \* the Callback<T> objects ever allocated, by pointer
  freed,         \* those that have been deleted
  currentHandle, \* _currentHandle, guarded by nothing
  pc,            \* where each thread is in set or setUnique
  building,      \* the Callback<T> each thread is about to push
  where,         \* where the Receiver is in Invoke: "no", "loop", ...
  copy, index,   \* Invoke's copy of the vector, and i
  message,       \* the request id of the message, and the request it answers
  gets,          \* requests with a callback made so far
  outstanding,   \* external: those the server has yet to answer
  updates,       \* external: messages that answered nothing so far
  calls,         \* history: callbacks called, with the request answered
  removed        \* history: callbacks some Remove has removed

listVars == <<callbacks, object, freed>>
setVars == <<currentHandle, pc, building>>
invokeVars == <<where, copy, index, message>>
serverVars == <<gets, outstanding, updates>>
vars == <<listVars, setVars, invokeVars, serverVars, calls, removed>>
-----------------------------------------------------------------------------
Unnamed == "??#_muxy"
Persistent(name) == [handle |-> 0, target |-> ANY_REQUEST_ID,
                     status |-> "PERSISTENT", name |-> name, request |-> 0]
OneShot(m) == [handle |-> 0, target |-> m.id, status |-> "ONESHOT",
               name |-> Unnamed, request |-> m.n]
Live(c) == object[c].status \in {"PERSISTENT", "ONESHOT"}

Init ==
  /\ callbacks = <<>> /\ object = <<>> /\ freed = {}
  /\ currentHandle = 0
  /\ pc = [t \in Threads |-> "idle"]
  /\ building = [t \in Threads |-> Persistent(Unnamed)]
  /\ where = "no" /\ copy = <<>> /\ index = 1
  /\ message = [id |-> ANY_REQUEST_ID, n |-> 0]
  /\ gets = 0 /\ outstanding = {} /\ updates = 0
  /\ calls = <<>> /\ removed = {}

\* Thread t may start a call: the Receiver only outside Invoke or in a callback.
MayCall(t) ==
  /\ t \in Callers /\ pc[t] = "idle"
  /\ t = Receiver => where \in {"no", "call"}

Goto(t, l) == pc' = [pc EXCEPT ![t] = l]

Room == Len(object) < MaxCallbacks
-----------------------------------------------------------------------------
(* set and setUnique: nextID is a load and a store outside the lock;        *)
(* setUnique removes its namesakes in one critical section and pushes in    *)
(* another.                                                                 *)

\* nextID's load of _currentHandle, for callback c.
LoadHandle(t, c) ==
  /\ building' = [building EXCEPT ![t] = [c EXCEPT !.handle = currentHandle]]
  /\ Goto(t, "store")

Add(t) ==
  /\ MayCall(t) /\ Room
  /\ LoadHandle(t, Persistent(Unnamed))
  /\ UNCHANGED <<listVars, currentHandle, invokeVars, serverVars, calls, removed>>

AddUnique(t) ==
  /\ MayCall(t) /\ Room
  /\ \E name \in Names : LoadHandle(t, Persistent(name))
  /\ UNCHANGED <<listVars, currentHandle, invokeVars, serverVars, calls, removed>>

\* queuePayload of a request with a callback; its ids are 1, 2, ... and wrap.
QueueGet(t) ==
  /\ MayCall(t) /\ Room /\ gets < MaxGets
  /\ LET m == [id |-> (gets + 1) % IdSpace, n |-> gets + 1]
     IN  /\ outstanding' = outstanding \cup {m}
         /\ building' = [building EXCEPT ![t] = OneShot(m)]
  /\ gets' = gets + 1
  /\ Goto(t, "set")
  /\ UNCHANGED <<listVars, currentHandle, invokeVars, updates, calls, removed>>

\* Mutant: the callback's target is the next request's id.
SetForNextRequest(t) ==
  /\ pc[t] = "set"
  /\ LoadHandle(t, [building[t] EXCEPT !.target = (@ + 1) % IdSpace])
  /\ UNCHANGED <<listVars, currentHandle, invokeVars, serverVars, calls, removed>>

\* The call of set that follows, with the id as its target.
SetForRequest(t) ==
  /\ pc[t] = "set"
  /\ LoadHandle(t, building[t])
  /\ UNCHANGED <<listVars, currentHandle, invokeVars, serverVars, calls, removed>>

\* Mutant: the handle is not masked.
StoreHandleUnmasked(t) ==
  /\ pc[t] = "store"
  /\ currentHandle' = building[t].handle + 1
  /\ Goto(t, IF building[t].name \in Names THEN "unique" ELSE "push")
  /\ UNCHANGED <<listVars, building, invokeVars, serverVars, calls, removed>>

StoreHandle(t) ==
  /\ pc[t] = "store"
  /\ currentHandle' = (building[t].handle + 1) % HandleSpace
  /\ Goto(t, IF building[t].name \in Names THEN "unique" ELSE "push")
  /\ UNCHANGED <<listVars, building, invokeVars, serverVars, calls, removed>>

\* Mutant: Remove deletes the callbacks and erases them itself.
DeleteRemoved(S) ==
  /\ callbacks' = SelectSeq(callbacks, LAMBDA c : c \notin S)
  /\ freed' = freed \cup S /\ removed' = removed \cup S
  /\ UNCHANGED object

\* What Remove and RemoveByName do to the objects, under the lock.
MarkRemoved(S) ==
  /\ object' = [c \in DOMAIN object |->
                  IF c \in S THEN [object[c] EXCEPT !.status = "REMOVED"]
                  ELSE object[c]]
  /\ removed' = removed \cup S
  /\ UNCHANGED <<callbacks, freed>>

Listed == {callbacks[i] : i \in DOMAIN callbacks}
Named(name) == {c \in Listed : object[c].name = name}

\* Mutant: setUnique forgets RemoveByName.
RemoveNoNamesakes(t) ==
  /\ pc[t] = "unique"
  /\ Goto(t, "push")
  /\ UNCHANGED <<listVars, currentHandle, building, invokeVars, serverVars,
                 calls, removed>>

RemoveNamesakes(t) ==
  /\ pc[t] = "unique"
  /\ MarkRemoved(Named(building[t].name))
  /\ Goto(t, "push")
  /\ UNCHANGED <<currentHandle, building, invokeVars, serverVars, calls>>

PushCallback(t) ==
  /\ pc[t] = "push"
  /\ object' = Append(object, building[t])
  /\ callbacks' = Append(callbacks, Len(object) + 1)
  /\ Goto(t, "idle")
  /\ UNCHANGED <<freed, currentHandle, building, invokeVars, serverVars, calls,
                 removed>>
-----------------------------------------------------------------------------
\* The handle nextID makes of a value of the counter: its upper bits share the
\* byte of the mask.
Handle(counter) ==
  [low |-> counter % LowHandles, mask |-> Masked[counter \div LowHandles]]

\* validateId: is it a handle of this event?
ValidHandle(h) == h.mask = Masked[0]

\* With the handle some Add or AddUnique has returned.
Remove(t) ==
  /\ MayCall(t)
  /\ \E c \in DOMAIN object :
       /\ object[c].request = 0
       /\ LET h == Handle(object[c].handle)
          IN  MarkRemoved({d \in Listed : ValidHandle(h)
                                          /\ Handle(object[d].handle) = h})
  /\ UNCHANGED <<setVars, invokeVars, serverVars, calls>>

RemoveByName(t) ==
  /\ MayCall(t)
  /\ \E name \in Names : MarkRemoved(Named(name))
  /\ UNCHANGED <<setVars, invokeVars, serverVars, calls>>
-----------------------------------------------------------------------------
(* Invoke, on the Receiver: copy under the lock, call without it, sweep     *)
(* under it again.                                                          *)

BeginInvoke(m) ==
  /\ where = "no" /\ pc[Receiver] = "idle"
  /\ message' = m /\ copy' = callbacks /\ index' = 1 /\ where' = "loop"

ReceiveAnswer ==
  /\ \E m \in outstanding : BeginInvoke(m) /\ outstanding' = outstanding \ {m}
  /\ UNCHANGED <<listVars, setVars, gets, updates, calls, removed>>

ReceiveUpdate ==
  /\ updates < MaxUpdates /\ updates' = updates + 1
  /\ \E r \in UpdateIds : BeginInvoke([id |-> r, n |-> 0])
  /\ UNCHANGED <<listVars, setVars, gets, outstanding, calls, removed>>

\* Mutant: the status is not looked at again in the loop.
CallableByTarget(c) == object[c].target \in {ANY_REQUEST_ID, message.id}

\* Mutant: any message will do.
CallableByStatus(c) == Live(c)

\* The callback is for this message, and its status says it may be called.
Callable(c) ==
  /\ object[c].target \in {ANY_REQUEST_ID, message.id}
  /\ Live(c)

CheckCallback ==
  /\ where = "loop" /\ index <= Len(copy)
  /\ IF Callable(copy[index])
     THEN where' = "ready" /\ UNCHANGED index
     ELSE index' = index + 1 /\ UNCHANGED where
  /\ UNCHANGED <<listVars, setVars, copy, message, serverVars, calls, removed>>

CallCallback ==
  /\ where = "ready"
  /\ where' = "call"
  /\ calls' = Append(calls, [callback |-> copy[index], request |-> message.n])
  /\ UNCHANGED <<listVars, setVars, copy, index, message, serverVars, removed>>

\* Mutant: a one-shot callback is not retired.
ReturnWithoutRetiring ==
  /\ where = "call" /\ pc[Receiver] = "idle"
  /\ where' = "loop" /\ index' = index + 1
  /\ UNCHANGED <<listVars, setVars, copy, message, serverVars, calls, removed>>

ReturnFromCallback ==
  /\ where = "call" /\ pc[Receiver] = "idle"
  /\ object' = IF object[copy[index]].status = "ONESHOT"
               THEN [object EXCEPT ![copy[index]].status = "REMOVED"]
               ELSE object
  /\ where' = "loop" /\ index' = index + 1
  /\ UNCHANGED <<callbacks, freed, setVars, copy, message, serverVars, calls,
                 removed>>

\* What may not be called any more is deleted; the rest keeps its order.  (Not
\* SelectSeq, which the provers do not know.)
Sweep ==
  LET kept == {i \in DOMAIN callbacks : Live(callbacks[i])}
      n == Cardinality(kept)
  IN
  /\ where = "loop" /\ index > Len(copy)
  /\ \E from \in [1..n -> kept] :
       /\ \A i, j \in 1..n : i < j => from[i] < from[j]
       /\ callbacks' = [i \in 1..n |-> callbacks[from[i]]]
  /\ freed' = freed \cup {c \in Listed : ~Live(c)}
  /\ where' = "no" /\ copy' = <<>>
  /\ UNCHANGED <<object, setVars, index, message, serverVars, calls, removed>>

Invoke == CheckCallback \/ CallCallback \/ ReturnFromCallback \/ Sweep
-----------------------------------------------------------------------------
\* What thread t does once it has entered set or setUnique.
Continue(t) ==
  SetForRequest(t) \/ StoreHandle(t) \/ RemoveNamesakes(t) \/ PushCallback(t)

Next ==
  \/ \E t \in Threads :
       \/ Add(t) \/ AddUnique(t) \/ QueueGet(t) \/ Continue(t)
       \/ Remove(t) \/ RemoveByName(t)
  \/ ReceiveAnswer \/ ReceiveUpdate \/ Invoke

\* A thread finishes its call, Invoke returns, and the application receives.
Fairness ==
  /\ \A t \in Threads : WF_vars(Continue(t))
  /\ WF_vars(Invoke) /\ WF_vars(ReceiveAnswer)

Spec == Init /\ [][Next]_vars
FairSpec == Spec /\ Fairness
-----------------------------------------------------------------------------
CallbackObject ==
  [handle : 0..(HandleSpace - 1), target : Nat, request : 0..MaxGets,
   status : {"PERSISTENT", "ONESHOT", "REMOVED"}, name : Names \cup {Unnamed}]

\* Every variable has the type its declaration gives it.
TypeOK ==
  /\ object \in Seq(CallbackObject)
  /\ callbacks \in Seq(DOMAIN object) /\ copy \in Seq(DOMAIN object)
  /\ freed \subseteq DOMAIN object /\ removed \subseteq DOMAIN object
  /\ currentHandle \in 0..(HandleSpace - 1)
  /\ pc \in [Threads -> {"idle", "set", "store", "unique", "push"}]
  /\ building \in [Threads -> CallbackObject]
  /\ where \in {"no", "loop", "ready", "call"} /\ index \in Nat \ {0}
  /\ message \in [id : Nat, n : 0..MaxGets]
  /\ gets \in 0..MaxGets /\ outstanding \subseteq [id : Nat, n : 0..MaxGets]
  /\ updates \in 0..MaxUpdates
  /\ calls \in Seq([callback : DOMAIN object, request : 0..MaxGets])

\* A one-shot callback is called at most once, also when its own call adds or
\* removes callbacks (include/gamelink.h:295-309).
OneShotOnce ==
  \A i, j \in DOMAIN calls :
    i < j /\ calls[i].callback = calls[j].callback
      => object[calls[i].callback].request = 0

\* A callback set for a request is called with the answer of that request, never
\* with another's (include/gamelink.h:285-310).
OwnAnswer ==
  \A i \in DOMAIN calls :
    object[calls[i].callback].request \in {0, calls[i].request}

\* What Invoke has still to look at, and what is listed, has not been deleted,
\* whatever callbacks and other threads remove meanwhile
\* (include/gamelink.h:290-323).
NoDanglingCallback ==
  /\ Listed \cap freed = {}
  /\ where # "no" => \A i \in index..Len(copy) : copy[i] \notin freed

\* No call starts after Remove or RemoveByName has removed the callback: "This
\* should not be called, since the previous handler will remove it"
\* (test/callbacks.cpp:51).
NoCallAfterRemove ==
  [][Len(calls') > Len(calls) => calls'[Len(calls')].callback \notin removed]_vars

\* Two callbacks of one name are never both live (include/gamelink.h:361-374).
UniqueNames ==
  \A i, j \in DOMAIN callbacks :
    /\ i # j /\ object[callbacks[i]].name \in Names
    /\ object[callbacks[i]].name = object[callbacks[j]].name
    => ~(Live(callbacks[i]) /\ Live(callbacks[j]))

\* "Callback to invoke after getting the outstanding transactions from the
\* server" (include/gamelink.h:919): the callback of every request is called.
GetsCalled ==
  \A n \in 1..MaxGets :
    gets >= n ~> \E i \in DOMAIN calls : object[calls[i].callback].request = n
=============================================================================
