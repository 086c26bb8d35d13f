------------------------- MODULE EventCallbacksProofs -------------------------
(***************************************************************************)
(* Proofs about EventCallbacks, for every number of callbacks, requests    *)
(* and messages, every size of the ids and of the handles, and (but for    *)
(* the last two theorems) every number of threads that add and remove.     *)
(***************************************************************************)
EXTENDS EventCallbacks, FiniteSetTheorems, TLAPS

-----------------------------------------------------------------------------
(* Type correctness.                                                        *)

\* What is left of the counter after its store is a handle.
LEMMA ModBounds ==
  ASSUME NEW a \in Nat, NEW b \in Nat \ {0}
  PROVE  a % b \in 0..(b - 1)
  OBVIOUS

\* Sequences over a set are sequences over every larger one.
LEMMA SeqMonotone ==
  ASSUME NEW A, NEW B, A \subseteq B, NEW s \in Seq(A)
  PROVE  s \in Seq(B)
  <1>1. s \in [1..Len(s) -> A] /\ Len(s) \in Nat
    OBVIOUS
  <1>2. s \in [1..Len(s) -> B]
    BY <1>1
  <1>3. QED
    BY <1>1, <1>2

LEMMA SeqElement ==
  ASSUME NEW A, NEW s \in Seq(A), NEW k \in DOMAIN s
  PROVE  s[k] \in A
  OBVIOUS

\* Marking objects changes their status and nothing else.
LEMMA MarkShape ==
  ASSUME TypeOK, NEW S \in SUBSET DOMAIN object, MarkRemoved(S)
  PROVE  /\ object' \in Seq(CallbackObject) /\ DOMAIN object' = DOMAIN object
         /\ \A c \in DOMAIN object :
              /\ object'[c] = IF c \in S
                              THEN [object[c] EXCEPT !.status = "REMOVED"]
                              ELSE object[c]
              /\ object'[c].status = IF c \in S THEN "REMOVED"
                                     ELSE object[c].status
              /\ object'[c].name = object[c].name
              /\ object'[c].target = object[c].target
              /\ object'[c].request = object[c].request
         /\ removed' = removed \cup S
         /\ callbacks' = callbacks /\ freed' = freed
  <1>1. object' = [c \in DOMAIN object |->
                     IF c \in S THEN [object[c] EXCEPT !.status = "REMOVED"]
                     ELSE object[c]]
    BY DEF MarkRemoved
  <1>2. object \in Seq(CallbackObject) /\ DOMAIN object = 1..Len(object)
    BY DEF TypeOK
  <1>3. \A c \in DOMAIN object :
          [object[c] EXCEPT !.status = "REMOVED"] \in CallbackObject
    <2>1. SUFFICES ASSUME NEW p \in CallbackObject
                   PROVE  [p EXCEPT !.status = "REMOVED"] \in CallbackObject
      BY <1>2
    <2>2. QED
      BY DEF CallbackObject
  <1>4. /\ object' \in [1..Len(object) -> CallbackObject]
        /\ Len(object) \in Nat
    BY <1>1, <1>2, <1>3
  <1>5. object' \in Seq(CallbackObject) /\ DOMAIN object' = DOMAIN object
    BY <1>1, <1>2, <1>4
  <1>6. \A c \in DOMAIN object :
          object'[c] = IF c \in S THEN [object[c] EXCEPT !.status = "REMOVED"]
                       ELSE object[c]
    BY <1>1
  <1>7. \A c \in DOMAIN object : object[c] \in CallbackObject
    BY <1>2
  <1>8. \A c \in DOMAIN object :
          /\ object'[c].status = IF c \in S THEN "REMOVED" ELSE object[c].status
          /\ object'[c].name = object[c].name
          /\ object'[c].target = object[c].target
          /\ object'[c].request = object[c].request
    BY <1>6, <1>7 DEF CallbackObject
  <1>9. QED
    BY <1>5, <1>6, <1>8 DEF MarkRemoved

\* Adding a callback adds an object and a pointer to it, both at the end.
LEMMA PushShape ==
  ASSUME TypeOK, NEW t \in Threads, PushCallback(t)
  PROVE  /\ object' \in Seq(CallbackObject)
         /\ DOMAIN object' = DOMAIN object \cup {Len(object) + 1}
         /\ Len(object) + 1 \notin DOMAIN object
         /\ \A c \in DOMAIN object : object'[c] = object[c]
         /\ object'[Len(object) + 1] = building[t]
         /\ callbacks' \in Seq(DOMAIN object')
         /\ DOMAIN callbacks' = 1..(Len(callbacks) + 1)
         /\ DOMAIN callbacks = 1..Len(callbacks) /\ Len(callbacks) \in Nat
         /\ \A i \in DOMAIN callbacks : callbacks'[i] = callbacks[i]
         /\ callbacks'[Len(callbacks) + 1] = Len(object) + 1
  <1>1. /\ object \in Seq(CallbackObject) /\ building[t] \in CallbackObject
        /\ callbacks \in Seq(DOMAIN object)
    BY DEF TypeOK
  <1>2. /\ object' = Append(object, building[t])
        /\ callbacks' = Append(callbacks, Len(object) + 1)
    BY DEF PushCallback
  <1>3. /\ object' \in Seq(CallbackObject)
        /\ DOMAIN object = 1..Len(object) /\ Len(object) \in Nat
        /\ DOMAIN object' = 1..(Len(object) + 1)
        /\ \A c \in DOMAIN object : object'[c] = object[c]
        /\ object'[Len(object) + 1] = building[t]
    BY <1>1, <1>2
  <1>4. callbacks \in Seq(DOMAIN object') /\ Len(object) + 1 \in DOMAIN object'
    BY <1>1, <1>3
  <1>5. QED
    BY <1>2, <1>3, <1>4

\* The sweep keeps pointers to callbacks that may be called, in their order, and
\* deletes the others.
LEMMA SweepShape ==
  ASSUME TypeOK, Sweep
  PROVE  /\ callbacks' \in Seq(DOMAIN object)
         /\ \E from \in [DOMAIN callbacks' -> DOMAIN callbacks] :
              /\ \A i, j \in DOMAIN callbacks' : i # j => from[i] # from[j]
              /\ \A i \in DOMAIN callbacks' :
                   callbacks'[i] = callbacks[from[i]] /\ Live(callbacks'[i])
         /\ freed' = freed \cup {c \in Listed : ~Live(c)}
         /\ object' = object
  <1> DEFINE kept == {i \in DOMAIN callbacks : Live(callbacks[i])}
             n == Cardinality(kept)
  <1>1. callbacks \in Seq(DOMAIN object)
    BY DEF TypeOK
  <1>2. n \in Nat
    <2>1. IsFiniteSet(1..Len(callbacks))
      BY <1>1, FS_Interval
    <2>2. kept \subseteq 1..Len(callbacks)
      BY <1>1
    <2>3. IsFiniteSet(kept)
      BY <2>1, <2>2, FS_Subset
    <2>4. QED
      BY <2>3, FS_CardinalityType
  <1>3. PICK from \in [1..n -> kept] :
          /\ \A i, j \in 1..n : i < j => from[i] < from[j]
          /\ callbacks' = [i \in 1..n |-> callbacks[from[i]]]
    BY DEF Sweep
  <1>4. \A i \in 1..n : from[i] \in DOMAIN callbacks /\ Live(callbacks[from[i]])
    BY <1>3
  <1>5. \A i \in 1..n : callbacks[from[i]] \in DOMAIN object /\ from[i] \in Int
    BY <1>1, <1>4
  <1> HIDE DEF n, kept
  <1>6. callbacks' \in [1..n -> DOMAIN object] /\ DOMAIN callbacks' = 1..n
    BY <1>3, <1>5
  <1>7. callbacks' \in Seq(DOMAIN object)
    BY <1>2, <1>6
  <1>8. \A i, j \in 1..n : i # j => from[i] # from[j]
    <2>1. SUFFICES ASSUME NEW i \in 1..n, NEW j \in 1..n, i # j
                   PROVE  from[i] # from[j]
      OBVIOUS
    <2>2. i \in Int /\ j \in Int /\ (i < j \/ j < i)
      BY <1>2, <2>1
    <2>3. QED
      BY <1>3, <1>5, <2>2
  <1>9. from \in [DOMAIN callbacks' -> DOMAIN callbacks]
    BY <1>3, <1>4, <1>6
  <1>10. freed' = freed \cup {c \in Listed : ~Live(c)} /\ object' = object
    BY DEF Sweep
  <1>11. \A i \in DOMAIN callbacks' :
           callbacks'[i] = callbacks[from[i]] /\ Live(callbacks'[i])
    BY <1>3, <1>4, <1>6
  <1>12. QED
    BY <1>6, <1>7, <1>8, <1>9, <1>10, <1>11

\* The callbacks the calls build, and their handles, are of the type.
LEMMA BuildingTyped ==
  ASSUME TypeOK, NEW t \in Threads
  PROVE  /\ \A c \in CallbackObject :
              [c EXCEPT !.handle = currentHandle] \in CallbackObject
         /\ \A name \in Names : Persistent(name) \in CallbackObject
         /\ Persistent(Unnamed) \in CallbackObject
         /\ \A i \in Nat, n \in 0..MaxGets :
              OneShot([id |-> i, n |-> n]) \in CallbackObject
  <1>1. 0 \in 0..(HandleSpace - 1) /\ currentHandle \in 0..(HandleSpace - 1)
        /\ 0 \in 0..MaxGets /\ ANY_REQUEST_ID \in Nat
    BY EventAssumption DEF TypeOK
  <1>2. \A c \in CallbackObject :
          [c EXCEPT !.handle = currentHandle] \in CallbackObject
    BY <1>1 DEF CallbackObject
  <1>3. \A name \in Names \cup {Unnamed} : Persistent(name) \in CallbackObject
    BY <1>1 DEF CallbackObject, Persistent
  <1>4. \A i \in Nat, n \in 0..MaxGets :
          OneShot([id |-> i, n |-> n]) \in CallbackObject
    BY <1>1 DEF CallbackObject, OneShot
  <1>5. QED
    BY <1>2, <1>3, <1>4

LEMMA TypeInit == Init => TypeOK
  BY EventAssumption DEF Init, TypeOK, CallbackObject, Persistent

\* set, setUnique and the calls that queue a request.
LEMMA TypeSet ==
  ASSUME TypeOK, NEW t \in Threads,
         Add(t) \/ AddUnique(t) \/ QueueGet(t) \/ SetForRequest(t) \/ StoreHandle(t)
  PROVE  TypeOK'
  <1>1. ASSUME NEW c \in CallbackObject, LoadHandle(t, c)
        PROVE  /\ building' \in [Threads -> CallbackObject]
               /\ pc' \in [Threads -> {"idle", "set", "store", "unique", "push"}]
    BY <1>1, BuildingTyped DEF TypeOK, LoadHandle, Goto
  <1>2. CASE Add(t)
    BY <1>1, <1>2, BuildingTyped
    DEF TypeOK, Add, listVars, invokeVars, serverVars
  <1>3. CASE AddUnique(t)
    <2>1. PICK name \in Names : LoadHandle(t, Persistent(name))
      BY <1>3 DEF AddUnique
    <2>2. QED
      BY <1>1, <1>3, <2>1, BuildingTyped
      DEF TypeOK, AddUnique, listVars, invokeVars, serverVars
  <1>4. CASE QueueGet(t)
    <2> DEFINE m == [id |-> (gets + 1) % IdSpace, n |-> gets + 1]
    <2>1. gets + 1 \in 0..MaxGets
      BY <1>4, EventAssumption DEF QueueGet, TypeOK
    <2>2. (gets + 1) % IdSpace \in Nat
      BY <2>1, ModBounds, EventAssumption
    <2>3. m \in [id : Nat, n : 0..MaxGets] /\ OneShot(m) \in CallbackObject
      BY <2>1, <2>2, BuildingTyped
    <2>4. /\ outstanding' = outstanding \cup {m}
          /\ building' = [building EXCEPT ![t] = OneShot(m)]
          /\ gets' = gets + 1 /\ pc' = [pc EXCEPT ![t] = "set"]
      BY <1>4 DEF QueueGet, Goto
    <2> HIDE DEF m
    <2>5. QED
      BY <1>4, <2>1, <2>3, <2>4 DEF TypeOK, QueueGet, listVars, invokeVars
  <1>5. CASE SetForRequest(t)
    <2>1. building[t] \in CallbackObject
      BY DEF TypeOK
    <2>2. QED
      BY <1>1, <1>5, <2>1
      DEF TypeOK, SetForRequest, listVars, invokeVars, serverVars
  <1>6. CASE StoreHandle(t)
    <2>1. building[t].handle + 1 \in Nat
      BY EventAssumption DEF TypeOK, CallbackObject
    <2>2. (building[t].handle + 1) % HandleSpace \in 0..(HandleSpace - 1)
      BY <2>1, ModBounds, EventAssumption
    <2>3. QED
      BY <1>6, <2>2
      DEF TypeOK, StoreHandle, Goto, listVars, invokeVars, serverVars
  <1>7. QED
    BY <1>2, <1>3, <1>4, <1>5, <1>6

\* Remove, RemoveByName and the first half of setUnique mark listed callbacks.
LEMMA Removes ==
  ASSUME TypeOK, NEW t \in Threads,
         Remove(t) \/ RemoveByName(t) \/ RemoveNamesakes(t)
  PROVE  /\ \E S \in SUBSET DOMAIN object : MarkRemoved(S)
         /\ UNCHANGED <<currentHandle, building, invokeVars, serverVars, calls>>
         /\ \/ UNCHANGED pc /\ MayCall(t)
            \/ pc[t] = "unique" /\ pc' = [pc EXCEPT ![t] = "push"]
  <1>1. Listed \subseteq DOMAIN object
    BY DEF Listed, TypeOK
  <1>2. CASE Remove(t)
    BY <1>1, <1>2 DEF Remove, setVars
  <1>3. CASE RemoveByName(t)
    <2>1. PICK name \in Names : MarkRemoved(Named(name))
      BY <1>3 DEF RemoveByName
    <2>2. Named(name) \subseteq DOMAIN object
      BY <1>1 DEF Named
    <2>3. QED
      BY <1>3, <2>1, <2>2 DEF RemoveByName, setVars
  <1>4. CASE RemoveNamesakes(t)
    <2>1. Named(building[t].name) \subseteq DOMAIN object
      BY <1>1 DEF Named
    <2>2. QED
      BY <1>4, <2>1 DEF RemoveNamesakes, Goto
  <1>5. QED
    BY <1>2, <1>3, <1>4

LEMMA TypeRemove ==
  ASSUME TypeOK, NEW t \in Threads,
         Remove(t) \/ RemoveByName(t) \/ RemoveNamesakes(t)
  PROVE  TypeOK'
  <1>1. PICK S \in SUBSET DOMAIN object : MarkRemoved(S)
    BY Removes
  <1>2. /\ object' \in Seq(CallbackObject) /\ DOMAIN object' = DOMAIN object
        /\ removed' = removed \cup S
        /\ callbacks' = callbacks /\ freed' = freed
    BY <1>1, MarkShape
  <1>3. /\ UNCHANGED <<currentHandle, building, invokeVars, serverVars, calls>>
        /\ pc' \in [Threads -> {"idle", "set", "store", "unique", "push"}]
    BY Removes DEF TypeOK
  <1>4. QED
    BY <1>2, <1>3 DEF TypeOK, invokeVars, serverVars

LEMMA TypePush ==
  ASSUME TypeOK, NEW t \in Threads, PushCallback(t)
  PROVE  TypeOK'
  <1>1. /\ object' \in Seq(CallbackObject) /\ callbacks' \in Seq(DOMAIN object')
        /\ DOMAIN object \subseteq DOMAIN object'
    BY PushShape
  <1>2. copy \in Seq(DOMAIN object')
    BY <1>1 DEF TypeOK
  <1>3. calls \in Seq([callback : DOMAIN object', request : 0..MaxGets])
    <2>1. [callback : DOMAIN object, request : 0..MaxGets]
            \subseteq [callback : DOMAIN object', request : 0..MaxGets]
      BY <1>1
    <2>2. calls \in Seq([callback : DOMAIN object, request : 0..MaxGets])
      BY DEF TypeOK
    <2>3. QED
      BY <2>1, <2>2, SeqMonotone
  <1>4. QED
    BY <1>1, <1>2, <1>3
    DEF TypeOK, PushCallback, Goto, invokeVars, serverVars

LEMMA TypeBegin ==
  ASSUME TypeOK, ReceiveAnswer \/ ReceiveUpdate
  PROVE  TypeOK'
  <1>1. ASSUME NEW m \in [id : Nat, n : 0..MaxGets], BeginInvoke(m)
        PROVE  /\ message' \in [id : Nat, n : 0..MaxGets]
               /\ copy' \in Seq(DOMAIN object) /\ index' \in Nat \ {0}
               /\ where' \in {"no", "loop", "ready", "call"}
    BY <1>1 DEF BeginInvoke, TypeOK
  <1>2. CASE ReceiveAnswer
    <2>1. PICK m \in outstanding : BeginInvoke(m)
                                   /\ outstanding' = outstanding \ {m}
      BY <1>2 DEF ReceiveAnswer
    <2>2. m \in [id : Nat, n : 0..MaxGets]
      BY DEF TypeOK
    <2>3. QED
      BY <1>1, <1>2, <2>1, <2>2 DEF TypeOK, ReceiveAnswer, listVars, setVars
  <1>3. CASE ReceiveUpdate
    <2>1. PICK r \in UpdateIds : BeginInvoke([id |-> r, n |-> 0])
      BY <1>3 DEF ReceiveUpdate
    <2>2. [id |-> r, n |-> 0] \in [id : Nat, n : 0..MaxGets]
      BY EventAssumption
    <2>3. updates' \in 0..MaxUpdates
      BY <1>3, EventAssumption DEF ReceiveUpdate, TypeOK
    <2>4. QED
      BY <1>1, <1>3, <2>1, <2>2, <2>3
      DEF TypeOK, ReceiveUpdate, listVars, setVars
  <1>4. QED
    BY <1>2, <1>3

\* Retiring a one-shot callback is marking it.
LEMMA ReturnShape ==
  ASSUME TypeOK, copy[index] \in DOMAIN object, ReturnFromCallback
  PROVE  /\ object' \in Seq(CallbackObject) /\ DOMAIN object' = DOMAIN object
         /\ \A c \in DOMAIN object :
              /\ object'[c].status
                   = IF c = copy[index] /\ object[c].status = "ONESHOT"
                     THEN "REMOVED" ELSE object[c].status
              /\ object'[c].name = object[c].name
              /\ object'[c].target = object[c].target
              /\ object'[c].request = object[c].request
  <1>1. object \in Seq(CallbackObject) /\ object[copy[index]] \in CallbackObject
    BY DEF TypeOK
  <1>2. ASSUME NEW p \in CallbackObject
        PROVE  /\ [p EXCEPT !.status = "REMOVED"] \in CallbackObject
               /\ [p EXCEPT !.status = "REMOVED"].status = "REMOVED"
               /\ [p EXCEPT !.status = "REMOVED"].name = p.name
               /\ [p EXCEPT !.status = "REMOVED"].target = p.target
               /\ [p EXCEPT !.status = "REMOVED"].request = p.request
    BY DEF CallbackObject
  <1> DEFINE retired == [object[copy[index]] EXCEPT !.status = "REMOVED"]
  <1>3. CASE object[copy[index]].status = "ONESHOT"
    <2>1. object' = [object EXCEPT ![copy[index]] = retired]
      BY <1>3 DEF ReturnFromCallback
    <2>2. retired \in CallbackObject /\ retired.status = "REMOVED"
          /\ retired.name = object[copy[index]].name
          /\ retired.target = object[copy[index]].target
          /\ retired.request = object[copy[index]].request
      BY <1>1, <1>2
    <2> HIDE DEF retired
    <2>3. object' \in Seq(CallbackObject) /\ DOMAIN object' = DOMAIN object
          /\ \A c \in DOMAIN object :
               object'[c] = IF c = copy[index] THEN retired ELSE object[c]
      BY <1>1, <2>1, <2>2
    <2>4. QED
      BY <1>3, <2>2, <2>3
  <1>4. CASE object[copy[index]].status # "ONESHOT"
    BY <1>1, <1>4 DEF ReturnFromCallback
  <1>5. QED
    BY <1>3, <1>4

\* Between the check of a callback and its return, index is in the copy.
InCopy == where \in {"ready", "call"} => index \in DOMAIN copy

LEMMA TypeInvoke ==
  ASSUME TypeOK, InCopy, Invoke
  PROVE  TypeOK' /\ InCopy'
  <1>1. CASE CheckCallback
    BY <1>1, SMTT(30)
    DEF TypeOK, InCopy, CheckCallback, listVars, setVars, serverVars
  <1>2. CASE CallCallback
    <2>1. copy[index] \in DOMAIN object /\ message.n \in 0..MaxGets
      BY <1>2 DEF TypeOK, InCopy, CallCallback
    <2>2. calls' \in Seq([callback : DOMAIN object, request : 0..MaxGets])
      BY <1>2, <2>1 DEF TypeOK, CallCallback
    <2>3. QED
      BY <1>2, <2>2
      DEF TypeOK, InCopy, CallCallback, listVars, setVars, serverVars
  <1>3. CASE ReturnFromCallback
    <2>1. copy[index] \in DOMAIN object
      BY <1>3 DEF TypeOK, InCopy, ReturnFromCallback
    <2>2. object' \in Seq(CallbackObject) /\ DOMAIN object' = DOMAIN object
      BY <1>3, <2>1, ReturnShape
    <2>3. QED
      BY <1>3, <2>2, SMTT(30)
      DEF TypeOK, InCopy, ReturnFromCallback, setVars, serverVars
  <1>4. CASE Sweep
    <2>1. callbacks' \in Seq(DOMAIN object) /\ object' = object
          /\ freed' = freed \cup {c \in Listed : ~Live(c)}
      BY <1>4, SweepShape
    <2>2. Listed \subseteq DOMAIN object
      BY DEF Listed, TypeOK
    <2>3. where' = "no" /\ copy' = <<>>
      BY <1>4 DEF Sweep
    <2>4. UNCHANGED <<setVars, index, message, serverVars, calls, removed>>
      BY <1>4 DEF Sweep
    <2>5. QED
      BY <2>1, <2>2, <2>3, <2>4 DEF TypeOK, InCopy, setVars, serverVars
  <1>5. QED
    BY <1>1, <1>2, <1>3, <1>4 DEF Invoke

\* TypeOK needs InCopy: what is called is a callback.
TypeInv == TypeOK /\ InCopy

LEMMA TypeStep == TypeInv /\ [Next]_vars => TypeInv'
  <1> SUFFICES ASSUME TypeInv, [Next]_vars
               PROVE  TypeInv'
    OBVIOUS
  <1> USE DEF TypeInv
  <1>1. ASSUME NEW t \in Threads, Add(t) \/ AddUnique(t) \/ QueueGet(t)
                                   \/ SetForRequest(t) \/ StoreHandle(t)
        PROVE  TypeInv'
    BY <1>1, TypeSet
    DEF InCopy, Add, AddUnique, QueueGet, SetForRequest, StoreHandle, invokeVars
  <1>2. ASSUME NEW t \in Threads, Remove(t) \/ RemoveByName(t)
                                   \/ RemoveNamesakes(t)
        PROVE  TypeInv'
    BY <1>2, TypeRemove
    DEF InCopy, Remove, RemoveByName, RemoveNamesakes, invokeVars
  <1>3. ASSUME NEW t \in Threads, PushCallback(t)
        PROVE  TypeInv'
    BY <1>3, TypePush DEF InCopy, PushCallback, invokeVars
  <1>4. CASE ReceiveAnswer \/ ReceiveUpdate
    BY <1>4, TypeBegin DEF InCopy, ReceiveAnswer, ReceiveUpdate, BeginInvoke
  <1>5. CASE Invoke
    BY <1>5, TypeInvoke
  <1>6. CASE UNCHANGED vars
    BY <1>6 DEF TypeOK, InCopy, vars, listVars, setVars, invokeVars, serverVars
  <1>7. QED
    BY <1>1, <1>2, <1>3, <1>4, <1>5, <1>6 DEF Next, Continue

\* Every variable of the event has its type, whatever the threads do to it
\* (include/gamelink.h:222-408).
THEOREM TypeCorrect == Spec => []TypeOK
  <1>1. Init => TypeInv
    BY TypeInit DEF TypeInv, InCopy, Init
  <1>2. QED
    BY <1>1, TypeStep, PTL DEF Spec, TypeInv
-----------------------------------------------------------------------------
(* Deleted callbacks are not touched.                                       *)

\* What is listed, or waits to be looked at, has not been deleted: NoDanglingCallback
\* is inductive on top of TypeInv, since only Sweep deletes.
LEMMA DanglingStep ==
  ASSUME TypeInv, NoDanglingCallback, [Next]_vars
  PROVE  NoDanglingCallback'
  <1> USE DEF TypeInv
  <1>1. CASE UNCHANGED <<callbacks, freed, where, copy, index>>
    BY <1>1 DEF NoDanglingCallback, Listed
  <1>2. ASSUME NEW t \in Threads, Remove(t) \/ RemoveByName(t)
                                   \/ RemoveNamesakes(t)
        PROVE  NoDanglingCallback'
    <2>1. PICK S \in SUBSET DOMAIN object : MarkRemoved(S)
      BY <1>2, Removes
    <2>2. UNCHANGED invokeVars
      BY <1>2, Removes
    <2>3. QED
      BY <1>1, <2>1, <2>2 DEF MarkRemoved, invokeVars
  <1>3. ASSUME NEW t \in Threads, PushCallback(t)
        PROVE  NoDanglingCallback'
    <2>1. /\ DOMAIN callbacks' = 1..(Len(callbacks) + 1)
          /\ DOMAIN callbacks = 1..Len(callbacks) /\ Len(callbacks) \in Nat
          /\ \A i \in DOMAIN callbacks : callbacks'[i] = callbacks[i]
          /\ callbacks'[Len(callbacks) + 1] = Len(object) + 1
          /\ Len(object) + 1 \notin DOMAIN object
      BY <1>3, PushShape
    <2>2. Listed' = Listed \cup {Len(object) + 1}
      BY <2>1 DEF Listed
    <2>3. freed' = freed /\ freed \subseteq DOMAIN object /\ UNCHANGED invokeVars
      BY <1>3 DEF PushCallback, TypeOK
    <2>4. QED
      BY <2>1, <2>2, <2>3 DEF NoDanglingCallback, invokeVars
  <1>4. CASE ReceiveAnswer \/ ReceiveUpdate
    <2>1. copy' = callbacks /\ UNCHANGED <<callbacks, freed>> /\ index' = 1
      BY <1>4 DEF ReceiveAnswer, ReceiveUpdate, BeginInvoke, listVars
    <2>2. \A i \in 1..Len(callbacks) : callbacks[i] \in Listed
      BY DEF Listed, TypeOK
    <2>3. QED
      BY <2>1, <2>2 DEF NoDanglingCallback, Listed
  <1>5. CASE CheckCallback \/ CallCallback \/ ReturnFromCallback
    <2>1. /\ UNCHANGED <<callbacks, freed, copy>>
          /\ index' \in {index, index + 1} /\ where # "no"
      BY <1>5 DEF CheckCallback, CallCallback, ReturnFromCallback, listVars
    <2>2. index'..Len(copy) \subseteq index..Len(copy)
      BY <2>1 DEF TypeOK
    <2>3. QED
      BY <2>1, <2>2 DEF NoDanglingCallback, Listed
  <1>6. CASE Sweep
    <2>1. PICK from \in [DOMAIN callbacks' -> DOMAIN callbacks] :
                 \A i \in DOMAIN callbacks' :
                   callbacks'[i] = callbacks[from[i]] /\ Live(callbacks'[i])
      BY <1>6, SweepShape
    <2>2. Listed' \subseteq {c \in Listed : Live(c)}
      BY <2>1 DEF Listed
    <2>3. freed' = freed \cup {c \in Listed : ~Live(c)} /\ where' = "no"
      BY <1>6, SweepShape DEF Sweep
    <2>4. QED
      BY <2>2, <2>3 DEF NoDanglingCallback
  <1>7. ASSUME NEW t \in Threads, Add(t) \/ AddUnique(t) \/ QueueGet(t)
                                   \/ SetForRequest(t) \/ StoreHandle(t)
        PROVE  NoDanglingCallback'
    BY <1>1, <1>7
    DEF Add, AddUnique, QueueGet, SetForRequest, StoreHandle, listVars, invokeVars
  <1>8. CASE UNCHANGED vars
    BY <1>1, <1>8 DEF vars, listVars, invokeVars
  <1>9. QED
    BY <1>2, <1>3, <1>4, <1>5, <1>6, <1>7, <1>8 DEF Next, Continue, Invoke

\* However many threads and callbacks add and remove while Invoke goes through
\* its copy, it neither keeps nor is about to look at a deleted callback
\* (include/gamelink.h:285-323).
THEOREM NothingDangles == Spec => []NoDanglingCallback
  <1>1. Init => TypeInv /\ NoDanglingCallback
    BY TypeInit DEF TypeInv, InCopy, Init, NoDanglingCallback, Listed
  <1>2. TypeInv /\ NoDanglingCallback /\ [Next]_vars
          => (TypeInv /\ NoDanglingCallback)'
    BY TypeStep, DanglingStep
  <1>3. QED
    BY <1>1, <1>2, PTL DEF Spec
-----------------------------------------------------------------------------
(* How a step changes callbacks: the two lemmas the rest is made of.        *)

\* A callback stays what it was set for, and only ever becomes REMOVED; a new
\* one is what its thread has built.
LEMMA ObjectStep ==
  ASSUME TypeInv, [Next]_vars
  PROVE  /\ DOMAIN object \subseteq DOMAIN object'
         /\ \A c \in DOMAIN object :
              /\ object'[c].request = object[c].request
              /\ object'[c].target = object[c].target
              /\ object'[c].name = object[c].name
              /\ object'[c].status \in {object[c].status, "REMOVED"}
         /\ \A c \in DOMAIN object' \ DOMAIN object :
              \E t \in Threads : object'[c] = building[t]
  <1> USE DEF TypeInv
  <1>1. CASE UNCHANGED object
    BY <1>1
  <1>2. ASSUME NEW t \in Threads, Remove(t) \/ RemoveByName(t)
                                   \/ RemoveNamesakes(t)
        PROVE  /\ DOMAIN object' = DOMAIN object
               /\ \A c \in DOMAIN object :
                    /\ object'[c].request = object[c].request
                    /\ object'[c].target = object[c].target
                    /\ object'[c].name = object[c].name
                    /\ object'[c].status \in {object[c].status, "REMOVED"}
    <2>1. PICK S \in SUBSET DOMAIN object : MarkRemoved(S)
      BY <1>2, Removes
    <2>2. QED
      BY <2>1, MarkShape
  <1>3. ASSUME NEW t \in Threads, PushCallback(t)
        PROVE  /\ DOMAIN object' = DOMAIN object \cup {Len(object) + 1}
               /\ \A c \in DOMAIN object : object'[c] = object[c]
               /\ object'[Len(object) + 1] = building[t]
    BY <1>3, PushShape
  <1>4. CASE ReturnFromCallback
    <2>1. copy[index] \in DOMAIN object
      BY <1>4 DEF TypeOK, InCopy, ReturnFromCallback
    <2>2. QED
      BY <1>4, <2>1, ReturnShape
  <1>5. CASE CheckCallback \/ CallCallback \/ Sweep \/ ReceiveAnswer \/ ReceiveUpdate
    BY <1>1, <1>5, SweepShape
    DEF CheckCallback, CallCallback, ReceiveAnswer, ReceiveUpdate, listVars
  <1>6. ASSUME NEW t \in Threads, Add(t) \/ AddUnique(t) \/ QueueGet(t)
                                   \/ SetForRequest(t) \/ StoreHandle(t)
        PROVE  UNCHANGED object
    BY <1>6
    DEF Add, AddUnique, QueueGet, SetForRequest, StoreHandle, listVars
  <1>7. CASE UNCHANGED vars
    BY <1>1, <1>7 DEF vars, listVars
  <1>8. QED
    BY <1>1, <1>2, <1>3, <1>4, <1>5, <1>6, <1>7 DEF Next, Continue, Invoke

\* A callback is built for no request; or for the request just queued, as a
\* one-shot with the request's id; and what is built then gets its handle.
LEMMA BuildingStep ==
  ASSUME TypeInv, [Next]_vars, NEW u \in Threads
  PROVE  \/ /\ building'[u].request = building[u].request
            /\ building'[u].target = building[u].target
            /\ building'[u].status = building[u].status
         \/ building'[u].request = 0
         \/ /\ gets < MaxGets /\ gets' = gets + 1
            /\ building'[u]
                 = OneShot([id |-> (gets + 1) % IdSpace, n |-> gets + 1])
  <1> USE DEF TypeInv
  <1>1. CASE UNCHANGED building
    BY <1>1
  <1>2. ASSUME NEW c \in CallbackObject, NEW t \in Threads, LoadHandle(t, c)
        PROVE  /\ u # t => building'[u] = building[u]
               /\ building'[t].request = c.request
               /\ building'[t].target = c.target
               /\ building'[t].status = c.status
    <2>1. building' = [building EXCEPT ![t] = [c EXCEPT !.handle = currentHandle]]
      BY <1>2 DEF LoadHandle
    <2>2. building \in [Threads -> CallbackObject]
      BY DEF TypeOK
    <2>3. /\ u # t => building'[u] = building[u]
          /\ building'[t] = [c EXCEPT !.handle = currentHandle]
      BY <2>1, <2>2
    <2>4. QED
      BY <2>3 DEF CallbackObject
  <1>3. ASSUME NEW t \in Threads, Add(t) \/ AddUnique(t)
        PROVE  building'[u] = building[u] \/ building'[u].request = 0
    <2>1. PICK name \in Names \cup {Unnamed} : LoadHandle(t, Persistent(name))
      BY <1>3 DEF Add, AddUnique
    <2>2. Persistent(name) \in CallbackObject /\ Persistent(name).request = 0
      BY BuildingTyped DEF Persistent
    <2>3. QED
      BY <1>2, <2>1, <2>2
  <1>4. ASSUME NEW t \in Threads, QueueGet(t)
        PROVE  \/ building'[u] = building[u]
               \/ /\ gets < MaxGets /\ gets' = gets + 1
                  /\ building'[u]
                       = OneShot([id |-> (gets + 1) % IdSpace, n |-> gets + 1])
    BY <1>4 DEF QueueGet, TypeOK
  <1>5. ASSUME NEW t \in Threads, SetForRequest(t)
        PROVE  /\ building'[u].request = building[u].request
               /\ building'[u].target = building[u].target
               /\ building'[u].status = building[u].status
    <2>1. building[t] \in CallbackObject /\ LoadHandle(t, building[t])
      BY <1>5 DEF SetForRequest, TypeOK
    <2>2. QED
      BY <1>2, <2>1
  <1>6. ASSUME NEW t \in Threads, StoreHandle(t) \/ PushCallback(t)
                                   \/ Remove(t) \/ RemoveByName(t)
                                   \/ RemoveNamesakes(t)
        PROVE  UNCHANGED building
    BY <1>6, Removes DEF StoreHandle, PushCallback
  <1>7. CASE ReceiveAnswer \/ ReceiveUpdate \/ Invoke
    BY <1>1, <1>7
    DEF ReceiveAnswer, ReceiveUpdate, Invoke, CheckCallback, CallCallback,
        ReturnFromCallback, Sweep, setVars
  <1>8. CASE UNCHANGED vars
    BY <1>1, <1>8 DEF vars, setVars
  <1>9. QED
    BY <1>1, <1>3, <1>4, <1>5, <1>6, <1>7, <1>8 DEF Next, Continue

\* What a thread does outside Invoke leaves Invoke, and what was called, alone.
LEMMA OutsideInvoke ==
  ASSUME TypeInv, [Next]_vars
  PROVE  \/ UNCHANGED <<invokeVars, calls>>
         \/ ReceiveAnswer \/ ReceiveUpdate \/ Invoke
  <1>1. ASSUME NEW t \in Threads, Remove(t) \/ RemoveByName(t)
                                   \/ RemoveNamesakes(t)
        PROVE  UNCHANGED <<invokeVars, calls>>
    BY <1>1, Removes DEF TypeInv
  <1>2. QED
    BY <1>1
    DEF Next, Continue, Add, AddUnique, QueueGet, SetForRequest, StoreHandle,
        PushCallback, vars
\* What has been called are callbacks.
LEMMA CallsTyped ==
  ASSUME TypeInv
  PROVE  /\ calls \in Seq([callback : DOMAIN object, request : 0..MaxGets])
         /\ \A k \in DOMAIN calls : calls[k].callback \in DOMAIN object
  <1>1. calls \in Seq([callback : DOMAIN object, request : 0..MaxGets])
    BY DEF TypeInv, TypeOK
  <1>2. \A k \in DOMAIN calls :
          calls[k] \in [callback : DOMAIN object, request : 0..MaxGets]
    BY <1>1, SeqElement
  <1>3. QED
    BY <1>1, <1>2
-----------------------------------------------------------------------------
(* One-shot callbacks are called once.                                      *)

\* What is set for a request is a one-shot until it is retired; what has been
\* called for one is retired, or is in its call; and what is about to be
\* called has not been.
OneShotInv ==
  /\ \A t \in Threads :
       building[t].request # 0 => building[t].status = "ONESHOT"
  /\ \A c \in DOMAIN object :
       object[c].request # 0 => object[c].status \in {"ONESHOT", "REMOVED"}
  /\ \A k \in DOMAIN calls :
       object[calls[k].callback].request # 0
         => \/ object[calls[k].callback].status = "REMOVED"
            \/ where = "call" /\ copy[index] = calls[k].callback
  /\ where = "ready" => \A k \in DOMAIN calls :
       calls[k].callback = copy[index] => object[copy[index]].request = 0
  /\ OneShotOnce

LEMMA OneShotStep ==
  ASSUME TypeInv, OneShotInv, [Next]_vars
  PROVE  OneShotInv'
  <1>1. /\ DOMAIN object \subseteq DOMAIN object'
        /\ \A c \in DOMAIN object :
             /\ object'[c].request = object[c].request
             /\ object'[c].status \in {object[c].status, "REMOVED"}
        /\ \A c \in DOMAIN object' \ DOMAIN object :
             \E t \in Threads : object'[c] = building[t]
    BY ObjectStep
  <1>2. calls \in Seq([callback : DOMAIN object, request : 0..MaxGets])
        /\ \A k \in DOMAIN calls : calls[k].callback \in DOMAIN object
    BY CallsTyped
  <1>3. ASSUME NEW t \in Threads, building'[t].request # 0
        PROVE  building'[t].status = "ONESHOT"
    BY <1>3, BuildingStep DEF OneShotInv, OneShot
  <1>4. ASSUME NEW c \in DOMAIN object', object'[c].request # 0
        PROVE  object'[c].status \in {"ONESHOT", "REMOVED"}
    BY <1>1, <1>4 DEF OneShotInv
  <1> DEFINE Retired(k) == /\ object'[calls'[k].callback].request # 0
                           => \/ object'[calls'[k].callback].status = "REMOVED"
                              \/ where' = "call" /\ copy'[index'] = calls'[k].callback
             Fresh == where' = "ready" => \A k \in DOMAIN calls' :
                        calls'[k].callback = copy'[index']
                          => object'[copy'[index']].request = 0
  <1>5. ASSUME UNCHANGED calls
        PROVE  OneShotOnce'
    BY <1>1, <1>2, <1>5 DEF OneShotInv, OneShotOnce
  <1>6. CASE UNCHANGED <<invokeVars, calls>>
    <2>1. \A k \in DOMAIN calls' : Retired(k)
      BY <1>1, <1>2, <1>6 DEF OneShotInv, invokeVars
    <2>2. Fresh
      BY <1>1, <1>2, <1>6 DEF OneShotInv, invokeVars
    <2>3. QED
      BY <1>3, <1>4, <1>5, <1>6, <2>1, <2>2 DEF OneShotInv
  <1>7. CASE CheckCallback
    <2>1. UNCHANGED <<object, calls, copy>> /\ where = "loop" /\ where' # "call"
      BY <1>7 DEF CheckCallback, listVars
    <2>2. \A k \in DOMAIN calls' : Retired(k)
      BY <2>1 DEF OneShotInv
    <2>3. where' = "ready" => Live(copy[index]) /\ index' = index
      BY <1>7 DEF CheckCallback, Callable
    <2>4. Fresh
      BY <2>1, <2>3 DEF OneShotInv, Live
    <2>5. QED
      BY <1>3, <1>4, <1>5, <2>1, <2>2, <2>4 DEF OneShotInv
  <1>8. CASE CallCallback
    <2> DEFINE new == [callback |-> copy[index], request |-> message.n]
    <2>1. /\ UNCHANGED <<object, copy, index>>
          /\ where = "ready" /\ where' = "call" /\ calls' = Append(calls, new)
      BY <1>8 DEF CallCallback, listVars
    <2>2. /\ DOMAIN calls' = 1..(Len(calls) + 1) /\ DOMAIN calls = 1..Len(calls)
          /\ Len(calls) \in Nat
          /\ \A k \in DOMAIN calls : calls'[k] = calls[k]
          /\ calls'[Len(calls) + 1] = new
      BY <1>2, <2>1
    <2>3. \A k \in DOMAIN calls' : Retired(k)
      BY <2>1, <2>2 DEF OneShotInv
    <2>4. OneShotOnce'
      <3>1. SUFFICES ASSUME NEW i \in DOMAIN calls', NEW j \in DOMAIN calls',
                            i < j, calls'[i].callback = calls'[j].callback
                     PROVE  object[calls'[i].callback].request = 0
        BY <2>1 DEF OneShotOnce
      <3>2. i \in DOMAIN calls
        BY <2>2, <3>1
      <3>3. CASE j \in DOMAIN calls
        BY <2>2, <3>1, <3>2, <3>3 DEF OneShotInv, OneShotOnce
      <3>4. CASE j = Len(calls) + 1
        BY <2>1, <2>2, <3>1, <3>2, <3>4 DEF OneShotInv
      <3>5. QED
        BY <2>2, <3>3, <3>4
    <2>5. QED
      BY <1>3, <1>4, <2>1, <2>3, <2>4 DEF OneShotInv
  <1>9. CASE ReturnFromCallback
    <2>1. /\ UNCHANGED <<copy, calls>> /\ where = "call" /\ where' = "loop"
          /\ copy[index] \in DOMAIN object
      BY <1>9 DEF ReturnFromCallback, TypeInv, TypeOK, InCopy
    <2>2. object'[copy[index]].status = IF object[copy[index]].status = "ONESHOT"
                                        THEN "REMOVED"
                                        ELSE object[copy[index]].status
      BY <1>9, <2>1, ReturnShape DEF TypeInv
    <2>3. \A k \in DOMAIN calls' : Retired(k)
      BY <1>1, <1>2, <2>1, <2>2 DEF OneShotInv
    <2>4. QED
      BY <1>3, <1>4, <1>5, <2>1, <2>3 DEF OneShotInv
  <1>10. CASE Sweep \/ ReceiveAnswer \/ ReceiveUpdate
    <2>1. UNCHANGED <<object, calls>> /\ where \in {"no", "loop"}
          /\ where' \in {"no", "loop"}
      BY <1>10 DEF Sweep, ReceiveAnswer, ReceiveUpdate, BeginInvoke, listVars
    <2>2. \A k \in DOMAIN calls' : Retired(k)
      BY <2>1 DEF OneShotInv
    <2>3. QED
      BY <1>3, <1>4, <1>5, <2>1, <2>2 DEF OneShotInv
  <1>11. QED
    BY <1>6, <1>7, <1>8, <1>9, <1>10, OutsideInvoke DEF Invoke

\* A callback for one answer is called at most once, whatever callbacks and other
\* threads do to the event in between, and however often its id comes round
\* (include/gamelink.h:295-309).
THEOREM OneShotsFireOnce == Spec => []OneShotOnce
  <1>1. Init => TypeInv /\ OneShotInv
    BY TypeInit
    DEF TypeInv, InCopy, Init, OneShotInv, OneShotOnce, Persistent
  <1>2. TypeInv /\ OneShotInv /\ [Next]_vars => (TypeInv /\ OneShotInv)'
    BY TypeStep, OneShotStep
  <1>3. OneShotInv => OneShotOnce
    BY DEF OneShotInv
  <1>4. QED
    BY <1>1, <1>2, <1>3, PTL DEF Spec
-----------------------------------------------------------------------------
(* One-shot callbacks are called with their own answer.                     *)

\* Fewer requests are made than there are ids.
FewerGetsThanIds == MaxGets < IdSpace

\* Until the ids wrap, the id of a request is its number; so a message that a
\* callback of a request is ready for, or in its call with, is its answer.
AnswerInv ==
  /\ \A t \in Threads :
       building[t].request # 0 => building[t].target = building[t].request
  /\ \A c \in DOMAIN object :
       object[c].request # 0 => object[c].target = object[c].request
  /\ \A m \in outstanding : m.id = m.n /\ m.n # 0
  /\ IF message.n = 0 THEN message.id \in {0, ANY_REQUEST_ID}
                      ELSE message.id = message.n
  /\ where \in {"ready", "call"}
       => object[copy[index]].request \in {0, message.n}
  /\ OwnAnswer

LEMMA AnswerStep ==
  ASSUME FewerGetsThanIds, TypeInv, AnswerInv, [Next]_vars
  PROVE  AnswerInv'
  <1>1. /\ DOMAIN object \subseteq DOMAIN object'
        /\ \A c \in DOMAIN object :
             /\ object'[c].request = object[c].request
             /\ object'[c].target = object[c].target
        /\ \A c \in DOMAIN object' \ DOMAIN object :
             \E t \in Threads : object'[c] = building[t]
    BY ObjectStep
  <1>2. /\ calls \in Seq([callback : DOMAIN object, request : 0..MaxGets])
        /\ \A k \in DOMAIN calls : calls[k].callback \in DOMAIN object
    BY CallsTyped
  <1>3. gets \in 0..MaxGets /\ MaxGets \in Nat /\ IdSpace \in Nat
        /\ ANY_REQUEST_ID \in Nat /\ ANY_REQUEST_ID >= IdSpace
    BY EventAssumption DEF TypeInv, TypeOK
  <1>4. gets < MaxGets => (gets + 1) % IdSpace = gets + 1
    BY <1>3 DEF FewerGetsThanIds
  <1>5. \A t \in Threads : building'[t].request # 0
                             => building'[t].target = building'[t].request
    BY <1>4, BuildingStep DEF AnswerInv, OneShot
  <1>6. \A c \in DOMAIN object' : object'[c].request # 0
                                    => object'[c].target = object'[c].request
    BY <1>1 DEF AnswerInv
  <1>7. \A m \in outstanding' : m.id = m.n /\ m.n # 0
    <2>1. ASSUME NEW t \in Threads, QueueGet(t)
          PROVE  outstanding' = outstanding \cup {[id |-> gets + 1, n |-> gets + 1]}
      BY <1>4, <2>1 DEF QueueGet
    <2>2. ASSUME NEW t \in Threads, Add(t) \/ AddUnique(t) \/ SetForRequest(t)
                   \/ StoreHandle(t) \/ PushCallback(t)
          PROVE  UNCHANGED outstanding
      BY <2>2
      DEF Add, AddUnique, SetForRequest, StoreHandle, PushCallback, serverVars
    <2>3. ASSUME NEW t \in Threads, Remove(t) \/ RemoveByName(t)
                                     \/ RemoveNamesakes(t)
          PROVE  UNCHANGED outstanding
      BY <2>3, Removes DEF TypeInv, serverVars
    <2>4. CASE ReceiveAnswer \/ ReceiveUpdate \/ Invoke \/ UNCHANGED vars
      BY <2>4
      DEF AnswerInv, ReceiveAnswer, ReceiveUpdate, Invoke, CheckCallback,
          CallCallback, ReturnFromCallback, Sweep, serverVars, vars
    <2>5. QED
      BY <1>3, <2>1, <2>2, <2>3, <2>4 DEF AnswerInv, Next, Continue
  <1> DEFINE Message == IF message'.n = 0 THEN message'.id \in {0, ANY_REQUEST_ID}
                                         ELSE message'.id = message'.n
             Ready == where' \in {"ready", "call"}
                        => object'[copy'[index']].request \in {0, message'.n}
  <1>8. UNCHANGED calls => OwnAnswer'
    BY <1>1, <1>2 DEF AnswerInv, OwnAnswer
  <1>9. UNCHANGED message => Message
    BY DEF AnswerInv
  <1>10. where \in {"ready", "call"} => copy[index] \in DOMAIN object
    BY DEF TypeInv, TypeOK, InCopy
  <1>11. CASE UNCHANGED <<invokeVars, calls>>
    <2>1. Ready
      BY <1>1, <1>10, <1>11 DEF AnswerInv, invokeVars
    <2>2. QED
      BY <1>5, <1>6, <1>7, <1>8, <1>9, <1>11, <2>1 DEF AnswerInv, invokeVars
  <1>12. CASE ReceiveAnswer \/ ReceiveUpdate
    <2>1. UNCHANGED calls /\ where' = "loop"
      BY <1>12 DEF ReceiveAnswer, ReceiveUpdate, BeginInvoke
    <2>2. Message
      <3>1. CASE ReceiveAnswer
        BY <3>1 DEF ReceiveAnswer, BeginInvoke, AnswerInv
      <3>2. CASE ReceiveUpdate
        BY <3>2, EventAssumption DEF ReceiveUpdate, BeginInvoke
      <3>3. QED
        BY <1>12, <3>1, <3>2
    <2>3. QED
      BY <1>5, <1>6, <1>7, <1>8, <2>1, <2>2 DEF AnswerInv
  <1>13. CASE CheckCallback
    <2>1. UNCHANGED <<object, calls, copy, message>> /\ where = "loop"
          /\ where' \in {"loop", "ready"}
      BY <1>13 DEF CheckCallback, listVars
    <2>2. where' = "ready" => /\ index' = index /\ index \in DOMAIN copy
                              /\ Callable(copy[index])
      BY <1>13 DEF CheckCallback, TypeInv, TypeOK
    <2>3. ASSUME NEW c \in DOMAIN object, Callable(c)
          PROVE  object[c].request \in {0, message.n}
      <3>1. object[c] \in CallbackObject /\ object[c].request \in 0..MaxGets
        <4>1. object[c] \in CallbackObject
          BY SeqElement DEF TypeInv, TypeOK
        <4>2. QED
          BY <4>1 DEF CallbackObject
      <3>2. QED
        BY <1>3, <2>3, <3>1 DEF AnswerInv, Callable, FewerGetsThanIds
    <2>4. Ready
      BY <2>1, <2>2, <2>3 DEF TypeInv, TypeOK
    <2>5. QED
      BY <1>5, <1>6, <1>7, <1>8, <1>9, <2>1, <2>4 DEF AnswerInv
  <1>14. CASE CallCallback
    <2> DEFINE new == [callback |-> copy[index], request |-> message.n]
    <2>1. /\ UNCHANGED <<object, copy, index, message>>
          /\ where = "ready" /\ where' = "call" /\ calls' = Append(calls, new)
      BY <1>14 DEF CallCallback, listVars
    <2>2. /\ DOMAIN calls' = DOMAIN calls \cup {Len(calls) + 1}
          /\ \A k \in DOMAIN calls : calls'[k] = calls[k]
          /\ calls'[Len(calls) + 1] = new
      BY <1>2, <2>1
    <2>3. OwnAnswer'
      BY <2>1, <2>2 DEF AnswerInv, OwnAnswer
    <2>4. Ready
      BY <2>1 DEF AnswerInv
    <2>5. QED
      BY <1>5, <1>6, <1>7, <1>9, <2>1, <2>3, <2>4 DEF AnswerInv
  <1>15. CASE ReturnFromCallback \/ Sweep
    <2>1. UNCHANGED <<calls, message>> /\ where' \in {"no", "loop"}
      BY <1>15 DEF ReturnFromCallback, Sweep
    <2>2. QED
      BY <1>5, <1>6, <1>7, <1>8, <1>9, <2>1 DEF AnswerInv
  <1>16. QED
    BY <1>11, <1>12, <1>13, <1>14, <1>15, OutsideInvoke DEF Invoke

\* Until the ids wrap, a callback that was set for a request is never called with
\* another message, though others are answered in any order and updates carry
\* ids too (include/gamelink.h:285-310, src/schema/envelope.cpp:128).
THEOREM OwnAnswerHolds ==
  ASSUME FewerGetsThanIds
  PROVE  Spec => []OwnAnswer
  <1>1. Init => TypeInv /\ AnswerInv
    BY TypeInit
    DEF TypeInv, InCopy, Init, AnswerInv, OwnAnswer, Persistent
  <1>2. TypeInv /\ AnswerInv /\ [Next]_vars => (TypeInv /\ AnswerInv)'
    BY TypeStep, AnswerStep, FewerGetsThanIds
  <1>3. AnswerInv => OwnAnswer
    BY DEF AnswerInv
  <1>4. QED
    BY <1>1, <1>2, <1>3, PTL DEF Spec
-----------------------------------------------------------------------------
(* Removed callbacks stay silent.                                           *)

\* One thread does it all, as in the examples: callbacks are removed by the
\* thread that receives, between messages or in a callback.
OneThreaded == Callers \subseteq {Receiver}

\* A removed callback is marked, and Invoke is not about to call one: while it
\* is on the way from the check to the call, its thread is in no other call.
SilentInv ==
  /\ \A t \in Threads : pc[t] # "idle" => t \in Callers
  /\ where \in {"loop", "ready"} => pc[Receiver] = "idle"
  /\ \A c \in removed : object[c].status = "REMOVED"
  /\ where = "ready" => copy[index] \notin removed

LEMMA SilentStep ==
  ASSUME OneThreaded, TypeInv, SilentInv, [Next]_vars
  PROVE  SilentInv'
  <1>1. /\ DOMAIN object \subseteq DOMAIN object'
        /\ \A c \in DOMAIN object :
             object'[c].status \in {object[c].status, "REMOVED"}
    BY ObjectStep
  <1>2. /\ removed \subseteq DOMAIN object
        /\ pc \in [Threads -> {"idle", "set", "store", "unique", "push"}]
        /\ Receiver \in Threads
    BY EventAssumption DEF TypeInv, TypeOK
  <1>3. UNCHANGED removed => \A c \in removed' : object'[c].status = "REMOVED"
    BY <1>1, <1>2 DEF SilentInv
  <1>4. ASSUME NEW t \in Threads, Add(t) \/ AddUnique(t) \/ QueueGet(t)
                                   \/ Continue(t) \/ Remove(t) \/ RemoveByName(t)
        PROVE  /\ t = Receiver /\ where \in {"no", "call"}
               /\ \A u \in Threads : u # t => pc'[u] = pc[u]
               /\ UNCHANGED invokeVars
    <2>1. t \in Callers /\ (pc[t] # "idle" \/ MayCall(t))
      BY <1>4
      DEF SilentInv, Add, AddUnique, QueueGet, Continue, SetForRequest, MayCall,
          StoreHandle, RemoveNamesakes, PushCallback, Remove, RemoveByName
    <2>2. t = Receiver
      BY <2>1 DEF OneThreaded
    <2>3. where \in {"no", "call"}
      BY <2>1, <2>2 DEF MayCall, SilentInv, TypeInv, TypeOK
    <2>4. \A u \in Threads : u # t => pc'[u] = pc[u]
      BY <1>2, <1>4
      DEF Add, AddUnique, QueueGet, Continue, SetForRequest, LoadHandle, Goto,
          StoreHandle, RemoveNamesakes, PushCallback, Remove, RemoveByName, setVars
    <2>5. UNCHANGED invokeVars
      BY <1>4
      DEF Add, AddUnique, QueueGet, Continue, SetForRequest, StoreHandle,
          RemoveNamesakes, PushCallback, Remove, RemoveByName
    <2>6. QED
      BY <2>2, <2>3, <2>4, <2>5
  <1>5. ASSUME NEW t \in Threads, Add(t) \/ AddUnique(t) \/ QueueGet(t)
                                   \/ Continue(t) \/ Remove(t) \/ RemoveByName(t)
        PROVE  SilentInv'
    <2>1. \A c \in removed' : object'[c].status = "REMOVED"
      <3>1. CASE Remove(t) \/ RemoveByName(t) \/ RemoveNamesakes(t)
        <4>1. PICK S \in SUBSET DOMAIN object : MarkRemoved(S)
          BY <3>1, Removes DEF TypeInv
        <4>2. /\ removed' = removed \cup S
              /\ \A c \in DOMAIN object :
                   object'[c].status = IF c \in S THEN "REMOVED"
                                       ELSE object[c].status
          BY <4>1, MarkShape DEF TypeInv
        <4>3. QED
          BY <1>2, <4>2 DEF SilentInv
      <3>2. CASE ~(Remove(t) \/ RemoveByName(t) \/ RemoveNamesakes(t))
        <4>1. UNCHANGED removed
          BY <1>5, <3>2
          DEF Add, AddUnique, QueueGet, Continue, SetForRequest, StoreHandle,
              PushCallback
        <4>2. QED
          BY <1>3, <4>1
      <3>3. QED
        BY <3>1, <3>2
    <2>2. t \in Callers
      BY <1>5
      DEF SilentInv, Add, AddUnique, QueueGet, Continue, SetForRequest, MayCall,
          StoreHandle, RemoveNamesakes, PushCallback, Remove, RemoveByName
    <2>3. \A u \in Threads : pc'[u] # "idle" => u \in Callers
      BY <1>4, <1>5, <2>2 DEF SilentInv
    <2>4. where' \in {"no", "call"}
      BY <1>4, <1>5 DEF invokeVars
    <2>5. QED
      BY <2>1, <2>3, <2>4 DEF SilentInv
  <1>6. CASE ReceiveAnswer \/ ReceiveUpdate
    <2>1. UNCHANGED <<pc, removed>> /\ where' = "loop" /\ pc[Receiver] = "idle"
      BY <1>6 DEF ReceiveAnswer, ReceiveUpdate, BeginInvoke, setVars
    <2>2. QED
      BY <1>3, <2>1 DEF SilentInv
  <1>7. CASE CheckCallback
    <2>1. /\ UNCHANGED <<pc, removed, copy>> /\ where = "loop"
          /\ where' \in {"loop", "ready"}
          /\ where' = "ready" => Live(copy[index]) /\ index' = index
      BY <1>7 DEF CheckCallback, Callable, setVars
    <2>2. QED
      BY <1>3, <2>1 DEF SilentInv, Live
  <1>8. CASE CallCallback \/ ReturnFromCallback \/ Sweep
    <2>1. /\ UNCHANGED <<pc, removed>> /\ where' \in {"no", "loop", "call"}
          /\ where' = "loop" => pc[Receiver] = "idle"
      BY <1>8 DEF CallCallback, ReturnFromCallback, Sweep, setVars
    <2>2. QED
      BY <1>3, <2>1 DEF SilentInv
  <1>9. CASE UNCHANGED vars
    BY <1>3, <1>9 DEF SilentInv, vars, setVars, invokeVars
  <1>10. QED
    BY <1>5, <1>6, <1>7, <1>8, <1>9 DEF Next, Invoke

\* In a program of one thread, a callback that some Remove has removed is not
\* called any more, also when it was removed by a callback of the same message
\* ("This should not be called, since the previous handler will remove it",
\* test/callbacks.cpp:51).
THEOREM RemovedStaySilent ==
  ASSUME OneThreaded
  PROVE  Spec => NoCallAfterRemove
  <1>1. Init => TypeInv /\ SilentInv
    BY TypeInit DEF TypeInv, InCopy, Init, SilentInv
  <1>2. TypeInv /\ SilentInv /\ [Next]_vars => (TypeInv /\ SilentInv)'
    BY TypeStep, SilentStep, OneThreaded
  <1>3. TypeInv /\ SilentInv /\ [Next]_vars
          => [Len(calls') > Len(calls)
                => calls'[Len(calls')].callback \notin removed]_vars
    <2> SUFFICES ASSUME TypeInv, SilentInv, [Next]_vars,
                        Len(calls') > Len(calls)
                 PROVE  calls'[Len(calls')].callback \notin removed
      OBVIOUS
    <2>1. calls \in Seq([callback : DOMAIN object, request : 0..MaxGets])
      BY CallsTyped
    <2>2. calls' # calls
      BY <2>1
    <2>3. CallCallback
      BY <2>2, OutsideInvoke
      DEF ReceiveAnswer, ReceiveUpdate, Invoke, CheckCallback,
          ReturnFromCallback, Sweep
    <2>4. /\ calls' = Append(calls, [callback |-> copy[index],
                                     request |-> message.n])
          /\ where = "ready"
      BY <2>3 DEF CallCallback
    <2>5. calls'[Len(calls')].callback = copy[index]
      BY <2>1, <2>4
    <2>6. QED
      BY <2>4, <2>5 DEF SilentInv
  <1>4. QED
    BY <1>1, <1>2, <1>3, PTL DEF Spec, NoCallAfterRemove
-----------------------------------------------------------------------------
(* Names are unique.                                                        *)

\* One thread adds and removes; another may receive.
OneCaller == \A t, u \in Callers : t = u

\* Between the two critical sections of setUnique no callback of the name is
\* live, and nobody else can add one.
UniqueInv ==
  /\ \A t \in Threads : pc[t] # "idle" => t \in Callers
  /\ \A t \in Threads : pc[t] = "push" /\ building[t].name \in Names =>
       \A c \in Listed : object[c].name = building[t].name => ~Live(c)
  /\ UniqueNames

LEMMA UniqueStep ==
  ASSUME OneCaller, TypeInv, UniqueInv, [Next]_vars
  PROVE  UniqueInv'
  <1>1. /\ DOMAIN object \subseteq DOMAIN object'
        /\ \A c \in DOMAIN object :
             /\ object'[c].name = object[c].name
             /\ object'[c].status \in {object[c].status, "REMOVED"}
    BY ObjectStep
  <1>2. /\ callbacks \in Seq(DOMAIN object) /\ Listed \subseteq DOMAIN object
        /\ \A i \in DOMAIN callbacks : callbacks[i] \in DOMAIN object
        /\ building \in [Threads -> CallbackObject]
        /\ pc \in [Threads -> {"idle", "set", "store", "unique", "push"}]
    BY DEF TypeInv, TypeOK, Listed
  <1>3. \A c \in DOMAIN object : Live(c)' => Live(c)
    BY <1>1 DEF Live
  <1>4. UNCHANGED callbacks => UniqueNames'
    BY <1>1, <1>2, <1>3 DEF UniqueInv, UniqueNames
  <1>5. UNCHANGED <<callbacks, pc, building>> => UniqueInv'
    BY <1>1, <1>2, <1>3, <1>4 DEF UniqueInv, Listed
  <1>6. ASSUME NEW t \in Threads, Add(t) \/ AddUnique(t) \/ QueueGet(t)
                                   \/ SetForRequest(t) \/ StoreHandle(t)
        PROVE  UniqueInv'
    <2>1. UNCHANGED <<callbacks, object>> /\ t \in Callers
      BY <1>6
      DEF Add, AddUnique, QueueGet, SetForRequest, StoreHandle, MayCall,
          listVars, UniqueInv
    <2>2. /\ \A u \in Threads : u # t => pc'[u] = pc[u]
                                         /\ building'[u] = building[u]
          /\ pc'[t] = "push" => UNCHANGED building /\ building[t].name \notin Names
      BY <1>2, <1>6
      DEF Add, AddUnique, QueueGet, SetForRequest, StoreHandle, LoadHandle, Goto
    <2>3. \A u \in Threads : u # t => pc[u] # "push"
      BY <2>1 DEF UniqueInv, OneCaller
    <2>4. \A u \in Threads :
            pc'[u] = "push" => u = t /\ building'[u].name \notin Names
      BY <2>2, <2>3
    <2>5. \A u \in Threads : pc'[u] # "idle" => u \in Callers
      BY <2>1, <2>2 DEF UniqueInv
    <2>6. QED
      BY <1>4, <2>1, <2>4, <2>5 DEF UniqueInv
  <1>7. ASSUME NEW t \in Threads, Remove(t) \/ RemoveByName(t)
        PROVE  UniqueInv'
    BY <1>5, <1>7, Removes DEF Remove, RemoveByName, MarkRemoved, setVars
  <1>8. ASSUME NEW t \in Threads, RemoveNamesakes(t)
        PROVE  UniqueInv'
    <2>1. /\ MarkRemoved(Named(building[t].name)) /\ pc[t] = "unique"
          /\ pc' = [pc EXCEPT ![t] = "push"] /\ UNCHANGED <<building, callbacks>>
      BY <1>8 DEF RemoveNamesakes, MarkRemoved, Goto
    <2>2. Named(building[t].name) \in SUBSET DOMAIN object
      BY <1>2 DEF Named
    <2>3. \A c \in Named(building[t].name) : object'[c].status = "REMOVED"
      BY <2>1, <2>2, MarkShape DEF TypeInv
    <2>4. \A c \in Listed' : object'[c].name = building[t].name => ~Live(c)'
      BY <1>1, <1>2, <2>1, <2>3 DEF Listed, Named, Live
    <2>5. t \in Callers /\ \A u \in Threads : u # t => pc'[u] = pc[u]
      BY <1>2, <2>1 DEF UniqueInv
    <2>6. \A u \in Threads : u # t => pc'[u] # "push"
      BY <2>5 DEF UniqueInv, OneCaller
    <2>7. \A u \in Threads : pc'[u] # "idle" => u \in Callers
      BY <2>5 DEF UniqueInv
    <2>8. QED
      BY <1>4, <2>1, <2>4, <2>6, <2>7 DEF UniqueInv
  <1>9. ASSUME NEW t \in Threads, PushCallback(t)
        PROVE  UniqueInv'
    <2> DEFINE end == Len(callbacks) + 1
    <2>1. /\ DOMAIN callbacks' = DOMAIN callbacks \cup {end}
          /\ \A i \in DOMAIN callbacks : callbacks'[i] = callbacks[i]
          /\ callbacks'[end] = Len(object) + 1
          /\ object'[Len(object) + 1] = building[t]
          /\ \A c \in DOMAIN object : object'[c] = object[c]
      <3>1. TypeOK
        BY DEF TypeInv
      <3>2. /\ DOMAIN callbacks' = 1..end /\ DOMAIN callbacks = 1..Len(callbacks)
            /\ Len(callbacks) \in Nat
        BY <1>9, <3>1, PushShape
      <3>3. /\ \A i \in DOMAIN callbacks : callbacks'[i] = callbacks[i]
            /\ callbacks'[end] = Len(object) + 1
        BY <1>9, <3>1, PushShape
      <3>4. /\ object'[Len(object) + 1] = building[t]
            /\ \A c \in DOMAIN object : object'[c] = object[c]
        BY <1>9, <3>1, PushShape
      <3>5. QED
        BY <3>2, <3>3, <3>4
    <2>2. /\ pc[t] = "push" /\ t \in Callers /\ pc'[t] = "idle"
          /\ \A u \in Threads : u # t => pc'[u] = pc[u]
      BY <1>2, <1>9 DEF PushCallback, Goto, UniqueInv
    <2>3. \A u \in Threads : u # t => pc[u] # "push"
      BY <2>2 DEF UniqueInv, OneCaller
    <2>4. \A u \in Threads : pc'[u] # "push"
                             /\ (pc'[u] # "idle" => u \in Callers)
      BY <2>2, <2>3 DEF UniqueInv
    <2>5. \A i \in DOMAIN callbacks :
            object[callbacks[i]].name = building[t].name
              /\ building[t].name \in Names => ~Live(callbacks[i])
      BY <2>2 DEF UniqueInv, Listed
    <2>6. UniqueNames'
      <3>1. SUFFICES ASSUME NEW i \in DOMAIN callbacks', NEW j \in DOMAIN callbacks',
                            i # j, object'[callbacks'[i]].name \in Names,
                            object'[callbacks'[i]].name = object'[callbacks'[j]].name
                     PROVE  ~(Live(callbacks[i])' /\ Live(callbacks[j])')
        BY DEF UniqueNames
      <3>2. CASE i \in DOMAIN callbacks /\ j \in DOMAIN callbacks
        BY <1>2, <2>1, <3>1, <3>2 DEF UniqueInv, UniqueNames, Live
      <3>3. CASE i \in DOMAIN callbacks /\ j = Len(callbacks) + 1
        BY <1>2, <2>1, <2>5, <3>1, <3>3 DEF Live
      <3>4. CASE i = Len(callbacks) + 1 /\ j \in DOMAIN callbacks
        BY <1>2, <2>1, <2>5, <3>1, <3>4 DEF Live
      <3>5. QED
        BY <2>1, <3>1, <3>2, <3>3, <3>4
    <2>7. QED
      BY <2>4, <2>6 DEF UniqueInv
  <1>10. CASE ReceiveAnswer \/ ReceiveUpdate \/ CheckCallback \/ CallCallback
              \/ ReturnFromCallback
    BY <1>5, <1>10
    DEF ReceiveAnswer, ReceiveUpdate, CheckCallback, CallCallback,
        ReturnFromCallback, listVars, setVars
  <1>11. CASE Sweep
    <2>1. PICK from \in [DOMAIN callbacks' -> DOMAIN callbacks] :
            /\ \A i, j \in DOMAIN callbacks' : i # j => from[i] # from[j]
            /\ \A i \in DOMAIN callbacks' : callbacks'[i] = callbacks[from[i]]
      BY <1>11, SweepShape DEF TypeInv
    <2>2. UNCHANGED <<object, pc, building>>
      BY <1>11 DEF Sweep, setVars
    <2>3. Listed' \subseteq Listed
      BY <2>1 DEF Listed
    <2>4. UniqueNames'
      BY <2>1, <2>2 DEF UniqueInv, UniqueNames, Live
    <2>5. QED
      BY <2>2, <2>3, <2>4 DEF UniqueInv, Live
  <1>12. CASE UNCHANGED vars
    BY <1>5, <1>12 DEF vars, listVars, setVars
  <1>13. QED
    BY <1>6, <1>7, <1>8, <1>9, <1>10, <1>11, <1>12 DEF Next, Continue, Invoke

\* If one thread adds callbacks, two of one name are never both live, though
\* setUnique lets go of the lock in between (include/gamelink.h:361-374).
THEOREM NamesStayUnique ==
  ASSUME OneCaller
  PROVE  Spec => []UniqueNames
  <1>1. Init => TypeInv /\ UniqueInv
    BY TypeInit
    DEF TypeInv, InCopy, Init, UniqueInv, UniqueNames, Listed
  <1>2. TypeInv /\ UniqueInv /\ [Next]_vars => (TypeInv /\ UniqueInv)'
    BY TypeStep, UniqueStep, OneCaller
  <1>3. UniqueInv => UniqueNames
    BY DEF UniqueInv
  <1>4. QED
    BY <1>1, <1>2, <1>3, PTL DEF Spec
=============================================================================
