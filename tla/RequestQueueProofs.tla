------------------------- MODULE RequestQueueProofs -------------------------
(***************************************************************************)
(* Proofs about RequestQueue, for every set of threads and every bound:    *)
(* type correctness, and the barrier of WaitForResponse as long as the     *)
(* request ids have not wrapped and one thread at a time takes them.       *)
(***************************************************************************)
EXTENDS RequestQueue, TLAPS

-----------------------------------------------------------------------------
(* Lemmas on the operators of the queue.                                    *)

\* What ReceiveMessage leaves of the queue is the old queue without a prefix
\* of k waits that have nothing left to wait for, and with the waits for r
\* cleared (src/gamelink.cpp:316-338).
LEMMA ReceiveMessageShape ==
  ASSUME queuedPayloads \in Seq(Payloads), NEW r, ReceiveMessage(r)
  PROVE  \E k \in 0..Len(queuedPayloads) :
           /\ queuedPayloads' \in Seq(Payloads)
           /\ Len(queuedPayloads') = Len(queuedPayloads) - k
           /\ \A i \in 1..Len(queuedPayloads') :
                /\ queuedPayloads'[i].data = queuedPayloads[i + k].data
                /\ queuedPayloads'[i].id = queuedPayloads[i + k].id
                /\ queuedPayloads'[i].n = queuedPayloads[i + k].n
                /\ queuedPayloads'[i].after = queuedPayloads[i + k].after
                /\ \/ queuedPayloads'[i].waitingForResponse
                        = queuedPayloads[i + k].waitingForResponse
                   \/ /\ queuedPayloads[i + k].waitingForResponse = r
                      /\ queuedPayloads'[i].waitingForResponse = ANY_REQUEST_ID
           /\ \A i \in 1..k :
                /\ queuedPayloads[i].data = "none"
                /\ queuedPayloads[i].waitingForResponse \in {r, ANY_REQUEST_ID}
  <1> DEFINE q == ClearWaits(queuedPayloads, r)
  <1>1. PICK k \in 0..Len(q) : IsFrontRun(q, k)
                               /\ queuedPayloads' = SubSeq(q, k + 1, Len(q))
    BY DEF ReceiveMessage
  <1>2. ANY_REQUEST_ID \in RequestIds \cup {ANY_REQUEST_ID}
    OBVIOUS
  <1>3. q \in Seq(Payloads) /\ Len(q) = Len(queuedPayloads)
    <2>1. DOMAIN queuedPayloads = 1..Len(queuedPayloads)
      OBVIOUS
    <2>2. \A i \in 1..Len(queuedPayloads) :
            [queuedPayloads[i] EXCEPT !.waitingForResponse = ANY_REQUEST_ID]
              \in Payloads
      <3>1. SUFFICES ASSUME NEW p \in Payloads
                     PROVE  [p EXCEPT !.waitingForResponse = ANY_REQUEST_ID]
                              \in Payloads
        OBVIOUS
      <3>2. QED
        BY <1>2 DEF Payloads
    <2>3. \A i \in 1..Len(queuedPayloads) : q[i] \in Payloads
      BY <2>1, <2>2 DEF ClearWaits
    <2>4. q = [i \in 1..Len(queuedPayloads) |-> q[i]]
      BY <2>1 DEF ClearWaits
    <2>5. QED
      BY <2>3, <2>4
  <1>4. \A i \in 1..Len(q) :
          /\ q[i].data = queuedPayloads[i].data
          /\ q[i].id = queuedPayloads[i].id
          /\ q[i].n = queuedPayloads[i].n
          /\ q[i].after = queuedPayloads[i].after
          /\ \/ q[i].waitingForResponse = queuedPayloads[i].waitingForResponse
             \/ /\ queuedPayloads[i].waitingForResponse = r
                /\ q[i].waitingForResponse = ANY_REQUEST_ID
    <2>1. SUFFICES ASSUME NEW i \in 1..Len(q)
                   PROVE  LET p == queuedPayloads[i] IN
                          /\ q[i].data = p.data /\ q[i].id = p.id
                          /\ q[i].n = p.n /\ q[i].after = p.after
                          /\ \/ q[i].waitingForResponse = p.waitingForResponse
                             \/ /\ p.waitingForResponse = r
                                /\ q[i].waitingForResponse = ANY_REQUEST_ID
      OBVIOUS
    <2>2. queuedPayloads[i] \in Payloads /\ i \in DOMAIN queuedPayloads
      BY <1>3
    <2>3. QED
      BY <2>2 DEF ClearWaits, Payloads
  <1>5. /\ queuedPayloads' \in Seq(Payloads)
        /\ Len(queuedPayloads') = Len(q) - k
        /\ \A i \in 1..Len(queuedPayloads') : queuedPayloads'[i] = q[i + k]
    BY <1>1, <1>3
  <1>6. \A i \in 1..k : q[i].data = "none" /\ q[i].waitingForResponse = ANY_REQUEST_ID
    BY <1>1 DEF IsFrontRun, Cleared
  <1>7. k \in 0..Len(queuedPayloads)
    BY <1>3
  <1> HIDE DEF q
  <1>8. \A i \in 1..Len(queuedPayloads') :
          i + k \in 1..Len(q) /\ queuedPayloads'[i] = q[i + k]
    BY <1>3, <1>5, <1>7
  <1>9. \A i \in 1..k :
          /\ queuedPayloads[i].data = "none"
          /\ queuedPayloads[i].waitingForResponse \in {r, ANY_REQUEST_ID}
    <2>1. SUFFICES ASSUME NEW i \in 1..k
                   PROVE  /\ queuedPayloads[i].data = "none"
                          /\ queuedPayloads[i].waitingForResponse
                               \in {r, ANY_REQUEST_ID}
      OBVIOUS
    <2>2. i \in 1..Len(q)
      BY <1>3, <1>7
    <2>3. QED
      BY <1>4, <1>6, <2>2
  <1>10. Len(queuedPayloads') = Len(queuedPayloads) - k
    BY <1>3, <1>5
  <1>11. \A i \in 1..Len(queuedPayloads') :
           /\ queuedPayloads'[i].data = queuedPayloads[i + k].data
           /\ queuedPayloads'[i].id = queuedPayloads[i + k].id
           /\ queuedPayloads'[i].n = queuedPayloads[i + k].n
           /\ queuedPayloads'[i].after = queuedPayloads[i + k].after
           /\ \/ queuedPayloads'[i].waitingForResponse
                   = queuedPayloads[i + k].waitingForResponse
              \/ /\ queuedPayloads[i + k].waitingForResponse = r
                 /\ queuedPayloads'[i].waitingForResponse = ANY_REQUEST_ID
    BY <1>4, <1>8
  <1>12. QED
    BY <1>5, <1>7, <1>9, <1>10, <1>11
-----------------------------------------------------------------------------
(* Type correctness.                                                        *)

\* The payloads the queue is built from are payloads.
LEMMA PayloadsTyped ==
  ASSUME IdsAssumption, waitedFor \subseteq Nat
  PROVE  /\ AuthPayload \in Payloads
         /\ \A r \in RequestRef : /\ RequestPayload(r) \in Payloads
                                 /\ WaitPayload(r) \in Payloads
  BY DEF IdsAssumption, AuthPayload, RequestPayload, WaitPayload, Payloads,
         RequestRef, ANY_REQUEST_ID

\* The id a thread is about to use is one of the IdSpace request ids.
LEMMA CurrentTyped ==
  ASSUME IdsAssumption, TypeOK, NEW t \in Threads
  PROVE  Current(t) \in RequestRef
  <1>1. reg[t] \in Nat /\ serial[t] \in Nat
    BY DEF TypeOK, IdsAssumption
  <1>2. IdSpace \in Nat \ {0}
    BY DEF IdsAssumption
  <1>3. reg[t] % IdSpace \in 0..(IdSpace - 1)
    BY <1>1, <1>2
  <1>4. QED
    BY <1>1, <1>3 DEF Current, RequestRef, RequestIds

\* A thread that is about to wait has a wait left to make, and one that is
\* about to replay has a subscription left: without it the two countdowns
\* could leave the naturals.
CallsCounted ==
  \A t \in Threads : /\ pc[t] = "wait" => waits[t] > 0
                     /\ pc[t] = "replay" => replays[t] > 0

\* One step keeps the countdowns of the calls.
LEMMA CallsCountedStep ==
  ASSUME BoundsAssumption, TypeOK, CallsCounted, [Next]_vars
  PROVE  CallsCounted'
  <1> SUFFICES ASSUME NEW s \in Threads
               PROVE  /\ pc'[s] = "wait" => waits'[s] > 0
                      /\ pc'[s] = "replay" => replays'[s] > 0
    BY DEF CallsCounted
  <1> USE DEF TypeOK, CallsCounted, Goto
  <1>1. ASSUME NEW t \in Threads, BeginRequest(t) \/ ReplaySubscription(t)
        PROVE  /\ pc'[s] = "wait" => waits'[s] > 0
               /\ pc'[s] = "replay" => replays'[s] > 0
    BY <1>1 DEF BeginRequest, ReplaySubscription, LoadRequestId
  <1>2. ASSUME NEW t \in Threads, PushPayload(t) \/ WaitForResponse(t)
        PROVE  /\ pc'[s] = "wait" => waits'[s] > 0
               /\ pc'[s] = "replay" => replays'[s] > 0
    BY <1>2 DEF PushPayload, WaitForResponse, callVars
  <1>3. ASSUME NEW t \in Threads, HandleReconnect(t)
        PROVE  /\ pc'[s] = "wait" => waits'[s] > 0
               /\ pc'[s] = "replay" => replays'[s] > 0
    BY <1>3 DEF HandleReconnect
  <1>4. ASSUME NEW t \in Threads,
               \/ WaitLate(t) \/ ForeachPayload(t) \/ StoreRequestId(t)
               \/ PopPayload(t) \/ SendPayload(t) \/ EndForeach(t)
        PROVE  /\ pc'[s] = "wait" => waits'[s] > 0
               /\ pc'[s] = "replay" => replays'[s] > 0
    BY <1>4 DEF WaitLate, ForeachPayload, StoreRequestId, PopPayload,
                SendPayload, EndForeach, callVars
  <1>5. CASE ReceiveAnswer \/ ReceiveUpdate \/ Disconnect \/ Reconnect
    BY <1>5 DEF ReceiveAnswer, ReceiveUpdate, Disconnect, Reconnect, callVars
  <1>6. CASE UNCHANGED vars
    BY <1>6 DEF vars, callVars
  <1>7. QED
    BY <1>1, <1>2, <1>3, <1>4, <1>5, <1>6 DEF Next, Continue

\* One step of the queue keeps every variable in its type.
LEMMA TypeStep ==
  ASSUME IdsAssumption, BoundsAssumption, ThreadsAssumption,
         TypeOK, CallsCounted, [Next]_vars
  PROVE  TypeOK'
  <1> USE DEF Goto
  <1>0. /\ 0 \in 0..(CounterSpace - 1)
        /\ IdSpace \in Nat \ {0} /\ CounterSpace \in Nat \ {0}
    BY DEF IdsAssumption, REJECTED_REQUEST_ID
  <1>1. ASSUME NEW t \in Threads, BeginRequest(t)
        PROVE  TypeOK'
    <2>1. reg' \in [Threads -> 0..(CounterSpace - 1)]
      BY <1>1 DEF TypeOK, BeginRequest, LoadRequestId
    <2>2. serial' \in [Threads -> Nat] /\ requestCount' \in Nat
      BY <1>1 DEF TypeOK, BeginRequest, LoadRequestId
    <2>3. waits' \in [Threads -> Nat]
      BY <1>1 DEF TypeOK, BeginRequest, BoundsAssumption
    <2>4. pc' = [pc EXCEPT ![t] = "store"]
      BY <1>1 DEF BeginRequest, LoadRequestId
    <2>5. QED
      BY <1>1, <2>1, <2>2, <2>3, <2>4 DEF TypeOK, BeginRequest, queueVars,
                                          netVars
  <1>2. ASSUME NEW t \in Threads, WaitLate(t)
        PROVE  TypeOK'
    <2>1. PICK r \in returned : PushWait(r)
      BY <1>2 DEF WaitLate
    <2>2. r \in RequestRef /\ r.n \in Nat
      BY DEF TypeOK, RequestRef
    <2>3. WaitPayload(r) \in Payloads
      BY <2>2, PayloadsTyped DEF TypeOK
    <2>4. queuedPayloads' = Append(queuedPayloads, WaitPayload(r))
          /\ waitedFor' = waitedFor \cup {r.n}
      BY <2>1 DEF PushWait
    <2>5. queuedPayloads' \in Seq(Payloads) /\ waitedFor' \subseteq Nat
      <3>1. queuedPayloads \in Seq(Payloads) /\ waitedFor \subseteq Nat
        BY DEF TypeOK
      <3>2. Append(queuedPayloads, WaitPayload(r)) \in Seq(Payloads)
        BY <2>3, <3>1
      <3>3. waitedFor \cup {r.n} \subseteq Nat
        BY <2>2, <3>1
      <3>4. QED
        BY <2>4, <3>2, <3>3
    <2>6. QED
      BY <1>2, <2>5 DEF TypeOK, WaitLate, callVars, netVars
  <1>3. ASSUME NEW t \in Threads, ForeachPayload(t)
        PROVE  TypeOK'
    BY <1>3 DEF TypeOK, ForeachPayload, queueVars, callVars, netVars,
                historyVars
  <1>4. ASSUME NEW t \in Threads, HandleReconnect(t)
        PROVE  TypeOK'
    <2>1. queuedPayloads' \in Seq(Payloads)
      <3>1. AuthPayload \in Payloads
        BY PayloadsTyped DEF TypeOK
      <3>2. <<AuthPayload>> \in Seq(Payloads)
        BY <3>1
      <3>3. QED
        <4>1. queuedPayloads \in Seq(Payloads)
          BY DEF TypeOK
        <4>2. <<AuthPayload>> \o queuedPayloads \in Seq(Payloads)
          BY <3>2, <4>1
        <4>3. QED
          BY <1>4, <4>1, <4>2 DEF HandleReconnect
    <2>2. /\ replays' \in [Threads -> Nat]
          /\ link' \in {"first", "down", "fresh", "resumed"}
          /\ pc' \in [Threads -> {"idle", "store", "push", "wait", "replay",
                                  "drain", "send"}]
      <3>1. CASE storedRefresh
        <4>1. PICK k \in 0..MaxReplays :
                /\ replays' = [replays EXCEPT ![t] = k]
                /\ pc' = [pc EXCEPT ![t] = IF k > 0 THEN "replay" ELSE "idle"]
          BY <1>4, <3>1 DEF HandleReconnect
        <4>2. k \in Nat
          BY DEF BoundsAssumption
        <4>3. QED
          BY <1>4, <3>1, <4>1, <4>2 DEF HandleReconnect, TypeOK
      <3>2. CASE ~storedRefresh
        BY <1>4, <3>2 DEF HandleReconnect, TypeOK
      <3>3. QED
        BY <3>1, <3>2
    <2>3. QED
      BY <1>4, <2>1, <2>2 DEF TypeOK, HandleReconnect, historyVars
  <1>5. ASSUME NEW t \in Threads, StoreRequestId(t)
        PROVE  TypeOK'
    <2>1. (reg[t] + 1) % CounterSpace \in 0..(CounterSpace - 1)
      BY <1>0, SMTT(30) DEF TypeOK
    <2>2. QED
      BY <1>5, <2>1 DEF TypeOK, StoreRequestId, callVars, netVars, historyVars
  <1>6. ASSUME NEW t \in Threads, PushPayload(t)
        PROVE  TypeOK'
    <2>1. Current(t) \in RequestRef
      BY CurrentTyped
    <2>2. RequestPayload(Current(t)) \in Payloads
      BY <2>1, PayloadsTyped DEF TypeOK
    <2>3. queuedPayloads' \in Seq(Payloads) /\ returned' \subseteq RequestRef
      BY <1>6, <2>1, <2>2 DEF TypeOK, PushPayload
    <2>4. QED
      BY <1>6, <2>3 DEF TypeOK, PushPayload, callVars, netVars
  <1>7. ASSUME NEW t \in Threads, WaitForResponse(t)
        PROVE  TypeOK'
    <2>1. Current(t) \in RequestRef /\ Current(t).n \in Nat
      BY CurrentTyped DEF RequestRef
    <2>2. WaitPayload(Current(t)) \in Payloads
      BY <2>1, PayloadsTyped DEF TypeOK
    <2>3. queuedPayloads' \in Seq(Payloads) /\ waitedFor' \subseteq Nat
      <3>1. queuedPayloads \in Seq(Payloads) /\ waitedFor \subseteq Nat
        BY DEF TypeOK
      <3>2. /\ queuedPayloads' = Append(queuedPayloads, WaitPayload(Current(t)))
            /\ waitedFor' = waitedFor \cup {Current(t).n}
        BY <1>7 DEF WaitForResponse, PushWait
      <3>3. Append(queuedPayloads, WaitPayload(Current(t))) \in Seq(Payloads)
        BY <2>2, <3>1
      <3>4. waitedFor \cup {Current(t).n} \subseteq Nat
        BY <2>1, <3>1
      <3>5. QED
        BY <3>2, <3>3, <3>4
    <2>4. waits' \in [Threads -> Nat]
      BY <1>7, SMTT(30) DEF TypeOK, WaitForResponse, CallsCounted
    <2>5. QED
      BY <1>7, <2>3, <2>4 DEF TypeOK, WaitForResponse, netVars
  <1>8. ASSUME NEW t \in Threads, PopPayload(t)
        PROVE  TypeOK'
    <2>1. /\ Head(queuedPayloads) \in Payloads
          /\ Tail(queuedPayloads) \in Seq(Payloads)
      BY <1>8, SMTT(30) DEF TypeOK, PopPayload, HasPayloadsNoLock
    <2>2. QED
      BY <1>8, <2>1 DEF TypeOK, PopPayload, callVars, netVars, historyVars
  <1>9. ASSUME NEW t \in Threads, SendPayload(t)
        PROVE  TypeOK'
    <2>1. held[t] \in Payloads
      BY DEF TypeOK
    <2>2. sent' \in Seq(Payloads)
      <3>1. sent \in Seq(Payloads)
        BY DEF TypeOK
      <3>2. sent' = sent \/ sent' = Append(sent, held[t])
        BY <1>9 DEF SendPayload
      <3>3. QED
        BY <2>1, <3>1, <3>2
    <2>3. outstanding' \subseteq RequestRef
      <3>1. [id |-> held[t].id, n |-> held[t].n] \in RequestRef
        BY <2>1 DEF Payloads, RequestRef
      <3>2. outstanding \subseteq RequestRef
        BY DEF TypeOK
      <3>3. \/ outstanding' = outstanding
            \/ outstanding' = outstanding
                               \cup {[id |-> held[t].id, n |-> held[t].n]}
        BY <1>9 DEF SendPayload
      <3>4. QED
        BY <3>1, <3>2, <3>3
    <2>4. QED
      BY <1>9, <2>2, <2>3 DEF TypeOK, SendPayload, queueVars, callVars
  <1>10. ASSUME NEW t \in Threads, EndForeach(t)
         PROVE  TypeOK'
    BY <1>10 DEF TypeOK, EndForeach, queueVars, callVars, netVars, historyVars
  <1>11. ASSUME NEW t \in Threads, ReplaySubscription(t)
         PROVE  TypeOK'
    <2>1. reg' \in [Threads -> 0..(CounterSpace - 1)]
      BY <1>11 DEF TypeOK, ReplaySubscription, LoadRequestId
    <2>2. serial' \in [Threads -> Nat] /\ requestCount' \in Nat
      BY <1>11 DEF TypeOK, ReplaySubscription, LoadRequestId
    <2>3. replays' \in [Threads -> Nat]
      BY <1>11, SMTT(30) DEF TypeOK, ReplaySubscription, CallsCounted
    <2>4. pc' = [pc EXCEPT ![t] = "store"]
      BY <1>11 DEF ReplaySubscription, LoadRequestId
    <2>5. QED
      BY <1>11, <2>1, <2>2, <2>3, <2>4 DEF TypeOK, ReplaySubscription,
                                           queueVars, netVars
  <1>12. ASSUME ReceiveAnswer
         PROVE  TypeOK'
    <2>1. PICK m \in outstanding : /\ ReceiveMessage(m.id)
                                   /\ outstanding' = outstanding \ {m}
                                   /\ answered' = answered \cup {m.n}
                                   /\ storedRefresh' \in
                                        {storedRefresh, storedRefresh \/ m.n = 1}
      BY <1>12 DEF ReceiveAnswer
    <2>2. queuedPayloads' \in Seq(Payloads)
      BY <2>1, ReceiveMessageShape DEF TypeOK
    <2>3. m.n \in Nat
      BY DEF TypeOK, RequestRef
    <2>4. storedRefresh' \in BOOLEAN
      BY <2>1 DEF TypeOK
    <2>5. QED
      BY <1>12, <2>1, <2>2, <2>3, <2>4 DEF TypeOK, ReceiveAnswer, callVars
  <1>13. ASSUME ReceiveUpdate
         PROVE  TypeOK'
    <2>1. queuedPayloads' \in Seq(Payloads)
      BY <1>13, ReceiveMessageShape DEF TypeOK, ReceiveUpdate
    <2>2. QED
      BY <1>13, <2>1 DEF TypeOK, ReceiveUpdate, callVars, netVars, historyVars
  <1>14. ASSUME Disconnect
         PROVE  TypeOK'
    BY <1>14, SMTT(30) DEF TypeOK, Disconnect, queueVars, callVars, historyVars
  <1>15. ASSUME Reconnect
         PROVE  TypeOK'
    BY <1>15, SMTT(30) DEF TypeOK, Reconnect, queueVars, callVars, historyVars
  <1>16. CASE UNCHANGED vars
    BY <1>16 DEF TypeOK, vars, queueVars, callVars, netVars, historyVars
  <1>17. QED
    BY <1>1, <1>2, <1>3, <1>4, <1>5, <1>6, <1>7, <1>8, <1>9, <1>10, <1>11,
       <1>12, <1>13, <1>14, <1>15, <1>16 DEF Next, Continue

\* The queue, the counter, every thread's call and the history variables stay
\* in their types, for any threads and any bounds.
THEOREM TypeCorrect == Spec => []TypeOK
  <1>1. Init => TypeOK /\ CallsCounted
    <2>1. AuthPayload \in Payloads
      BY IdsAssumption DEF IdsAssumption, AuthPayload, Payloads
    <2>2. 1 \in 0..(CounterSpace - 1) /\ 0 \in 0..(CounterSpace - 1)
      BY IdsAssumption DEF IdsAssumption, REJECTED_REQUEST_ID
    <2>3. SUFFICES ASSUME Init PROVE TypeOK /\ CallsCounted
      OBVIOUS
    <2>4. queuedPayloads \in Seq(Payloads) /\ sent \in Seq(Payloads)
      BY <2>3 DEF Init
    <2>5. /\ pc \in [Threads -> {"idle", "store", "push", "wait", "replay",
                                 "drain", "send"}]
          /\ held \in [Threads -> Payloads] /\ CallsCounted
      BY <2>1, <2>3 DEF Init, CallsCounted
    <2>6. QED
      BY <2>2, <2>3, <2>4, <2>5 DEF Init, TypeOK
  <1>2. TypeOK /\ CallsCounted /\ [Next]_vars => (TypeOK /\ CallsCounted)'
    BY TypeStep, CallsCountedStep, IdsAssumption, BoundsAssumption,
       ThreadsAssumption
  <1>3. QED
    BY <1>1, <1>2, PTL DEF Spec
-----------------------------------------------------------------------------
(* The barrier.  Before the ids wrap, and with one thread taking them, the   *)
(* n-th request has id n: the answer that clears a wait is the answer the    *)
(* caller meant.  A payload's waits are then resolved or ahead of it in the  *)
(* queue, and it is popped only when nothing is ahead of it.                 *)

Issuers == Callers \cup {Reconnector}
OneIssuer == \A s, t \in Issuers : s = t

\* The counter is one past the requests made, except between load and store.
CounterInv ==
  /\ \A t \in Threads :
       /\ pc[t] \in {"store", "push", "wait", "replay"} => t \in Issuers
       /\ pc[t] = "store" => reg[t] = requestCount /\ serial[t] = requestCount
                             /\ requestCount > 0
       /\ pc[t] \in {"push", "wait"} => reg[t] = serial[t]
                                        /\ serial[t] \in 1..requestCount
  /\ (\A t \in Threads : pc[t] # "store") => currentRequestId = requestCount + 1

\* Request n has id n.
Numbered(m, count) == m.id = m.n /\ m.n \in 1..count
RefsInv == \A m \in outstanding \cup returned : Numbered(m, requestCount)

\* A payload names its request; a wait waits for its own request, until that
\* request has been answered.
Sound(p, count, done) ==
  /\ p.data = "request" => Numbered(p, count)
  /\ p.data = "none" =>
       /\ p.n \in 1..count
       /\ p.waitingForResponse \in {p.n, ANY_REQUEST_ID}
       /\ p.waitingForResponse = ANY_REQUEST_ID => p.n \in done

\* The wait for m has been resolved, or is among the first k of queue q.
Resolved(m, k, q, done) ==
  m \in done \/ \E j \in 1..k : q[j].data = "none" /\ q[j].n = m

GoodQueue(q, count, done) ==
  \A i \in 1..Len(q) :
    /\ Sound(q[i], count, done)
    /\ q[i].data # "none" => \A m \in q[i].after : Resolved(m, i - 1, q, done)

QueueInv == GoodQueue(queuedPayloads, requestCount, answered)
WaitsInv ==
  \A m \in waitedFor : Resolved(m, Len(queuedPayloads), queuedPayloads, answered)

HeldInv ==
  \A t \in Threads : pc[t] = "send" =>
    /\ Sound(held[t], requestCount, answered)
    /\ held[t].data # "none" => held[t].after \subseteq answered

BarrierParts ==
  CounterInv /\ RefsInv /\ QueueInv /\ WaitsInv /\ HeldInv /\ Barrier

BarrierInv == requestCount < IdSpace => BarrierParts
-----------------------------------------------------------------------------
(* The counter.                                                             *)

\* An id taken before the wrap is its request's number.
LEMMA CurrentNumbered ==
  ASSUME IdsAssumption, TypeOK, CounterInv, requestCount < IdSpace,
         NEW t \in Threads, pc[t] \in {"push", "wait"}
  PROVE  Numbered(Current(t), requestCount)
  <1>1. reg[t] = serial[t] /\ serial[t] \in 1..requestCount
    BY DEF CounterInv
  <1>2. requestCount \in Nat /\ IdSpace \in Nat \ {0}
    BY DEF TypeOK, IdsAssumption
  <1>3. reg[t] % IdSpace = serial[t]
    BY <1>1, <1>2
  <1>4. QED
    BY <1>1, <1>3 DEF Current, Numbered

\* The counter follows the requests made, because no two threads are between
\* its load and its store.
LEMMA CounterStep ==
  ASSUME IdsAssumption, ThreadsAssumption, OneIssuer, TypeOK, CounterInv,
         requestCount < IdSpace, [Next]_vars
  PROVE  CounterInv'
  <1> USE DEF Goto
  <1>0. requestCount \in Nat /\ Reconnector \in Issuers /\ Issuers \subseteq Threads
    BY DEF TypeOK, ThreadsAssumption, Issuers
  <1>1. ASSUME NEW t \in Threads, BeginRequest(t) \/ ReplaySubscription(t)
        PROVE  CounterInv'
    <2>1. t \in Issuers /\ pc[t] # "store"
      BY <1>1 DEF BeginRequest, ReplaySubscription, Issuers, CounterInv
    <2>2. \A s \in Threads : pc[s] # "store"
      BY <2>1 DEF CounterInv, OneIssuer
    <2>3. currentRequestId = requestCount + 1
      BY <2>2 DEF CounterInv
    <2>4. /\ reg' = [reg EXCEPT ![t] = currentRequestId]
          /\ serial' = [serial EXCEPT ![t] = requestCount + 1]
          /\ requestCount' = requestCount + 1
          /\ pc' = [pc EXCEPT ![t] = "store"]
      BY <1>1 DEF BeginRequest, ReplaySubscription, LoadRequestId
    <2>5. /\ pc'[t] = "store" /\ reg'[t] = requestCount'
          /\ serial'[t] = requestCount' /\ requestCount' > 0
      BY <1>0, <2>3, <2>4 DEF TypeOK
    <2>6. \A s \in Threads : s # t =>
            /\ pc'[s] = pc[s] /\ reg'[s] = reg[s] /\ serial'[s] = serial[s]
      BY <2>4 DEF TypeOK
    <2>7. 1..requestCount \subseteq 1..requestCount'
      BY <1>0, <2>4
    <2>8. QED
      BY <2>1, <2>2, <2>5, <2>6, <2>7 DEF CounterInv
  <1>2. ASSUME NEW t \in Threads, StoreRequestId(t)
        PROVE  CounterInv'
    <2>1. t \in Issuers /\ reg[t] = requestCount /\ serial[t] = requestCount
          /\ requestCount > 0
      BY <1>2 DEF StoreRequestId, CounterInv
    <2>2. \A s \in Threads : pc[s] = "store" => s = t
      BY <2>1 DEF CounterInv, OneIssuer
    <2>3. (reg[t] + 1) % CounterSpace = requestCount + 1
      <3>1. /\ CounterSpace \in Nat /\ IdSpace \in Nat
            /\ IdSpace <= CounterSpace - 2
        BY DEF IdsAssumption, REJECTED_REQUEST_ID
      <3>2. requestCount + 1 \in 0..(CounterSpace - 1)
        BY <1>0, <3>1
      <3>3. QED
        BY <2>1, <3>1, <3>2
    <2>4. /\ currentRequestId' = requestCount + 1
          /\ pc' = [pc EXCEPT ![t] = "push"]
          /\ UNCHANGED <<reg, serial, requestCount>>
      BY <1>2, <2>3 DEF StoreRequestId, callVars, historyVars
    <2>5. QED
      BY <1>0, <2>1, <2>2, <2>4 DEF CounterInv, TypeOK
  <1>3. ASSUME NEW t \in Threads, PushPayload(t) \/ WaitForResponse(t)
        PROVE  CounterInv'
    <2>1. /\ pc[t] \in {"push", "wait"}
          /\ \E l \in {"wait", "replay", "idle"} : pc' = [pc EXCEPT ![t] = l]
          /\ UNCHANGED <<currentRequestId, reg, serial, requestCount>>
      BY <1>3 DEF PushPayload, WaitForResponse, callVars
    <2>2. QED
      BY <2>1 DEF CounterInv, TypeOK
  <1>4. ASSUME NEW t \in Threads, HandleReconnect(t)
        PROVE  CounterInv'
    <2>1. /\ t \in Issuers /\ pc[t] = "idle"
          /\ \E l \in {"replay", "idle"} : pc' = [pc EXCEPT ![t] = l]
          /\ UNCHANGED <<currentRequestId, reg, serial, requestCount>>
      BY <1>0, <1>4 DEF HandleReconnect, historyVars, TypeOK
    <2>2. QED
      BY <2>1 DEF CounterInv, TypeOK
  <1>5. ASSUME NEW t \in Threads,
               \/ ForeachPayload(t) \/ PopPayload(t) \/ SendPayload(t)
               \/ EndForeach(t)
        PROVE  CounterInv'
    <2>1. /\ pc[t] \in {"idle", "drain", "send"}
          /\ \E l \in {"idle", "drain", "send"} : pc' = [pc EXCEPT ![t] = l]
          /\ UNCHANGED <<currentRequestId, reg, serial, requestCount>>
      BY <1>5 DEF ForeachPayload, PopPayload, SendPayload, EndForeach,
                  queueVars, callVars, historyVars
    <2>2. QED
      BY <2>1 DEF CounterInv, TypeOK
  <1>6. ASSUME \/ \E t \in Threads : WaitLate(t)
               \/ ReceiveAnswer \/ ReceiveUpdate \/ Disconnect \/ Reconnect
               \/ UNCHANGED vars
        PROVE  CounterInv'
    <2>1. UNCHANGED <<currentRequestId, pc, reg, serial, requestCount>>
      BY <1>6 DEF WaitLate, ReceiveAnswer, ReceiveUpdate, Disconnect, Reconnect,
                  vars, queueVars, callVars, historyVars
    <2>2. QED
      BY <2>1 DEF CounterInv
  <1>7. QED
    BY <1>1, <1>2, <1>3, <1>4, <1>5, <1>6 DEF Next, Continue
-----------------------------------------------------------------------------
(* The queue.                                                               *)

\* What has been resolved or lies ahead stays so when answers come in.
LEMMA AnswersOnlyHelp ==
  ASSUME NEW q \in Seq(Payloads), NEW c \in Nat, NEW d \in Nat, c <= d,
         NEW done, NEW done2, done \subseteq done2
  PROVE  /\ \A p : Sound(p, c, done) => Sound(p, d, done2)
         /\ \A m, k : Resolved(m, k, q, done) => Resolved(m, k, q, done2)
         /\ GoodQueue(q, c, done) => GoodQueue(q, d, done2)
  <1>1. \A p : Sound(p, c, done) => Sound(p, d, done2)
    BY DEF Sound, Numbered
  <1>2. \A m, k : Resolved(m, k, q, done) => Resolved(m, k, q, done2)
    BY DEF Resolved
  <1>3. QED
    BY <1>1, <1>2 DEF GoodQueue

\* A payload pushed behind the waits that were made before it, and no others.
LEMMA GoodAppend ==
  ASSUME NEW q \in Seq(Payloads), NEW p \in Payloads,
         NEW c \in Nat, NEW done, NEW S,
         GoodQueue(q, c, done), Sound(p, c, done),
         \A m \in S : Resolved(m, Len(q), q, done),
         p.data # "none" => p.after \subseteq S
  PROVE  /\ GoodQueue(Append(q, p), c, done)
         /\ \A m \in S : Resolved(m, Len(q) + 1, Append(q, p), done)
         /\ p.data = "none" => Resolved(p.n, Len(q) + 1, Append(q, p), done)
  <1> DEFINE r == Append(q, p)
  <1>1. /\ Len(r) = Len(q) + 1 /\ r[Len(q) + 1] = p
        /\ \A i \in 1..Len(q) : r[i] = q[i]
        /\ Len(q) \in Nat
    OBVIOUS
  <1> HIDE DEF r
  <1>2. \A k \in 0..Len(q) : \A m : Resolved(m, k, q, done) => Resolved(m, k, r, done)
    BY <1>1 DEF Resolved
  <1>3. \A m : Resolved(m, Len(q), r, done) => Resolved(m, Len(q) + 1, r, done)
    BY <1>1 DEF Resolved
  <1>4. GoodQueue(r, c, done)
    <2> SUFFICES ASSUME NEW i \in 1..Len(r)
                 PROVE  /\ Sound(r[i], c, done)
                        /\ r[i].data # "none" => \A m \in r[i].after :
                                              Resolved(m, i - 1, r, done)
      BY DEF GoodQueue
    <2>1. CASE i \in 1..Len(q)
      <3>1. i - 1 \in 0..Len(q) /\ r[i] = q[i]
        BY <1>1, <2>1
      <3>2. QED
        BY <1>2, <2>1, <3>1 DEF GoodQueue
    <2>2. CASE i = Len(q) + 1
      <3>1. r[i] = p /\ i - 1 = Len(q)
        BY <1>1, <2>2
      <3>2. QED
        BY <1>1, <1>2, <3>1
    <2>3. QED
      BY <1>1, <2>1, <2>2
  <1>5. p.data = "none" => Resolved(p.n, Len(q) + 1, r, done)
    BY <1>1 DEF Resolved
  <1>6. Len(q) \in 0..Len(q)
    BY <1>1
  <1>7. QED
    BY <1>2, <1>3, <1>4, <1>5, <1>6 DEF r

\* The authentication of a reconnect waits for nothing: in front of the queue
\* it moves every wait ahead of what it was ahead of.
LEMMA GoodPushFront ==
  ASSUME NEW q \in Seq(Payloads), NEW c \in Nat, NEW done,
         GoodQueue(q, c, done), AuthPayload \in Payloads
  PROVE  /\ GoodQueue(<<AuthPayload>> \o q, c, done)
         /\ \A m : Resolved(m, Len(q), q, done)
                    => Resolved(m, Len(q) + 1, <<AuthPayload>> \o q, done)
  <1> DEFINE r == <<AuthPayload>> \o q
  <1>1. /\ Len(r) = Len(q) + 1 /\ r[1] = AuthPayload
        /\ \A i \in 1..Len(q) : r[i + 1] = q[i]
        /\ Len(q) \in Nat
    OBVIOUS
  <1> HIDE DEF r
  <1>2. \A k \in 0..Len(q) : \A m :
          Resolved(m, k, q, done) => Resolved(m, k + 1, r, done)
    BY <1>1 DEF Resolved
  <1>3. GoodQueue(r, c, done)
    <2> SUFFICES ASSUME NEW i \in 1..Len(r)
                 PROVE  /\ Sound(r[i], c, done)
                        /\ r[i].data # "none" => \A m \in r[i].after :
                                              Resolved(m, i - 1, r, done)
      BY DEF GoodQueue
    <2>1. CASE i = 1
      BY <1>1, <2>1 DEF AuthPayload, Sound
    <2>2. CASE i # 1
      <3>1. /\ i - 1 \in 1..Len(q) /\ r[i] = q[i - 1]
            /\ (i - 1) - 1 \in 0..Len(q) /\ ((i - 1) - 1) + 1 = i - 1
        BY <1>1, <2>2
      <3>2. QED
        BY <1>2, <3>1 DEF GoodQueue
    <2>3. QED
      BY <2>1, <2>2
  <1>4. QED
    BY <1>1, <1>2, <1>3 DEF r

\* A prefix of k payloads that only holds resolved waits can be dropped, and
\* any wait can be cleared once it is resolved.
LEMMA GoodDrop ==
  ASSUME NEW q \in Seq(Payloads), NEW r \in Seq(Payloads), NEW c \in Nat,
         NEW done, NEW k \in 0..Len(q), GoodQueue(q, c, done),
         Len(r) = Len(q) - k,
         \A i \in 1..Len(r) :
           /\ r[i].data = q[i + k].data /\ r[i].id = q[i + k].id
           /\ r[i].n = q[i + k].n /\ r[i].after = q[i + k].after
           /\ Sound(r[i], c, done),
         \A i \in 1..k : q[i].data = "none" => q[i].n \in done
  PROVE  /\ GoodQueue(r, c, done)
         /\ \A m : Resolved(m, Len(q), q, done) => Resolved(m, Len(r), r, done)
  <1>1. Len(q) \in Nat /\ Len(r) \in Nat /\ k \in Nat
    OBVIOUS
  <1>2. ASSUME NEW h \in 0..Len(r), NEW m, Resolved(m, h + k, q, done)
        PROVE  Resolved(m, h, r, done)
    <2>1. CASE m \in done
      BY <2>1 DEF Resolved
    <2>2. ASSUME NEW j \in 1..(h + k), q[j].data = "none", q[j].n = m
          PROVE  Resolved(m, h, r, done)
      <3>1. CASE j \in 1..k
        BY <2>2, <3>1 DEF Resolved
      <3>2. CASE j \notin 1..k
        <4>1. j - k \in 1..h /\ j - k \in 1..Len(r) /\ (j - k) + k = j
          BY <1>1, <3>2
        <4>2. r[j - k].data = "none" /\ r[j - k].n = m
          BY <2>2, <4>1
        <4>3. QED
          BY <4>1, <4>2 DEF Resolved
      <3>3. QED
        BY <3>1, <3>2
    <2>3. QED
      BY <1>2, <2>1, <2>2 DEF Resolved
  <1>3. GoodQueue(r, c, done)
    <2> SUFFICES ASSUME NEW i \in 1..Len(r), r[i].data # "none",
                        NEW m \in r[i].after
                 PROVE  Resolved(m, i - 1, r, done)
      BY DEF GoodQueue
    <2>1. /\ i + k \in 1..Len(q) /\ (i + k) - 1 = (i - 1) + k
          /\ i - 1 \in 0..Len(r)
      BY <1>1
    <2>2. Resolved(m, (i - 1) + k, q, done)
      BY <2>1 DEF GoodQueue
    <2>3. QED
      BY <1>2, <2>1, <2>2
  <1>4. Len(r) + k = Len(q) /\ Len(r) \in 0..Len(r)
    BY <1>1
  <1>5. QED
    BY <1>2, <1>3, <1>4
\* ReceiveMessage clears only waits whose request is among those answered by
\* the message, drops only resolved ones, and so keeps the queue in order.
LEMMA GoodReceive ==
  ASSUME TypeOK, QueueInv, WaitsInv, NEW r, ReceiveMessage(r),
         answered \subseteq answered', requestCount' = requestCount,
         waitedFor' = waitedFor,
         \A n \in 1..requestCount : n = r => n \in answered'
  PROVE  QueueInv' /\ WaitsInv'
  <1> DEFINE q == queuedPayloads
             c == requestCount
  <1>1. q \in Seq(Payloads) /\ c \in Nat
    BY DEF TypeOK
  <1>2. /\ GoodQueue(q, c, answered')
        /\ \A m \in waitedFor : Resolved(m, Len(q), q, answered')
        /\ \A i \in 1..Len(q) : Sound(q[i], c, answered')
    <2>1. GoodQueue(q, c, answered)
      BY DEF QueueInv
    <2>2. GoodQueue(q, c, answered')
      BY <1>1, <2>1, AnswersOnlyHelp
    <2>3. QED
      BY <1>1, <2>2, AnswersOnlyHelp DEF WaitsInv, GoodQueue
  <1>3. PICK k \in 0..Len(q) :
           /\ q' \in Seq(Payloads)
           /\ Len(q') = Len(q) - k
           /\ \A i \in 1..Len(q') :
                /\ q'[i].data = q[i + k].data
                /\ q'[i].id = q[i + k].id
                /\ q'[i].n = q[i + k].n
                /\ q'[i].after = q[i + k].after
                /\ \/ q'[i].waitingForResponse = q[i + k].waitingForResponse
                   \/ /\ q[i + k].waitingForResponse = r
                      /\ q'[i].waitingForResponse = ANY_REQUEST_ID
           /\ \A i \in 1..k : /\ q[i].data = "none"
                             /\ q[i].waitingForResponse \in {r, ANY_REQUEST_ID}
    BY <1>1, ReceiveMessageShape
  <1>4. \A i \in 1..k : q[i].n \in answered'
    <2>1. \A i \in 1..k : i \in 1..Len(q)
      BY <1>1, <1>3
    <2>2. QED
      BY <1>2, <1>3, <2>1 DEF Sound
  <1>5. \A i \in 1..Len(q') : Sound(q'[i], c, answered')
    <2> SUFFICES ASSUME NEW i \in 1..Len(q')
                 PROVE  Sound(q'[i], c, answered')
      OBVIOUS
    <2>1. i + k \in 1..Len(q)
      BY <1>1, <1>3
    <2>2. Sound(q[i + k], c, answered')
      BY <1>2, <2>1
    <2>3. QED
      BY <1>3, <2>2 DEF Sound, Numbered
  <1>6. /\ GoodQueue(q', c, answered')
        /\ \A m : Resolved(m, Len(q), q, answered')
                   => Resolved(m, Len(q'), q', answered')
    BY <1>1, <1>2, <1>3, <1>4, <1>5, GoodDrop
  <1>7. QED
    BY <1>2, <1>6 DEF QueueInv, WaitsInv

\* One step keeps the queue sound: what is ahead of a payload, or answered,
\* covers the waits made before it.
LEMMA QueueStep ==
  ASSUME IdsAssumption, ThreadsAssumption, UpdateIdsAssumption,
         TypeOK, CounterInv, RefsInv, QueueInv, WaitsInv,
         requestCount < IdSpace, [Next]_vars
  PROVE  QueueInv' /\ WaitsInv'
  <1>1. /\ queuedPayloads \in Seq(Payloads) /\ requestCount \in Nat
        /\ waitedFor \subseteq Nat
    BY DEF TypeOK
  <1>2. ASSUME \/ \E t \in Threads : \/ BeginRequest(t) \/ StoreRequestId(t)
                                    \/ ForeachPayload(t) \/ SendPayload(t)
                                    \/ EndForeach(t) \/ ReplaySubscription(t)
               \/ Disconnect \/ Reconnect \/ UNCHANGED vars
        PROVE  QueueInv' /\ WaitsInv'
    <2>1. /\ UNCHANGED <<queuedPayloads, answered, waitedFor>>
          /\ requestCount' \in {requestCount, requestCount + 1}
      BY <1>2 DEF BeginRequest, StoreRequestId, ForeachPayload, SendPayload,
                  EndForeach, ReplaySubscription, Disconnect, Reconnect,
                  LoadRequestId, vars, queueVars, historyVars
    <2>2. requestCount' \in Nat /\ requestCount <= requestCount'
      BY <1>1, <2>1
    <2>3. GoodQueue(queuedPayloads, requestCount', answered)
      BY <1>1, <2>2, AnswersOnlyHelp DEF QueueInv
    <2>4. QED
      BY <2>1, <2>3 DEF QueueInv, WaitsInv
  <1>3. ASSUME NEW r \in RequestRef, Numbered(r, requestCount), PushWait(r),
               UNCHANGED <<requestCount, answered>>
        PROVE  QueueInv' /\ WaitsInv'
    <2>1. WaitPayload(r) \in Payloads
      BY <1>1, PayloadsTyped
    <2>2. Sound(WaitPayload(r), requestCount, answered)
      <3>1. ANY_REQUEST_ID \notin 1..requestCount
        BY <1>1 DEF IdsAssumption, REJECTED_REQUEST_ID, ANY_REQUEST_ID
      <3>2. QED
        BY <1>3, <3>1 DEF WaitPayload, Sound, Numbered
    <2>3. /\ WaitPayload(r).data = "none" /\ WaitPayload(r).n = r.n
      BY DEF WaitPayload
    <2> DEFINE q == Append(queuedPayloads, WaitPayload(r))
    <2>4. /\ GoodQueue(q, requestCount, answered)
          /\ \A m \in waitedFor : Resolved(m, Len(queuedPayloads) + 1, q, answered)
          /\ Resolved(r.n, Len(queuedPayloads) + 1, q, answered)
      BY <1>1, <2>1, <2>2, <2>3, GoodAppend DEF QueueInv, WaitsInv
    <2>5. Len(q) = Len(queuedPayloads) + 1
      BY <1>1, <2>1
    <2>6. queuedPayloads' = q /\ waitedFor' = waitedFor \cup {r.n}
      BY <1>3 DEF PushWait
    <2>7. QED
      BY <1>3, <2>4, <2>5, <2>6 DEF QueueInv, WaitsInv
  <1>4. ASSUME NEW t \in Threads, WaitLate(t)
        PROVE  QueueInv' /\ WaitsInv'
    <2>1. PICK r \in returned : PushWait(r)
      BY <1>4 DEF WaitLate
    <2>2. r \in RequestRef /\ Numbered(r, requestCount)
      BY DEF TypeOK, RefsInv
    <2>3. UNCHANGED <<requestCount, answered>>
      BY <1>4 DEF WaitLate
    <2>4. QED
      BY <1>3, <2>1, <2>2, <2>3
  <1>5. ASSUME NEW t \in Threads, WaitForResponse(t)
        PROVE  QueueInv' /\ WaitsInv'
    <2>1. pc[t] = "wait" /\ PushWait(Current(t)) /\ UNCHANGED <<requestCount, answered>>
      BY <1>5 DEF WaitForResponse
    <2>2. Current(t) \in RequestRef /\ Numbered(Current(t), requestCount)
      BY <2>1, CurrentTyped, CurrentNumbered
    <2>3. QED
      BY <1>3, <2>1, <2>2
  <1>6. ASSUME NEW t \in Threads, PushPayload(t)
        PROVE  QueueInv' /\ WaitsInv'
    <2>1. pc[t] = "push" /\ UNCHANGED <<requestCount, answered, waitedFor>>
      BY <1>6 DEF PushPayload
    <2>2. Current(t) \in RequestRef /\ Numbered(Current(t), requestCount)
      BY <2>1, CurrentTyped, CurrentNumbered
    <2> DEFINE p == RequestPayload(Current(t))
    <2>3. p \in Payloads
      BY <1>1, <2>2, PayloadsTyped
    <2>4. /\ Sound(p, requestCount, answered) /\ p.after = waitedFor
      BY <2>2 DEF RequestPayload, Sound, Numbered
    <2> DEFINE q == Append(queuedPayloads, p)
    <2>5. queuedPayloads' = q
      BY <1>6 DEF PushPayload
    <2> HIDE DEF p
    <2>6. /\ GoodQueue(q, requestCount, answered)
          /\ \A m \in waitedFor : Resolved(m, Len(queuedPayloads) + 1, q, answered)
      BY <1>1, <2>3, <2>4, GoodAppend DEF QueueInv, WaitsInv
    <2>7. Len(q) = Len(queuedPayloads) + 1
      BY <1>1, <2>3
    <2>8. QED
      BY <2>1, <2>5, <2>6, <2>7 DEF QueueInv, WaitsInv
  <1>7. ASSUME NEW t \in Threads, HandleReconnect(t)
        PROVE  QueueInv' /\ WaitsInv'
    <2>1. UNCHANGED <<requestCount, answered, waitedFor>>
      BY <1>7 DEF HandleReconnect, historyVars
    <2>2. CASE queuedPayloads' = queuedPayloads
      BY <2>1, <2>2 DEF QueueInv, WaitsInv
    <2>3. CASE queuedPayloads' = <<AuthPayload>> \o queuedPayloads
      <3>1. AuthPayload \in Payloads
        BY <1>1, PayloadsTyped
      <3>2. Len(queuedPayloads') = Len(queuedPayloads) + 1
        BY <1>1, <2>3, <3>1
      <3>3. QED
        BY <1>1, <2>1, <2>3, <3>1, <3>2, GoodPushFront DEF QueueInv, WaitsInv
    <2>4. QED
      BY <1>7, <2>2, <2>3 DEF HandleReconnect
  <1>8. ASSUME NEW t \in Threads, PopPayload(t)
        PROVE  QueueInv' /\ WaitsInv'
    <2>1. /\ queuedPayloads # <<>>
          /\ queuedPayloads[1].waitingForResponse = ANY_REQUEST_ID
          /\ queuedPayloads' = Tail(queuedPayloads)
          /\ UNCHANGED <<requestCount, answered, waitedFor>>
      BY <1>1, <1>8 DEF PopPayload, HasPayloadsNoLock, historyVars
    <2>2. /\ 1 \in 0..Len(queuedPayloads) /\ 1 \in 1..Len(queuedPayloads)
          /\ queuedPayloads' \in Seq(Payloads)
          /\ Len(queuedPayloads') = Len(queuedPayloads) - 1
          /\ \A i \in 1..Len(queuedPayloads') :
               /\ i + 1 \in 1..Len(queuedPayloads)
               /\ queuedPayloads'[i] = queuedPayloads[i + 1]
      BY <1>1, <2>1
    <2>3. \A i \in 1..Len(queuedPayloads) :
            Sound(queuedPayloads[i], requestCount, answered)
      BY DEF QueueInv, GoodQueue
    <2>4. \A i \in 1..1 : queuedPayloads[i].data = "none"
                          => queuedPayloads[i].n \in answered
      BY <2>1, <2>2, <2>3 DEF Sound
    <2>5. /\ GoodQueue(queuedPayloads', requestCount, answered)
          /\ \A m : Resolved(m, Len(queuedPayloads), queuedPayloads, answered)
                => Resolved(m, Len(queuedPayloads'), queuedPayloads', answered)
      BY <1>1, <2>2, <2>3, <2>4, GoodDrop DEF QueueInv
    <2>6. QED
      BY <2>1, <2>5 DEF QueueInv, WaitsInv
  <1>9. ASSUME ReceiveAnswer
        PROVE  QueueInv' /\ WaitsInv'
    <2>1. PICK m \in outstanding : /\ ReceiveMessage(m.id)
                                   /\ answered' = answered \cup {m.n}
      BY <1>9 DEF ReceiveAnswer
    <2>2. m.id = m.n
      BY DEF RefsInv, Numbered
    <2>3. requestCount' = requestCount /\ waitedFor' = waitedFor
      BY <1>9 DEF ReceiveAnswer
    <2>4. QED
      BY <2>1, <2>2, <2>3, GoodReceive
  <1>10. ASSUME ReceiveUpdate
         PROVE  QueueInv' /\ WaitsInv'
    <2>1. PICK r \in UpdateIds : ReceiveMessage(r)
      BY <1>10 DEF ReceiveUpdate
    <2>2. r \notin 1..requestCount
      BY <1>1 DEF UpdateIdsAssumption, IdsAssumption, REJECTED_REQUEST_ID,
                  ANY_REQUEST_ID
    <2>3. UNCHANGED <<requestCount, waitedFor, answered>>
      BY <1>10 DEF ReceiveUpdate, historyVars
    <2>4. QED
      BY <2>1, <2>2, <2>3, GoodReceive
  <1>11. QED
    BY <1>2, <1>4, <1>5, <1>6, <1>7, <1>8, <1>9, <1>10 DEF Next, Continue
-----------------------------------------------------------------------------
(* What has left the queue.                                                 *)

\* The requests the server and the callers know are numbered like their ids.
LEMMA RefsStep ==
  ASSUME IdsAssumption, TypeOK, CounterInv, RefsInv, HeldInv,
         requestCount < IdSpace, [Next]_vars
  PROVE  RefsInv'
  <1>1. requestCount \in Nat
    BY DEF TypeOK
  <1>2. ASSUME NEW t \in Threads, BeginRequest(t) \/ ReplaySubscription(t)
        PROVE  RefsInv'
    <2>1. /\ UNCHANGED <<outstanding, returned>>
          /\ requestCount' = requestCount + 1
      BY <1>2 DEF BeginRequest, ReplaySubscription, LoadRequestId, netVars
    <2>2. QED
      BY <1>1, <2>1 DEF RefsInv, Numbered
  <1>3. ASSUME NEW t \in Threads, PushPayload(t)
        PROVE  RefsInv'
    <2>1. /\ pc[t] = "push" /\ outstanding' = outstanding
          /\ returned' = returned \cup {Current(t)}
          /\ requestCount' = requestCount
      BY <1>3 DEF PushPayload, netVars
    <2>2. Numbered(Current(t), requestCount)
      BY <2>1, CurrentNumbered
    <2>3. QED
      BY <2>1, <2>2 DEF RefsInv
  <1>4. ASSUME NEW t \in Threads, SendPayload(t)
        PROVE  RefsInv'
    <2> DEFINE m == [id |-> held[t].id, n |-> held[t].n]
    <2>1. /\ pc[t] = "send" /\ returned' = returned
          /\ requestCount' = requestCount
          /\ \/ outstanding' = outstanding
             \/ held[t].data = "request" /\ outstanding' = outstanding \cup {m}
      BY <1>4 DEF SendPayload
    <2>2. held[t].data = "request" => Numbered(m, requestCount)
      BY <2>1 DEF HeldInv, Sound, Numbered
    <2>3. QED
      BY <2>1, <2>2 DEF RefsInv
  <1>5. ASSUME \/ \E t \in Threads : \/ WaitLate(t) \/ ForeachPayload(t)
                                    \/ HandleReconnect(t) \/ StoreRequestId(t)
                                    \/ WaitForResponse(t) \/ PopPayload(t)
                                    \/ EndForeach(t)
               \/ ReceiveAnswer \/ ReceiveUpdate \/ Disconnect \/ Reconnect
               \/ UNCHANGED vars
        PROVE  RefsInv'
    <2>1. /\ outstanding' \subseteq outstanding /\ returned' = returned
          /\ requestCount' = requestCount
      BY <1>5 DEF WaitLate, ForeachPayload, HandleReconnect, StoreRequestId,
                  WaitForResponse, PopPayload, EndForeach, ReceiveAnswer,
                  ReceiveUpdate, Disconnect, Reconnect, vars, netVars,
                  historyVars
    <2>2. QED
      BY <2>1 DEF RefsInv
  <1>6. QED
    BY <1>2, <1>3, <1>4, <1>5 DEF Next, Continue

\* A payload is popped from the front, where nothing is ahead of it: the waits
\* made before it have been resolved.
LEMMA HeldStep ==
  ASSUME TypeOK, QueueInv, HeldInv, [Next]_vars
  PROVE  HeldInv'
  <1>1. requestCount \in Nat /\ queuedPayloads \in Seq(Payloads)
    BY DEF TypeOK
  <1>2. ASSUME NEW t \in Threads, PopPayload(t)
        PROVE  HeldInv'
    <2>1. /\ queuedPayloads # <<>>
          /\ held' = [held EXCEPT ![t] = queuedPayloads[1]]
          /\ pc' = [pc EXCEPT ![t] = "send"]
          /\ UNCHANGED <<requestCount, answered>>
      BY <1>1, <1>2 DEF PopPayload, HasPayloadsNoLock, historyVars, Goto
    <2>2. 1 \in 1..Len(queuedPayloads)
      BY <1>1, <2>1
    <2>3. /\ Sound(queuedPayloads[1], requestCount, answered)
          /\ queuedPayloads[1].data # "none" =>
               queuedPayloads[1].after \subseteq answered
      BY <2>2 DEF QueueInv, GoodQueue, Resolved
    <2>4. QED
      BY <2>1, <2>3 DEF HeldInv, TypeOK
  <1>3. ASSUME NEW t \in Threads,
               \/ BeginRequest(t) \/ WaitLate(t) \/ ForeachPayload(t)
               \/ HandleReconnect(t) \/ StoreRequestId(t) \/ PushPayload(t)
               \/ WaitForResponse(t) \/ SendPayload(t) \/ EndForeach(t)
               \/ ReplaySubscription(t)
        PROVE  HeldInv'
    <2>1. /\ UNCHANGED <<held, answered>>
          /\ requestCount' \in {requestCount, requestCount + 1}
          /\ \A s \in Threads : pc'[s] = "send" => pc[s] = "send"
      BY <1>3 DEF BeginRequest, WaitLate, ForeachPayload, HandleReconnect,
                  StoreRequestId, PushPayload, WaitForResponse, SendPayload,
                  EndForeach, ReplaySubscription, LoadRequestId, historyVars,
                  Goto, TypeOK
    <2>2. requestCount' \in Nat /\ requestCount <= requestCount'
      BY <1>1, <2>1
    <2>3. \A p : Sound(p, requestCount, answered)
                 => Sound(p, requestCount', answered)
      BY <1>1, <2>2, AnswersOnlyHelp
    <2>4. QED
      BY <2>1, <2>3 DEF HeldInv
  <1>4. ASSUME ReceiveAnswer \/ ReceiveUpdate \/ Disconnect \/ Reconnect
               \/ UNCHANGED vars
        PROVE  HeldInv'
    <2>1. /\ UNCHANGED <<pc, held, requestCount>> /\ answered \subseteq answered'
      BY <1>4 DEF ReceiveAnswer, ReceiveUpdate, Disconnect, Reconnect, vars,
                  historyVars
    <2>2. \A p : Sound(p, requestCount, answered)
                 => Sound(p, requestCount, answered')
      BY <2>1 DEF Sound
    <2>3. QED
      BY <2>1, <2>2 DEF HeldInv
  <1>5. QED
    BY <1>2, <1>3, <1>4 DEF Next, Continue

\* Only what a drainer holds is sent.
LEMMA SentStep ==
  ASSUME TypeOK, HeldInv, Barrier, [Next]_vars
  PROVE  Barrier'
  <1>1. sent \in Seq(Payloads) /\ held \in [Threads -> Payloads]
    BY DEF TypeOK
  <1>2. ASSUME NEW t \in Threads, SendPayload(t)
        PROVE  Barrier'
    <2>1. /\ pc[t] = "send" /\ answered' = answered
          /\ \/ sent' = sent
             \/ held[t].data # "none" /\ sent' = Append(sent, held[t])
      BY <1>2 DEF SendPayload
    <2>2. held[t] \in Payloads
      BY <1>1
    <2>3. held[t].data # "none" => held[t].after \subseteq answered
      BY <2>1 DEF HeldInv
    <2>4. CASE sent' = sent
      BY <2>1, <2>4 DEF Barrier
    <2>5. CASE held[t].data # "none" /\ sent' = Append(sent, held[t])
      <3>1. \A i \in DOMAIN sent' :
              \/ i \in DOMAIN sent /\ sent'[i] = sent[i]
              \/ sent'[i] = held[t]
        BY <1>1, <2>2, <2>5
      <3>2. QED
        BY <2>1, <2>3, <2>5, <3>1 DEF Barrier
    <2>6. QED
      BY <2>1, <2>4, <2>5
  <1>3. ASSUME \/ \E t \in Threads :
                    \/ BeginRequest(t) \/ WaitLate(t) \/ ForeachPayload(t)
                    \/ HandleReconnect(t) \/ StoreRequestId(t)
                    \/ PushPayload(t) \/ WaitForResponse(t) \/ PopPayload(t)
                    \/ EndForeach(t) \/ ReplaySubscription(t)
               \/ ReceiveAnswer \/ ReceiveUpdate \/ Disconnect \/ Reconnect
               \/ UNCHANGED vars
        PROVE  Barrier'
    <2>1. sent' = sent /\ answered \subseteq answered'
      BY <1>3 DEF BeginRequest, WaitLate, ForeachPayload, HandleReconnect,
                  StoreRequestId, PushPayload, WaitForResponse, PopPayload,
                  EndForeach, ReplaySubscription, ReceiveAnswer, ReceiveUpdate,
                  Disconnect, Reconnect, vars, historyVars
    <2>2. QED
      BY <2>1 DEF Barrier
  <1>4. QED
    BY <1>2, <1>3 DEF Next, Continue
-----------------------------------------------------------------------------
\* Requests are never un-made, so a state before the wrap follows one.
LEMMA CountGrows ==
  ASSUME TypeOK, [Next]_vars
  PROVE  requestCount' \in {requestCount, requestCount + 1}
  BY DEF Next, Continue, BeginRequest, WaitLate, ForeachPayload,
         HandleReconnect, StoreRequestId, PushPayload, WaitForResponse,
         PopPayload, SendPayload, EndForeach, ReplaySubscription,
         LoadRequestId, ReceiveAnswer, ReceiveUpdate, Disconnect, Reconnect,
         vars, historyVars

\* The inductive step of the barrier.
LEMMA BarrierStep ==
  ASSUME OneIssuer, TypeOK, BarrierInv, [Next]_vars
  PROVE  BarrierInv'
  <1>1. SUFFICES ASSUME requestCount' < IdSpace
                 PROVE  BarrierParts'
    BY DEF BarrierInv
  <1>2. requestCount < IdSpace
    BY <1>1, CountGrows, IdsAssumption DEF TypeOK, IdsAssumption
  <1>3. BarrierParts
    BY <1>2 DEF BarrierInv
  <1>4. /\ CounterInv /\ RefsInv /\ QueueInv /\ WaitsInv /\ HeldInv /\ Barrier
    BY <1>3 DEF BarrierParts
  <1>5. CounterInv'
    BY <1>2, <1>4, CounterStep, IdsAssumption, ThreadsAssumption
  <1>6. RefsInv'
    BY <1>2, <1>4, RefsStep, IdsAssumption
  <1>7. QueueInv' /\ WaitsInv'
    BY <1>2, <1>4, QueueStep, IdsAssumption, ThreadsAssumption,
       UpdateIdsAssumption
  <1>8. HeldInv'
    BY <1>4, HeldStep
  <1>9. Barrier'
    BY <1>4, SentStep
  <1>10. QED
    BY <1>5, <1>6, <1>7, <1>8, <1>9 DEF BarrierParts

LEMMA BarrierInvariant ==
  ASSUME OneIssuer
  PROVE  Spec => []BarrierInv
  <1>1. Init => BarrierInv
    <2>1. SUFFICES ASSUME Init
                   PROVE  BarrierParts
      BY DEF BarrierInv
    <2>2. CounterInv /\ RefsInv /\ HeldInv
      BY <2>1 DEF Init, CounterInv, RefsInv, HeldInv
    <2>3. QueueInv /\ WaitsInv /\ Barrier
      BY <2>1 DEF Init, QueueInv, GoodQueue, WaitsInv, Barrier
    <2>4. QED
      BY <2>2, <2>3 DEF BarrierParts
  <1>2. TypeOK /\ BarrierInv /\ [Next]_vars => BarrierInv'
    BY BarrierStep, OneIssuer
  <1>3. QED
    BY <1>1, <1>2, TypeCorrect, PTL DEF Spec

\* When one thread makes the requests and re-opens the connection, and however
\* many drain the queue, no payload passes a wait before the answer to the very
\* request waited for, until IdSpace requests have been made: with answers out
\* of order, unsolicited messages, lost connections and repeated waits.
THEOREM BarrierHolds ==
  ASSUME OneIssuer
  PROVE  Spec => []BarrierBeforeWrap
  <1>1. BarrierInv => BarrierBeforeWrap
    BY DEF BarrierInv, BarrierParts, BarrierBeforeWrap
  <1>2. Spec => []BarrierInv
    BY BarrierInvariant, OneIssuer
  <1>3. QED
    BY <1>1, <1>2, PTL
-----------------------------------------------------------------------------
(* The authentication of a reconnect goes first.                            *)

\* The thread that re-opens the connection is the one that drains, as in the
\* examples: another would send what it held from before the loss.
OneDrainer == Drainers \subseteq {Reconnector}

DrainersInv == \A t \in Threads : pc[t] \in {"drain", "send"} => t \in Drainers

AuthAtFront == queuedPayloads # <<>> /\ queuedPayloads[1].data = "auth"

\* Until something is sent on a resumed connection, the authentication is at
\* the front of the queue, or held by the one drainer.
AuthPending ==
  /\ linkStart <= Len(sent)
  /\ link = "fresh" => /\ Len(sent) = linkStart
                       /\ pc[Reconnector] \notin {"drain", "send"}
  /\ link = "resumed" /\ Len(sent) = linkStart =>
       IF pc[Reconnector] = "send" THEN held[Reconnector].data = "auth"
       ELSE AuthAtFront

AuthInv == DrainersInv /\ AuthPending /\ AuthFirst

LEMMA DrainersStep ==
  ASSUME TypeOK, DrainersInv, [Next]_vars
  PROVE  DrainersInv'
  <1>1. ASSUME NEW t \in Threads, \/ BeginRequest(t) \/ WaitLate(t) \/ ForeachPayload(t)
               \/ HandleReconnect(t) \/ StoreRequestId(t) \/ PushPayload(t)
               \/ WaitForResponse(t) \/ PopPayload(t) \/ SendPayload(t)
               \/ EndForeach(t) \/ ReplaySubscription(t)
        PROVE  DrainersInv'
    <2>1. \A s \in Threads : pc'[s] \in {"drain", "send"} =>
            pc[s] \in {"drain", "send"} \/ s \in Drainers
      BY <1>1 DEF BeginRequest, WaitLate, ForeachPayload, HandleReconnect,
                  StoreRequestId, PushPayload, WaitForResponse, PopPayload,
                  SendPayload, EndForeach, ReplaySubscription, LoadRequestId,
                  Goto, TypeOK
    <2>2. QED
      BY <2>1 DEF DrainersInv
  <1>2. ASSUME ReceiveAnswer \/ ReceiveUpdate \/ Disconnect \/ Reconnect
               \/ UNCHANGED vars
        PROVE  DrainersInv'
    <2>1. UNCHANGED pc
      BY <1>2 DEF ReceiveAnswer, ReceiveUpdate, Disconnect, Reconnect, vars
    <2>2. QED
      BY <2>1 DEF DrainersInv
  <1>3. QED
    BY <1>1, <1>2 DEF Next, Continue

\* Steps that leave the front of the queue to the drainer.
LEMMA AuthKept ==
  ASSUME TypeOK, AuthPending, AuthFirst,
         UNCHANGED <<sent, held, link, linkStart>>,
         AuthAtFront => AuthAtFront',
         pc'[Reconnector] = "send" <=> pc[Reconnector] = "send",
         link = "fresh" /\ pc'[Reconnector] = "drain" => pc[Reconnector] = "drain"
  PROVE  AuthPending' /\ AuthFirst'
  <1>1. AuthFirst'
    BY DEF AuthFirst
  <1>2. QED
    BY <1>1 DEF AuthPending

\* Calls push behind what is queued.
LEMMA AuthCalls ==
  ASSUME ThreadsAssumption, TypeOK, AuthPending, AuthFirst, NEW t \in Threads,
         \/ BeginRequest(t) \/ WaitLate(t) \/ ForeachPayload(t)
         \/ StoreRequestId(t) \/ PushPayload(t) \/ WaitForResponse(t)
         \/ EndForeach(t) \/ ReplaySubscription(t)
  PROVE  AuthPending' /\ AuthFirst'
  <1>0. queuedPayloads \in Seq(Payloads) /\ Reconnector \in Threads
    BY DEF TypeOK, ThreadsAssumption
  <1>1. queuedPayloads' = queuedPayloads
        \/ \E r : \/ queuedPayloads' = Append(queuedPayloads, RequestPayload(r))
                  \/ queuedPayloads' = Append(queuedPayloads, WaitPayload(r))
    <2>1. CASE PushPayload(t)
      BY <2>1 DEF PushPayload
    <2>2. CASE WaitForResponse(t) \/ WaitLate(t)
      BY <2>2 DEF WaitForResponse, WaitLate, PushWait
    <2>3. CASE \/ BeginRequest(t) \/ ForeachPayload(t) \/ StoreRequestId(t)
               \/ EndForeach(t) \/ ReplaySubscription(t)
      BY <2>3 DEF BeginRequest, ForeachPayload, StoreRequestId, EndForeach,
                  ReplaySubscription, queueVars
    <2>4. QED
      BY <2>1, <2>2, <2>3
  <1>2. AuthAtFront => AuthAtFront'
    <2>1. SUFFICES ASSUME AuthAtFront, NEW p, queuedPayloads' = Append(queuedPayloads, p)
                   PROVE  AuthAtFront'
      BY <1>1 DEF AuthAtFront
    <2>2. 1 \in 1..Len(queuedPayloads)
      BY <1>0, <2>1 DEF AuthAtFront
    <2>3. QED
      BY <1>0, <2>1, <2>2 DEF AuthAtFront
  <1>3. UNCHANGED <<sent, held, link, linkStart>>
    BY DEF BeginRequest, WaitLate, ForeachPayload, StoreRequestId, PushPayload,
           WaitForResponse, EndForeach, ReplaySubscription, netVars, historyVars
  <1>4. /\ pc'[Reconnector] = "send" <=> pc[Reconnector] = "send"
        /\ link = "fresh" /\ pc'[Reconnector] = "drain" => pc[Reconnector] = "drain"
    BY <1>0 DEF BeginRequest, WaitLate, ForeachPayload, StoreRequestId,
                PushPayload, WaitForResponse, EndForeach, ReplaySubscription,
                LoadRequestId, Goto, TypeOK
  <1>5. QED
    BY <1>2, <1>3, <1>4, AuthKept

\* The drainer takes the front of the queue, and sends it.
LEMMA AuthDrain ==
  ASSUME ThreadsAssumption, OneDrainer, TypeOK, DrainersInv, AuthPending, AuthFirst,
         NEW t \in Threads, PopPayload(t) \/ SendPayload(t)
  PROVE  AuthPending' /\ AuthFirst'
  <1>0. /\ queuedPayloads \in Seq(Payloads) /\ sent \in Seq(Payloads)
        /\ held \in [Threads -> Payloads]
        /\ pc \in [Threads -> {"idle", "store", "push", "wait", "replay",
                               "drain", "send"}]
        /\ linkStart \in Nat /\ Reconnector \in Threads
    BY DEF TypeOK, ThreadsAssumption
  <1>1. t = Reconnector
    BY DEF OneDrainer, DrainersInv, PopPayload, SendPayload
  <1>2. CASE PopPayload(t)
    <2>1. /\ held' = [held EXCEPT ![t] = Head(queuedPayloads)]
          /\ pc' = [pc EXCEPT ![t] = "send"] /\ pc[t] = "drain"
          /\ queuedPayloads # <<>>
          /\ UNCHANGED <<sent, link, linkStart>>
      BY <1>2 DEF PopPayload, HasPayloadsNoLock, netVars, historyVars, Goto
    <2>2. Head(queuedPayloads) = queuedPayloads[1]
      BY <1>0, <2>1
    <2>3. AuthFirst'
      BY <2>1 DEF AuthFirst
    <2>4. link # "fresh"
      BY <1>1, <2>1 DEF AuthPending
    <2>5. QED
      BY <1>0, <1>1, <2>1, <2>2, <2>3, <2>4 DEF AuthPending, AuthAtFront
  <1>3. CASE SendPayload(t)
    <2>1. /\ sent' = IF held[t].data # "none" THEN Append(sent, held[t]) ELSE sent
          /\ pc' = [pc EXCEPT ![t] = "drain"] /\ pc[t] = "send"
          /\ UNCHANGED <<queuedPayloads, link, linkStart, held>>
      BY <1>3 DEF SendPayload, queueVars, Goto
    <2>2. link # "fresh" /\ linkStart <= Len(sent)
      BY <1>1, <2>1 DEF AuthPending
    <2>3. /\ Len(sent') \in {Len(sent), Len(sent) + 1}
          /\ \A i \in 1..Len(sent) : sent'[i] = sent[i]
          /\ held[t].data # "none" => /\ Len(sent') = Len(sent) + 1
                                      /\ sent'[Len(sent) + 1] = held[t]
      BY <1>0, <2>1
    <2>4. CASE link = "resumed" /\ Len(sent) = linkStart
      <3>1. held[t].data = "auth"
        BY <1>1, <2>1, <2>4 DEF AuthPending
      <3>2. QED
        BY <1>0, <2>1, <2>2, <2>3, <2>4, <3>1 DEF AuthPending, AuthFirst
    <2>5. CASE link = "resumed" /\ Len(sent) > linkStart
      <3>1. linkStart + 1 \in 1..Len(sent) /\ Len(sent') > linkStart
        BY <1>0, <2>3, <2>5
      <3>2. sent'[linkStart + 1].data = "auth"
        BY <2>3, <2>5, <3>1 DEF AuthFirst
      <3>3. QED
        BY <1>0, <2>1, <2>2, <3>1, <3>2 DEF AuthPending, AuthFirst
    <2>6. CASE link # "resumed"
      BY <1>0, <2>1, <2>2, <2>3, <2>6 DEF AuthPending, AuthFirst
    <2>7. QED
      BY <1>0, <2>2, <2>4, <2>5, <2>6
  <1>4. QED
    BY <1>2, <1>3

\* The new connection.
LEMMA AuthReconnect ==
  ASSUME ThreadsAssumption, TypeOK, AuthPending, AuthFirst,
         \/ \E t \in Threads : HandleReconnect(t)
         \/ Disconnect \/ Reconnect \/ UNCHANGED vars
  PROVE  AuthPending' /\ AuthFirst'
  <1>0. /\ queuedPayloads \in Seq(Payloads) /\ sent \in Seq(Payloads)
        /\ linkStart \in Nat /\ Reconnector \in Threads
        /\ pc \in [Threads -> {"idle", "store", "push", "wait", "replay",
                               "drain", "send"}]
    BY DEF TypeOK, ThreadsAssumption
  <1>1. ASSUME NEW t \in Threads, HandleReconnect(t)
        PROVE  AuthPending' /\ AuthFirst'
    <2>1. /\ t = Reconnector /\ link = "fresh" /\ pc[t] = "idle"
          /\ UNCHANGED <<sent, held, linkStart>>
      BY <1>1 DEF HandleReconnect, historyVars
    <2>2. Len(sent) = linkStart
      BY <2>1 DEF AuthPending
    <2>3. CASE link' = "first"
      BY <2>1, <2>2, <2>3 DEF AuthPending, AuthFirst
    <2>4. CASE queuedPayloads' = <<AuthPayload>> \o queuedPayloads /\ link' = "resumed"
      <3>1. queuedPayloads' # <<>> /\ queuedPayloads'[1] = AuthPayload
        BY <1>0, <2>4
      <3>2. AuthAtFront'
        BY <3>1 DEF AuthAtFront, AuthPayload
      <3>3. pc'[t] # "send"
        <4>1. pc' = pc \/ \E where \in {"replay", "idle"} : pc' = [pc EXCEPT ![t] = where]
          BY <1>1 DEF HandleReconnect, Goto
        <4>2. QED
          BY <1>0, <2>1, <4>1
      <3>4. QED
        BY <2>1, <2>2, <2>4, <3>2, <3>3 DEF AuthPending, AuthFirst
    <2>5. QED
      BY <1>1, <2>3, <2>4 DEF HandleReconnect
  <1>2. CASE Disconnect
    BY <1>2 DEF Disconnect, historyVars, AuthPending, AuthFirst
  <1>3. CASE Reconnect
    BY <1>0, <1>3 DEF Reconnect, historyVars, AuthPending, AuthFirst
  <1>4. CASE UNCHANGED vars
    BY <1>4, AuthKept DEF vars, queueVars, netVars, historyVars, AuthAtFront
  <1>5. QED
    BY <1>1, <1>2, <1>3, <1>4

\* ReceiveMessage drops waits only.
LEMMA AuthReceive ==
  ASSUME TypeOK, AuthPending, AuthFirst, ReceiveAnswer \/ ReceiveUpdate
  PROVE  AuthPending' /\ AuthFirst'
  <1>1. queuedPayloads \in Seq(Payloads)
    BY DEF TypeOK
  <1>2. PICK r : ReceiveMessage(r)
    BY DEF ReceiveAnswer, ReceiveUpdate
  <1>3. AuthAtFront => AuthAtFront'
    <2>1. SUFFICES ASSUME AuthAtFront
                   PROVE  AuthAtFront'
      OBVIOUS
    <2>2. PICK k \in 0..Len(queuedPayloads) :
            /\ queuedPayloads' \in Seq(Payloads)
            /\ Len(queuedPayloads') = Len(queuedPayloads) - k
            /\ \A i \in 1..Len(queuedPayloads') :
                 queuedPayloads'[i].data = queuedPayloads[i + k].data
            /\ \A i \in 1..k : queuedPayloads[i].data = "none"
      BY <1>1, <1>2, ReceiveMessageShape
    <2>3. 1 \in 1..Len(queuedPayloads) /\ queuedPayloads[1].data # "none"
      BY <1>1, <2>1 DEF AuthAtFront
    <2>4. k = 0
      BY <2>2, <2>3
    <2>5. QED
      BY <2>1, <2>2, <2>3, <2>4 DEF AuthAtFront
  <1>4. UNCHANGED <<pc, sent, held, link, linkStart>>
    BY DEF ReceiveAnswer, ReceiveUpdate, netVars, historyVars
  <1>5. QED
    BY <1>3, <1>4, AuthKept

LEMMA AuthStep ==
  ASSUME OneDrainer
  PROVE  TypeOK /\ AuthInv /\ [Next]_vars => AuthInv'
  <1> SUFFICES ASSUME TypeOK, AuthInv, [Next]_vars
               PROVE  AuthInv'
    OBVIOUS
  <1>1. DrainersInv'
    BY DrainersStep DEF AuthInv
  <1>2. AuthPending' /\ AuthFirst'
    BY OneDrainer, ThreadsAssumption, AuthCalls, AuthDrain, AuthReconnect,
       AuthReceive DEF AuthInv, Next, Continue
  <1>3. QED
    BY <1>1, <1>2 DEF AuthInv

\* With one drainer, the first payload of a connection that HandleReconnect has
\* taken up with a token is the authentication: for any number of threads that
\* call and wait, whatever was queued, held or lost (src/gamelink.cpp:545-564).
THEOREM AuthFirstHolds ==
  ASSUME OneDrainer
  PROVE  Spec => []AuthFirst
  <1>1. Init => AuthInv
    BY DEF Init, AuthInv, DrainersInv, AuthPending, AuthFirst
  <1>2. TypeOK /\ AuthInv /\ [Next]_vars => AuthInv'
    BY AuthStep, OneDrainer
  <1>3. AuthInv => AuthFirst
    BY DEF AuthInv
  <1>4. QED
    BY <1>1, <1>2, <1>3, TypeCorrect, PTL DEF Spec
=============================================================================
