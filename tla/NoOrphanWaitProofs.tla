-------------------------- MODULE NoOrphanWaitProofs --------------------------
(***************************************************************************)
(* One thread that makes requests, waits for them at once, drains and      *)
(* receives never leaves a wait in the queue for a request that has been   *)
(* answered: whatever the sizes of the counter and of the ids, so also     *)
(* when ids have wrapped, and however often the connection is lost.        *)
(***************************************************************************)
EXTENDS RequestQueueProofs

\* The program is that of the examples: one thread, and
\* WaitForResponse(id) right after the request that returned id.
OneThread == \A s, t \in Threads : s = t
WaitsAtOnce == OneThread /\ ~LateWaits

\* The request of a payload, and the request a wait is for.
Ref(p) == [id |-> p.id, n |-> p.n]
WaitRef(p) == [id |-> p.waitingForResponse, n |-> p.n]

\* A payload is of a request whose id was returned, and a wait is for one that
\* has not been answered.
Known(p, refs, done) ==
  /\ p.data = "request" => Ref(p) \in refs
  /\ p.data = "none" /\ p.waitingForResponse # ANY_REQUEST_ID =>
       WaitRef(p) \in refs /\ p.n \notin done

QueueKnown ==
  \A i \in 1..Len(queuedPayloads) : Known(queuedPayloads[i], returned, answered)

\* Requests have numbers of their own, and ids that are no ANY_REQUEST_ID.
RefsKnown ==
  /\ \A r, s \in returned : r.n = s.n => r = s
  /\ \A r \in returned : r.n <= requestCount /\ r.id \in RequestIds
  /\ outstanding \subseteq returned
  /\ \A n \in answered : \E r \in returned : r.n = n

\* The request a thread is queueing is new; the one it is going to wait for has
\* not been answered, as the thread has not received since it was queued.
CallsKnown ==
  \A t \in Threads :
    /\ pc[t] \in {"store", "push"} =>
         serial[t] <= requestCount /\ \A r \in returned : r.n # serial[t]
    /\ pc[t] = "wait" => Current(t) \in returned /\ serial[t] \notin answered
    /\ pc[t] = "send" /\ held[t].data = "request" => Ref(held[t]) \in returned

OrphanInv == QueueKnown /\ RefsKnown /\ CallsKnown
-----------------------------------------------------------------------------
(* The queue.                                                               *)

\* An answer leaves no wait for its id.
LEMMA ReceiveMessageClears ==
  ASSUME queuedPayloads \in Seq(Payloads), NEW r, r # ANY_REQUEST_ID,
         ReceiveMessage(r)
  PROVE  \A i \in 1..Len(queuedPayloads') :
           queuedPayloads'[i].waitingForResponse # r
  <1> DEFINE q == ClearWaits(queuedPayloads, r)
  <1>1. DOMAIN queuedPayloads = 1..Len(queuedPayloads)
        /\ Len(queuedPayloads) \in Nat
    OBVIOUS
  <1>2. q = [i \in 1..Len(queuedPayloads) |-> q[i]]
    BY <1>1 DEF ClearWaits
  <1>3. \A i \in 1..Len(queuedPayloads) : q[i].waitingForResponse # r
    <2>1. SUFFICES ASSUME NEW i \in 1..Len(queuedPayloads)
                   PROVE  q[i].waitingForResponse # r
      OBVIOUS
    <2>2. queuedPayloads[i] \in Payloads
      OBVIOUS
    <2>3. [queuedPayloads[i] EXCEPT !.waitingForResponse = ANY_REQUEST_ID]
            .waitingForResponse = ANY_REQUEST_ID
      BY <2>2 DEF Payloads
    <2>4. q[i] = IF queuedPayloads[i].waitingForResponse = r
                 THEN [queuedPayloads[i] EXCEPT
                         !.waitingForResponse = ANY_REQUEST_ID]
                 ELSE queuedPayloads[i]
      BY <1>1 DEF ClearWaits
    <2>5. QED
      BY <2>3, <2>4
  <1>4. PICK k \in 0..Len(q) : queuedPayloads' = SubSeq(q, k + 1, Len(q))
    BY DEF ReceiveMessage
  <1>5. q \in Seq(Payloads) /\ Len(q) = Len(queuedPayloads)
    <2>1. ANY_REQUEST_ID \in RequestIds \cup {ANY_REQUEST_ID}
      OBVIOUS
    <2>2. ASSUME NEW p \in Payloads
          PROVE  [p EXCEPT !.waitingForResponse = ANY_REQUEST_ID] \in Payloads
      BY <2>1 DEF Payloads
    <2>3. \A i \in 1..Len(queuedPayloads) : q[i] \in Payloads
      BY <1>1, <2>2 DEF ClearWaits
    <2> HIDE DEF q
    <2>4. QED
      BY <1>1, <1>2, <2>3
  <1>6. Len(queuedPayloads') = Len(q) - k
        /\ \A i \in 1..Len(queuedPayloads') :
             i + k \in 1..Len(q) /\ queuedPayloads'[i] = q[i + k]
    <2> HIDE DEF q
    <2>1. k \in Nat /\ k <= Len(q) /\ Len(q) \in Nat
      BY <1>1, <1>5
    <2>2. Len(queuedPayloads') = Len(q) - k
      BY <1>4, <1>5, <2>1
    <2>3. \A i \in 1..Len(queuedPayloads') : queuedPayloads'[i] = q[i + k]
      BY <1>4, <1>5, <2>1
    <2>4. QED
      BY <2>1, <2>2, <2>3
  <1>7. QED
    BY <1>3, <1>5, <1>6

\* A payload stays known when more ids are returned.
LEMMA KnownGrows ==
  ASSUME NEW p, NEW refs, NEW more, refs \subseteq more, NEW done,
         Known(p, refs, done)
  PROVE  Known(p, more, done)
  BY DEF Known

\* Appending a known payload, or putting one in front, keeps the queue known.
LEMMA KnownAppend ==
  ASSUME queuedPayloads \in Seq(Payloads), NEW p \in Payloads, NEW refs, NEW done,
         \A i \in 1..Len(queuedPayloads) : Known(queuedPayloads[i], refs, done),
         Known(p, refs, done), queuedPayloads' = Append(queuedPayloads, p)
  PROVE  \A i \in 1..Len(queuedPayloads') : Known(queuedPayloads'[i], refs, done)
  <1>1. /\ Len(queuedPayloads) \in Nat
        /\ Len(queuedPayloads') = Len(queuedPayloads) + 1
        /\ queuedPayloads'[Len(queuedPayloads) + 1] = p
        /\ \A i \in 1..Len(queuedPayloads) : queuedPayloads'[i] = queuedPayloads[i]
    OBVIOUS
  <1>2. \A i \in 1..Len(queuedPayloads') :
          i \in 1..Len(queuedPayloads) \/ i = Len(queuedPayloads) + 1
    BY <1>1
  <1>3. QED
    BY <1>1, <1>2

LEMMA KnownReceive ==
  ASSUME queuedPayloads \in Seq(Payloads), NEW r, ReceiveMessage(r),
         QueueKnown, RefsKnown
  PROVE  /\ \A i \in 1..Len(queuedPayloads') :
              Known(queuedPayloads'[i], returned, answered)
         /\ \A m \in returned : m.id = r =>
              \A i \in 1..Len(queuedPayloads') :
                Known(queuedPayloads'[i], returned, answered \cup {m.n})
  <1>1. PICK k \in 0..Len(queuedPayloads) :
          /\ Len(queuedPayloads') = Len(queuedPayloads) - k
          /\ \A i \in 1..Len(queuedPayloads') :
               /\ queuedPayloads'[i].data = queuedPayloads[i + k].data
               /\ queuedPayloads'[i].id = queuedPayloads[i + k].id
               /\ queuedPayloads'[i].n = queuedPayloads[i + k].n
               /\ \/ queuedPayloads'[i].waitingForResponse
                       = queuedPayloads[i + k].waitingForResponse
                  \/ queuedPayloads'[i].waitingForResponse = ANY_REQUEST_ID
    BY ReceiveMessageShape
  <1>2. \A i \in 1..Len(queuedPayloads') : i + k \in 1..Len(queuedPayloads)
    BY <1>1
  <1>3. \A i \in 1..Len(queuedPayloads') :
          Known(queuedPayloads'[i], returned, answered)
    BY <1>1, <1>2 DEF QueueKnown, Known, Ref, WaitRef
  <1>4. ASSUME NEW m \in returned, m.id = r, NEW i \in 1..Len(queuedPayloads')
        PROVE  Known(queuedPayloads'[i], returned, answered \cup {m.n})
    <2> DEFINE p == queuedPayloads'[i]
    <2>1. r # ANY_REQUEST_ID
      BY <1>4, IdsAssumption DEF RefsKnown, RequestIds, IdsAssumption,
                                 ANY_REQUEST_ID, REJECTED_REQUEST_ID
    <2>2. p.waitingForResponse # r
      BY <2>1, ReceiveMessageClears
    <2>3. Known(p, returned, answered)
      BY <1>3
    <2>4. WaitRef(p).n = p.n /\ WaitRef(p).id = p.waitingForResponse
      BY DEF WaitRef
    <2> HIDE DEF p
    <2>5. WaitRef(p) \in returned => p.n # m.n
      BY <1>4, <2>2, <2>4 DEF RefsKnown
    <2>6. Known(p, returned, answered \cup {m.n})
      BY <2>3, <2>5 DEF Known
    <2>7. QED
      BY <2>6 DEF p
  <1>5. QED
    BY <1>3, <1>4
-----------------------------------------------------------------------------
(* The steps.                                                               *)

\* With one thread, what is said of all threads is said of the one that steps.
LEMMA OfOneThread ==
  ASSUME OneThread, NEW t \in Threads
  PROVE  Threads = {t}
  BY DEF OneThread

LEMMA LoadStep ==
  ASSUME TypeOK, OrphanInv, OneThread, NEW t \in Threads,
         BeginRequest(t) \/ ReplaySubscription(t)
  PROVE  OrphanInv'
  <1>1. /\ serial' = [serial EXCEPT ![t] = requestCount + 1]
        /\ requestCount' = requestCount + 1
        /\ pc' = [pc EXCEPT ![t] = "store"]
        /\ UNCHANGED <<queuedPayloads, returned, answered, outstanding>>
    BY DEF BeginRequest, ReplaySubscription, LoadRequestId, Goto, queueVars, netVars
  <1>2. requestCount \in Nat /\ returned \subseteq RequestRef
        /\ serial'[t] = requestCount + 1 /\ pc'[t] = "store"
    BY <1>1 DEF TypeOK
  <1>3. \A r \in returned : r.n \in Nat
    BY <1>2 DEF RequestRef
  <1>4. QueueKnown'
    BY <1>1 DEF OrphanInv, QueueKnown
  <1>5. RefsKnown' /\ \A r \in returned : r.n # requestCount + 1
    BY <1>1, <1>2, <1>3 DEF OrphanInv, RefsKnown
  <1>6. CallsKnown'
    BY <1>1, <1>2, <1>5, OfOneThread DEF CallsKnown
  <1>7. QED
    BY <1>4, <1>5, <1>6 DEF OrphanInv

LEMMA PushStep ==
  ASSUME TypeOK, OrphanInv, OneThread, NEW t \in Threads, PushPayload(t)
  PROVE  OrphanInv'
  <1> DEFINE p == RequestPayload(Current(t))
             c == Current(t)
  <1>1. /\ queuedPayloads' = Append(queuedPayloads, p)
        /\ returned' = returned \cup {c}
        /\ UNCHANGED <<answered, outstanding, requestCount, serial, reg>>
        /\ pc[t] = "push" /\ pc'[t] \in {"wait", "replay", "idle"}
    BY DEF PushPayload, callVars, netVars, Goto, TypeOK
  <1>2. c \in RequestRef /\ c.n = serial[t] /\ c.id \in RequestIds
    <2>1. c \in RequestRef
      BY CurrentTyped, IdsAssumption
    <2>2. reg[t] \in Nat /\ IdSpace \in Nat \ {0}
      BY IdsAssumption DEF IdsAssumption, TypeOK
    <2>3. reg[t] % IdSpace \in 0..(IdSpace - 1)
      BY <2>2
    <2>4. QED
      BY <2>1, <2>3 DEF Current, RequestIds
  <1>3. serial[t] <= requestCount /\ \A r \in returned : r.n # serial[t]
    BY <1>1 DEF OrphanInv, CallsKnown
  <1>4. serial[t] \notin answered
    BY <1>3 DEF OrphanInv, RefsKnown
  <1>5. p \in Payloads /\ p.data = "request" /\ Ref(p) = c
    BY <1>2, PayloadsTyped, IdsAssumption DEF TypeOK, RequestPayload, Ref, RequestRef
  <1> HIDE DEF p, c
  <1>6. RefsKnown'
    BY <1>1, <1>2, <1>3 DEF OrphanInv, RefsKnown
  <1>7. QueueKnown'
    <2>1. \A i \in 1..Len(queuedPayloads) :
            Known(queuedPayloads[i], returned', answered)
      BY <1>1, KnownGrows DEF OrphanInv, QueueKnown
    <2>2. Known(p, returned', answered)
      BY <1>1, <1>5 DEF Known
    <2>3. \A i \in 1..Len(queuedPayloads') :
            Known(queuedPayloads'[i], returned', answered)
      BY <1>1, <1>5, <2>1, <2>2, KnownAppend DEF TypeOK
    <2>4. QED
      BY <1>1, <2>3 DEF QueueKnown
  <1>8. CallsKnown'
    <2>1. Current(t)' = c
      BY <1>1 DEF Current, c
    <2>2. QED
      BY <1>1, <1>2, <1>4, <2>1, OfOneThread DEF CallsKnown
  <1>9. QED
    BY <1>6, <1>7, <1>8 DEF OrphanInv

LEMMA WaitStep ==
  ASSUME TypeOK, OrphanInv, OneThread, NEW t \in Threads, WaitForResponse(t)
  PROVE  OrphanInv'
  <1> DEFINE c == Current(t)
             p == WaitPayload(c)
  <1>1. /\ queuedPayloads' = Append(queuedPayloads, p)
        /\ UNCHANGED <<answered, outstanding, requestCount, serial, reg, returned>>
        /\ pc[t] = "wait" /\ pc'[t] \in {"wait", "idle"}
    BY DEF WaitForResponse, PushWait, netVars, Goto, TypeOK
  <1>2. c \in returned /\ serial[t] \notin answered
    BY <1>1 DEF OrphanInv, CallsKnown
  <1>3. c \in RequestRef /\ c.n = serial[t]
    BY CurrentTyped, IdsAssumption DEF Current
  <1>4. p \in Payloads /\ p.data = "none" /\ WaitRef(p) = c /\ p.n = serial[t]
    BY <1>3, PayloadsTyped, IdsAssumption
       DEF TypeOK, WaitPayload, WaitRef, RequestRef
  <1>5. Current(t)' = c
    BY <1>1 DEF Current
  <1> HIDE DEF p, c
  <1>6. Known(p, returned, answered)
    BY <1>2, <1>4 DEF Known
  <1>7. QueueKnown'
    <2>1. \A i \in 1..Len(queuedPayloads') :
            Known(queuedPayloads'[i], returned, answered)
      BY <1>1, <1>4, <1>6, KnownAppend DEF OrphanInv, QueueKnown, TypeOK
    <2>2. QED
      BY <1>1, <2>1 DEF QueueKnown
  <1>8. RefsKnown'
    BY <1>1 DEF OrphanInv, RefsKnown
  <1>9. CallsKnown'
    BY <1>1, <1>2, <1>5, OfOneThread DEF CallsKnown
  <1>10. QED
    BY <1>7, <1>8, <1>9 DEF OrphanInv

LEMMA PopStep ==
  ASSUME TypeOK, OrphanInv, OneThread, NEW t \in Threads, PopPayload(t)
  PROVE  OrphanInv'
  <1>1. /\ queuedPayloads # <<>> /\ queuedPayloads \in Seq(Payloads)
        /\ queuedPayloads' = Tail(queuedPayloads)
        /\ held'[t] = Head(queuedPayloads) /\ pc'[t] = "send"
        /\ UNCHANGED <<answered, outstanding, requestCount, returned>>
    BY DEF PopPayload, HasPayloadsNoLock, netVars, historyVars, Goto, TypeOK
  <1>2. /\ Len(queuedPayloads') = Len(queuedPayloads) - 1
        /\ held'[t] = queuedPayloads[1] /\ 1 \in 1..Len(queuedPayloads)
        /\ \A i \in 1..Len(queuedPayloads') :
             /\ i + 1 \in 1..Len(queuedPayloads)
             /\ queuedPayloads'[i] = queuedPayloads[i + 1]
    BY <1>1
  <1>3. QueueKnown' /\ RefsKnown'
    BY <1>1, <1>2 DEF OrphanInv, QueueKnown, RefsKnown
  <1>4. Known(held'[t], returned, answered)
    BY <1>2 DEF OrphanInv, QueueKnown
  <1>5. CallsKnown'
    BY <1>1, <1>4, OfOneThread DEF CallsKnown, Known
  <1>6. QED
    BY <1>3, <1>5 DEF OrphanInv

LEMMA SendStep ==
  ASSUME TypeOK, OrphanInv, OneThread, NEW t \in Threads, SendPayload(t)
  PROVE  OrphanInv'
  <1>1. /\ pc[t] = "send" /\ pc'[t] = "drain"
        /\ UNCHANGED <<queuedPayloads, answered, requestCount, returned>>
        /\ \/ outstanding' = outstanding
           \/ held[t].data = "request" /\ outstanding' = outstanding \cup {Ref(held[t])}
    BY DEF SendPayload, queueVars, Goto, TypeOK, Ref
  <1>2. QueueKnown'
    BY <1>1 DEF OrphanInv, QueueKnown
  <1>3. RefsKnown'
    BY <1>1 DEF OrphanInv, RefsKnown, CallsKnown
  <1>4. CallsKnown'
    BY <1>1, OfOneThread DEF CallsKnown
  <1>5. QED
    BY <1>2, <1>3, <1>4 DEF OrphanInv

LEMMA ReconnectStep ==
  ASSUME TypeOK, OrphanInv, OneThread, NEW t \in Threads, HandleReconnect(t)
  PROVE  OrphanInv'
  <1>1. /\ UNCHANGED <<answered, outstanding, requestCount, returned>>
        /\ pc[t] = "idle" /\ pc'[t] \in {"idle", "replay"}
        /\ \/ queuedPayloads' = queuedPayloads
           \/ queuedPayloads' = <<AuthPayload>> \o queuedPayloads
    BY DEF HandleReconnect, historyVars, Goto, TypeOK
  <1>2. RefsKnown'
    BY <1>1 DEF OrphanInv, RefsKnown
  <1>3. CallsKnown'
    BY <1>1, OfOneThread DEF CallsKnown
  <1>4. QueueKnown'
    <2>1. CASE queuedPayloads' = queuedPayloads
      BY <1>1, <2>1 DEF OrphanInv, QueueKnown
    <2>2. CASE queuedPayloads' = <<AuthPayload>> \o queuedPayloads
      <3>1. AuthPayload \in Payloads /\ queuedPayloads \in Seq(Payloads)
        BY PayloadsTyped, IdsAssumption DEF TypeOK
      <3>2. Known(AuthPayload, returned, answered)
        BY DEF Known, AuthPayload
      <3>3. /\ Len(queuedPayloads) \in Nat
            /\ Len(queuedPayloads') = Len(queuedPayloads) + 1
            /\ \A i \in 1..Len(queuedPayloads') :
                 queuedPayloads'[i] = IF i = 1 THEN AuthPayload
                                      ELSE queuedPayloads[i - 1]
        BY <2>2, <3>1
      <3>4. \A i \in 1..Len(queuedPayloads') :
              i = 1 \/ i - 1 \in 1..Len(queuedPayloads)
        BY <3>3
      <3>5. QED
        BY <1>1, <3>2, <3>3, <3>4 DEF OrphanInv, QueueKnown
    <2>3. QED
      BY <1>1, <2>1, <2>2
  <1>5. QED
    BY <1>2, <1>3, <1>4 DEF OrphanInv

LEMMA AnswerStep ==
  ASSUME TypeOK, OrphanInv, OneThread, ReceiveAnswer
  PROVE  OrphanInv'
  <1>1. PICK m \in outstanding : /\ ReceiveMessage(m.id)
                                 /\ outstanding' = outstanding \ {m}
                                 /\ answered' = answered \cup {m.n}
    BY DEF ReceiveAnswer
  <1>2. /\ pc[Receiver] = "idle" /\ Receiver \in Threads
        /\ UNCHANGED <<requestCount, returned, pc>>
    BY ThreadsAssumption DEF ReceiveAnswer, ThreadsAssumption
  <1>3. m \in returned
    BY DEF OrphanInv, RefsKnown
  <1>4. \A i \in 1..Len(queuedPayloads') :
          Known(queuedPayloads'[i], returned, answered \cup {m.n})
    BY <1>1, <1>3, KnownReceive DEF OrphanInv, TypeOK
  <1>5. QueueKnown'
    BY <1>1, <1>2, <1>4 DEF QueueKnown
  <1>6. RefsKnown'
    BY <1>1, <1>2, <1>3 DEF OrphanInv, RefsKnown
  <1>7. CallsKnown'
    BY <1>2, OfOneThread DEF CallsKnown
  <1>8. QED
    BY <1>5, <1>6, <1>7 DEF OrphanInv

LEMMA UpdateStep ==
  ASSUME TypeOK, OrphanInv, ReceiveUpdate
  PROVE  OrphanInv'
  <1>1. PICK r \in UpdateIds : ReceiveMessage(r)
    BY DEF ReceiveUpdate
  <1>2. UNCHANGED <<requestCount, returned, answered, outstanding, pc, serial,
                    reg, held>>
    BY DEF ReceiveUpdate, callVars, netVars, historyVars
  <1>3. \A i \in 1..Len(queuedPayloads') :
          Known(queuedPayloads'[i], returned, answered)
    BY <1>1, KnownReceive DEF OrphanInv, TypeOK
  <1>4. QueueKnown'
    BY <1>2, <1>3 DEF QueueKnown
  <1>5. RefsKnown' /\ CallsKnown'
    BY <1>2 DEF OrphanInv, RefsKnown, CallsKnown, Current
  <1>6. QED
    BY <1>4, <1>5 DEF OrphanInv

LEMMA OrphanStep ==
  ASSUME TypeOK, OrphanInv, WaitsAtOnce, [Next]_vars
  PROVE  OrphanInv'
  <1>1. OneThread /\ ~LateWaits
    BY DEF WaitsAtOnce
  <1>2. ASSUME NEW t \in Threads,
               \/ StoreRequestId(t) \/ ForeachPayload(t) \/ EndForeach(t)
        PROVE  OrphanInv'
    <2>1. /\ UNCHANGED <<queuedPayloads, requestCount, returned, answered,
                         outstanding, serial, reg, held>>
          /\ \/ pc[t] = "store" /\ pc'[t] = "push"
             \/ pc'[t] \in {"drain", "idle"}
      BY <1>2 DEF StoreRequestId, ForeachPayload, EndForeach, queueVars,
                  callVars, netVars, historyVars, Goto, TypeOK
    <2>2. QueueKnown' /\ RefsKnown'
      BY <2>1 DEF OrphanInv, QueueKnown, RefsKnown
    <2>3. CallsKnown'
      BY <1>1, <2>1, OfOneThread DEF OrphanInv, CallsKnown
    <2>4. QED
      BY <2>2, <2>3 DEF OrphanInv
  <1>3. ASSUME Disconnect \/ Reconnect \/ UNCHANGED vars
        PROVE  OrphanInv'
    <2>1. /\ UNCHANGED <<queuedPayloads, requestCount, returned, answered,
                         serial, reg, held, pc>>
          /\ outstanding' \subseteq outstanding
      BY <1>3 DEF Disconnect, Reconnect, vars, queueVars, callVars, netVars,
                  historyVars
    <2>2. QED
      BY <2>1 DEF OrphanInv, QueueKnown, RefsKnown, CallsKnown, Current
  <1>4. ASSUME NEW t \in Threads, WaitLate(t) PROVE OrphanInv'
    BY <1>1, <1>4 DEF WaitLate
  <1>5. QED
    BY <1>1, <1>2, <1>3, <1>4, LoadStep, PushStep, WaitStep, PopStep, SendStep,
       ReconnectStep, AnswerStep, UpdateStep DEF Next, Continue

\* A program of one thread that waits for a request as soon as it has made it
\* leaves no wait in the queue whose answer has come, which nothing would clear
\* (src/gamelink.cpp:316-338, :635).
THEOREM NoOrphanWaitHolds == WaitsAtOnce => (Spec => []NoOrphanWait)
  <1> SUFFICES ASSUME WaitsAtOnce PROVE Spec => []NoOrphanWait
    OBVIOUS
  <1>1. Init => OrphanInv
    <2> SUFFICES ASSUME Init PROVE OrphanInv
      OBVIOUS
    <2>1. queuedPayloads = <<>> /\ returned = {} /\ answered = {}
          /\ outstanding = {} /\ \A t \in Threads : pc[t] = "idle"
      BY DEF Init
    <2>2. QED
      BY <2>1 DEF OrphanInv, QueueKnown, RefsKnown, CallsKnown
  <1>2. TypeOK /\ OrphanInv /\ [Next]_vars => OrphanInv'
    BY OrphanStep
  <1>3. TypeOK /\ OrphanInv => NoOrphanWait
    BY DEF TypeOK, OrphanInv, QueueKnown, Known, NoOrphanWait, Cleared
  <1>4. QED
    BY <1>1, <1>2, <1>3, TypeCorrect, PTL DEF Spec
=============================================================================
