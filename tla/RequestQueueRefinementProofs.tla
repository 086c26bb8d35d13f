-------------------- MODULE RequestQueueRefinementProofs --------------------
(***************************************************************************)
(* RequestQueue implements SerializedRequests: the proof that goes with    *)
(* the mapping of RequestQueueRefinement, for any number of threads and    *)
(* any bounds, while the request ids have not wrapped.                     *)
(***************************************************************************)
EXTENDS RequestQueueProofs, RequestQueueRefinement

-----------------------------------------------------------------------------
(* The mapping.                                                             *)

\* Some payload of s holds the text of request n.
Requesting(s, n) == \E i \in 1..Len(s) : s[i].data = "request" /\ s[i].n = n

\* A request is among the abstract payloads when its text is among the payloads.
LEMMA AmongAbstract ==
  ASSUME NEW s \in Seq(Payloads), NEW n \in Nat
  PROVE  Serialized!Among(AbstractPayloads(s), Serialized!Request(n))
           <=> Requesting(s, n)
  BY DEF Serialized!Among, Serialized!Request, AbstractPayloads,
         AbstractPayload, Requesting, Payloads

\* The mapping has the length of what it maps, and maps it one by one.
LEMMA AbstractEach ==
  ASSUME NEW s \in Seq(Payloads)
  PROVE  /\ AbstractPayloads(s) = [i \in 1..Len(s) |-> AbstractPayload(s[i])]
         /\ Len(AbstractPayloads(s)) = Len(s)
         /\ \A i \in 1..Len(s) : AbstractPayloads(s)[i] = AbstractPayload(s[i])
  BY DEF AbstractPayloads

\* A payload queued last is mapped last.
LEMMA AbstractAppend ==
  ASSUME NEW s \in Seq(Payloads), NEW p \in Payloads
  PROVE  AbstractPayloads(Append(s, p))
           = Append(AbstractPayloads(s), AbstractPayload(p))
  <1>1. Append(s, p) \in Seq(Payloads) /\ Len(Append(s, p)) = Len(s) + 1
    OBVIOUS
  <1>2. \A i \in 1..Len(s) + 1 :
          Append(s, p)[i] = IF i = Len(s) + 1 THEN p ELSE s[i]
    OBVIOUS
  <1>3. QED
    BY <1>1, <1>2 DEF AbstractPayloads

\* One put in front is mapped in front.
LEMMA AbstractPushFront ==
  ASSUME NEW s \in Seq(Payloads), NEW p \in Payloads
  PROVE  AbstractPayloads(<<p>> \o s)
           = <<AbstractPayload(p)>> \o AbstractPayloads(s)
  <1>1. <<p>> \o s \in Seq(Payloads) /\ Len(<<p>> \o s) = Len(s) + 1
    OBVIOUS
  <1>2. \A i \in 1..Len(s) + 1 :
          (<<p>> \o s)[i] = IF i = 1 THEN p ELSE s[i - 1]
    OBVIOUS
  <1>3. QED
    BY <1>1, <1>2 DEF AbstractPayloads

\* What is left of the mapping is the mapping of what is left.
LEMMA AbstractTail ==
  ASSUME NEW s \in Seq(Payloads), s # <<>>
  PROVE  AbstractPayloads(Tail(s)) = Tail(AbstractPayloads(s))
  <1>1. Tail(s) \in Seq(Payloads) /\ Len(Tail(s)) = Len(s) - 1
    OBVIOUS
  <1>2. \A i \in 1..Len(s) - 1 : Tail(s)[i] = s[i + 1]
    OBVIOUS
  <1>3. QED
    BY <1>1, <1>2 DEF AbstractPayloads

\* What is still to be handed over is a sequence of payloads.
LEMMA UnsentTyped ==
  ASSUME ThreadsAssumption, TypeOK
  PROVE  Unsent \in Seq(Payloads)
  <1>1. held[Reconnector] \in Payloads /\ queuedPayloads \in Seq(Payloads)
    BY DEF TypeOK, ThreadsAssumption
  <1>2. <<held[Reconnector]>> \o queuedPayloads \in Seq(Payloads)
    BY <1>1
  <1>3. QED
    BY <1>1, <1>2 DEF Unsent

\* While nobody pops or sends, what is unsent changes as the queue does.
LEMMA UnsentFollows ==
  ASSUME ThreadsAssumption, TypeOK, held' = held,
         pc'[Reconnector] = "send" <=> pc[Reconnector] = "send"
  PROVE  /\ queuedPayloads' = queuedPayloads => Unsent' = Unsent
         /\ \A p \in Payloads : queuedPayloads' = Append(queuedPayloads, p)
                                => Unsent' = Append(Unsent, p)
  <1>1. held[Reconnector] \in Payloads /\ queuedPayloads \in Seq(Payloads)
    BY DEF TypeOK, ThreadsAssumption
  <1>2. ASSUME NEW p \in Payloads, NEW h \in Payloads, NEW q \in Seq(Payloads)
        PROVE  <<h>> \o Append(q, p) = Append(<<h>> \o q, p)
    OBVIOUS
  <1>3. QED
    BY <1>1, <1>2 DEF Unsent

-----------------------------------------------------------------------------
(* The invariant of the mapping.                                            *)

\* What was sent is the text of requests that were made, or authentications.
SentSound ==
  \A i \in 1..Len(sent) :
    /\ sent[i].data # "none"
    /\ sent[i].data = "request" => sent[i].n \in 1..requestCount

\* A request that is about to be queued has not been queued before.
Fresh ==
  \A t \in Threads : pc[t] \in {"store", "push"} =>
    ~Requesting(Unsent, serial[t]) /\ ~Requesting(sent, serial[t])

\* The server answers requests it was sent.
Accounted == \A m \in outstanding : Requesting(sent, m.n)

\* ForeachPayload pops nothing that still waits.
HeldReady ==
  pc[Reconnector] = "send"
    => held[Reconnector].waitingForResponse = ANY_REQUEST_ID

RefineInv == SentSound /\ Fresh /\ Accounted /\ HeldReady

\* The text of every request not sent yet is that of a request that was made.
LEMMA UnsentNumbered ==
  ASSUME ThreadsAssumption, TypeOK, BarrierParts, NEW n, Requesting(Unsent, n)
  PROVE  n \in 1..requestCount
  <1>1. held[Reconnector] \in Payloads /\ queuedPayloads \in Seq(Payloads)
    BY DEF TypeOK, ThreadsAssumption
  <1>2. \A i \in 1..Len(queuedPayloads) :
          queuedPayloads[i].data = "request"
            => queuedPayloads[i].n \in 1..requestCount
    BY DEF BarrierParts, QueueInv, GoodQueue, Sound, Numbered
  <1>3. pc[Reconnector] = "send" /\ held[Reconnector].data = "request"
          => held[Reconnector].n \in 1..requestCount
    BY DEF BarrierParts, HeldInv, Sound, Numbered, ThreadsAssumption
  <1>4. ASSUME NEW h \in Payloads, NEW q \in Seq(Payloads)
        PROVE  /\ Len(<<h>> \o q) = Len(q) + 1 /\ (<<h>> \o q)[1] = h
               /\ \A i \in 2..Len(q) + 1 :
                    (<<h>> \o q)[i] = q[i - 1] /\ i - 1 \in 1..Len(q)
    OBVIOUS
  <1>5. CASE pc[Reconnector] = "send"
    <2>1. Unsent = <<held[Reconnector]>> \o queuedPayloads
      BY <1>5 DEF Unsent
    <2>2. PICK i \in 1..Len(Unsent) : Unsent[i].data = "request" /\ Unsent[i].n = n
      BY DEF Requesting
    <2>3. i = 1 \/ i \in 2..Len(queuedPayloads) + 1
      BY <1>1, <1>4, <2>1
    <2>4. QED
      BY <1>1, <1>2, <1>3, <1>4, <1>5, <2>1, <2>2, <2>3
  <1>6. CASE pc[Reconnector] # "send"
    BY <1>2, <1>6 DEF Unsent, Requesting
  <1>7. QED
    BY <1>5, <1>6

\* A request appended to either end, or handed over, asks for what was there
\* before and for itself.
LEMMA RequestingAppend ==
  ASSUME NEW s \in Seq(Payloads), NEW p \in Payloads, NEW n
  PROVE  /\ Requesting(Append(s, p), n)
              <=> Requesting(s, n) \/ (p.data = "request" /\ p.n = n)
         /\ Requesting(<<p>> \o s, n)
              <=> Requesting(s, n) \/ (p.data = "request" /\ p.n = n)
  <1>1. /\ Len(Append(s, p)) = Len(s) + 1 /\ Append(s, p)[Len(s) + 1] = p
        /\ \A i \in 1..Len(s) : Append(s, p)[i] = s[i]
        /\ Len(s) \in Nat
    OBVIOUS
  <1>2. /\ Len(<<p>> \o s) = Len(s) + 1 /\ (<<p>> \o s)[1] = p
        /\ \A i \in 1..Len(s) : (<<p>> \o s)[i + 1] = s[i]
        /\ \A i \in 2..Len(s) + 1 : (<<p>> \o s)[i] = s[i - 1]
    OBVIOUS
  <1> DEFINE a == Append(s, p)
             b == <<p>> \o s
  <1> HIDE DEF a, b
  <1>3. Requesting(a, n) <=> Requesting(s, n) \/ (p.data = "request" /\ p.n = n)
    <2>1. /\ Len(a) = Len(s) + 1 /\ a[Len(s) + 1] = p
          /\ \A i \in 1..Len(s) : a[i] = s[i]
          /\ Len(s) \in Nat
      BY <1>1 DEF a
    <2>2. QED
      BY <2>1 DEF Requesting
  <1>4. Requesting(b, n) <=> Requesting(s, n) \/ (p.data = "request" /\ p.n = n)
    <2>1. /\ Len(b) = Len(s) + 1 /\ b[1] = p
          /\ \A i \in 1..Len(s) : b[i + 1] = s[i]
          /\ \A i \in 2..Len(s) + 1 : b[i] = s[i - 1]
          /\ Len(s) \in Nat
      BY <1>1, <1>2 DEF b
    <2>2. ASSUME Requesting(s, n) PROVE Requesting(b, n)
      <3>1. PICK i \in 1..Len(s) : s[i].data = "request" /\ s[i].n = n
        BY <2>2 DEF Requesting
      <3>2. i + 1 \in 1..Len(b) /\ b[i + 1] = s[i]
        BY <2>1
      <3>3. QED
        BY <3>1, <3>2 DEF Requesting
    <2>3. ASSUME p.data = "request", p.n = n PROVE Requesting(b, n)
      BY <2>1, <2>3 DEF Requesting
    <2>4. ASSUME Requesting(b, n), ~(p.data = "request" /\ p.n = n)
          PROVE  Requesting(s, n)
      <3>1. PICK i \in 1..Len(b) : b[i].data = "request" /\ b[i].n = n
        BY <2>4 DEF Requesting
      <3>2. i # 1
        BY <2>1, <2>4, <3>1
      <3>3. i - 1 \in 1..Len(s) /\ b[i] = s[i - 1]
        BY <2>1, <3>2
      <3>4. QED
        BY <3>1, <3>3 DEF Requesting
    <2>5. QED
      BY <2>2, <2>3, <2>4
  <1>5. QED
    BY <1>3, <1>4 DEF a, b
-----------------------------------------------------------------------------
(* What each step does to what is unsent.                                   *)

\* With one drainer, the payload that is held is that drainer's.
LEMMA OnlyReconnectorSends ==
  ASSUME OneDrainer, DrainersInv, NEW t \in Threads, pc[t] \in {"drain", "send"}
  PROVE  t = Reconnector
  BY DEF OneDrainer, DrainersInv

\* Calls that only take an id or return, the entry and exit of ForeachPayload,
\* and the pop, which moves a payload from the queue into the drainer's hands.
LEMMA SilentSteps ==
  ASSUME ThreadsAssumption, OneDrainer, TypeOK, DrainersInv,
         \/ \E t \in Threads : \/ BeginRequest(t) \/ StoreRequestId(t)
                               \/ ReplaySubscription(t) \/ ForeachPayload(t)
                               \/ EndForeach(t) \/ PopPayload(t)
         \/ Disconnect \/ Reconnect \/ UNCHANGED vars
  PROVE  Unsent' = Unsent /\ UNCHANGED <<sent, answered>>
  <1> USE DEF Goto
  <1>1. ASSUME NEW t \in Threads,
               \/ BeginRequest(t) \/ StoreRequestId(t) \/ ReplaySubscription(t)
               \/ ForeachPayload(t) \/ EndForeach(t)
        PROVE  Unsent' = Unsent /\ UNCHANGED <<sent, answered>>
    <2>1. /\ UNCHANGED <<queuedPayloads, held, sent, answered>>
          /\ pc[t] # "send"
          /\ \E l \in {"store", "push", "drain", "idle"} :
               pc' = [pc EXCEPT ![t] = l]
      BY <1>1 DEF BeginRequest, StoreRequestId, ReplaySubscription,
                  LoadRequestId, ForeachPayload, EndForeach, queueVars,
                  historyVars
    <2>2. pc'[Reconnector] = "send" <=> pc[Reconnector] = "send"
      BY <2>1 DEF TypeOK, ThreadsAssumption
    <2>3. QED
      BY <2>1, <2>2, UnsentFollows
  <1>2. ASSUME NEW t \in Threads, PopPayload(t)
        PROVE  Unsent' = Unsent /\ UNCHANGED <<sent, answered>>
    <2>1. t = Reconnector /\ pc[t] = "drain"
      BY <1>2, OnlyReconnectorSends DEF PopPayload
    <2>2. /\ pc'[Reconnector] = "send"
          /\ held'[Reconnector] = Head(queuedPayloads)
          /\ queuedPayloads' = Tail(queuedPayloads) /\ queuedPayloads # <<>>
          /\ queuedPayloads \in Seq(Payloads)
      BY <1>2, <2>1 DEF PopPayload, HasPayloadsNoLock, TypeOK
    <2>3. <<Head(queuedPayloads)>> \o Tail(queuedPayloads) = queuedPayloads
      BY <2>2
    <2>4. QED
      BY <1>2, <2>1, <2>2, <2>3 DEF Unsent, PopPayload, historyVars
  <1>3. ASSUME Disconnect \/ Reconnect \/ UNCHANGED vars
        PROVE  Unsent' = Unsent /\ UNCHANGED <<sent, answered>>
    BY <1>3 DEF Disconnect, Reconnect, vars, queueVars, historyVars, Unsent
  <1>4. QED
    BY <1>1, <1>2, <1>3

\* A call queues a request or a wait behind everything unsent.
LEMMA CallsAppend ==
  ASSUME ThreadsAssumption, IdsAssumption, TypeOK, NEW t \in Threads
  PROVE  /\ PushPayload(t) =>
              /\ RequestPayload(Current(t)) \in Payloads
              /\ Unsent' = Append(Unsent, RequestPayload(Current(t)))
              /\ UNCHANGED <<sent, answered>>
         /\ WaitForResponse(t) \/ WaitLate(t) =>
              /\ \E r \in RequestRef :
                   /\ (r = Current(t) /\ pc[t] = "wait") \/ r \in returned
                   /\ WaitPayload(r) \in Payloads
                   /\ Unsent' = Append(Unsent, WaitPayload(r))
              /\ UNCHANGED <<sent, answered>>
  <1> USE DEF Goto
  <1>1. Current(t) \in RequestRef /\ returned \subseteq RequestRef
    BY CurrentTyped DEF TypeOK
  <1>2. \A r \in RequestRef :
          RequestPayload(r) \in Payloads /\ WaitPayload(r) \in Payloads
    BY PayloadsTyped DEF TypeOK
  <1>3. ASSUME PushPayload(t) \/ WaitForResponse(t) \/ WaitLate(t)
        PROVE  /\ UNCHANGED <<held, sent, answered>>
               /\ pc'[Reconnector] = "send" <=> pc[Reconnector] = "send"
    BY <1>3 DEF PushPayload, WaitForResponse, WaitLate, TypeOK, ThreadsAssumption
  <1>4. ASSUME PushPayload(t)
        PROVE  Unsent' = Append(Unsent, RequestPayload(Current(t)))
    <2>1. queuedPayloads' = Append(queuedPayloads, RequestPayload(Current(t)))
      BY <1>4 DEF PushPayload
    <2>2. QED
      BY <1>1, <1>2, <1>3, <1>4, <2>1, UnsentFollows
  <1>5. ASSUME WaitForResponse(t) \/ WaitLate(t)
        PROVE  \E r \in RequestRef :
                 /\ (r = Current(t) /\ pc[t] = "wait") \/ r \in returned
                 /\ WaitPayload(r) \in Payloads
                 /\ Unsent' = Append(Unsent, WaitPayload(r))
    <2>1. PICK r \in RequestRef :
            /\ (r = Current(t) /\ pc[t] = "wait") \/ r \in returned
            /\ queuedPayloads' = Append(queuedPayloads, WaitPayload(r))
      BY <1>1, <1>5 DEF WaitForResponse, WaitLate, PushWait
    <2>2. Unsent' = Append(Unsent, WaitPayload(r))
      BY <1>2, <1>3, <1>5, <2>1, UnsentFollows
    <2>3. QED
      BY <1>2, <2>1, <2>2
  <1>6. QED
    BY <1>1, <1>2, <1>3, <1>4, <1>5

\* HandleReconnect puts the authentication in front, or does nothing.
LEMMA ReconnectPushesFront ==
  ASSUME ThreadsAssumption, TypeOK, NEW t \in Threads, HandleReconnect(t)
  PROVE  /\ Unsent' = Unsent \/ Unsent' = <<AuthPayload>> \o Unsent
         /\ UNCHANGED <<sent, answered>>
  <1>1. /\ pc[Reconnector] # "send" /\ pc'[Reconnector] # "send"
        /\ \/ queuedPayloads' = queuedPayloads
           \/ queuedPayloads' = <<AuthPayload>> \o queuedPayloads
    BY DEF HandleReconnect, Goto, TypeOK, ThreadsAssumption
  <1>2. QED
    BY <1>1 DEF Unsent, HandleReconnect, historyVars

\* SendPayload takes the first payload that is unsent.
LEMMA SendTakesFirst ==
  ASSUME ThreadsAssumption, OneDrainer, TypeOK, DrainersInv,
         NEW t \in Threads, SendPayload(t)
  PROVE  LET p == held[Reconnector] IN
         /\ t = Reconnector /\ p \in Payloads
         /\ Unsent # <<>> /\ Unsent[1] = p /\ Unsent' = Tail(Unsent)
         /\ sent' = IF p.data # "none" THEN Append(sent, p) ELSE sent
         /\ UNCHANGED answered
  <1>1. t = Reconnector /\ pc[t] = "send"
    BY OnlyReconnectorSends DEF SendPayload
  <1>2. held[Reconnector] \in Payloads /\ queuedPayloads \in Seq(Payloads)
    BY DEF TypeOK, ThreadsAssumption
  <1>3. ASSUME NEW h \in Payloads, NEW q \in Seq(Payloads)
        PROVE  /\ <<h>> \o q # <<>> /\ (<<h>> \o q)[1] = h
               /\ Tail(<<h>> \o q) = q
    OBVIOUS
  <1>4. Unsent = <<held[Reconnector]>> \o queuedPayloads
    BY <1>1 DEF Unsent
  <1>5. Unsent' = queuedPayloads
    BY <1>1 DEF Unsent, SendPayload, queueVars, Goto, TypeOK
  <1>6. QED
    BY <1>1, <1>2, <1>3, <1>4, <1>5 DEF SendPayload

\* ReceiveMessage takes away waits that stand together, each for a request that
\* has been answered, and leaves the rest as it was mapped.
LEMMA ReceiveForgets ==
  ASSUME ThreadsAssumption, TypeOK, QueueInv, UNCHANGED <<pc, held>>,
         NEW r, ReceiveMessage(r), answered \subseteq answered',
         \A n \in 1..requestCount : n = r => n \in answered'
  PROVE  \E from, k \in 0..Len(Unsent) :
           /\ from + k <= Len(Unsent) /\ Unsent' \in Seq(Payloads)
           /\ Len(Unsent') = Len(Unsent) - k
           /\ \A i \in 1..Len(Unsent') :
                LET p == Unsent[IF i <= from THEN i ELSE i + k]
                IN  Unsent'[i].data = p.data /\ Unsent'[i].n = p.n
           /\ \A i \in 1..k : /\ Unsent[from + i].data = "none"
                             /\ Unsent[from + i].n \in answered'
  <1> DEFINE q == queuedPayloads
             h == held[Reconnector]
             holds == pc[Reconnector] = "send"
             from == IF holds THEN 1 ELSE 0
  <1>1. q \in Seq(Payloads) /\ h \in Payloads
    BY DEF TypeOK, ThreadsAssumption
  <1>2. PICK k \in 0..Len(q) :
          /\ q' \in Seq(Payloads) /\ Len(q') = Len(q) - k
          /\ \A i \in 1..Len(q') : q'[i].data = q[i + k].data /\ q'[i].n = q[i + k].n
          /\ \A i \in 1..k : /\ q[i].data = "none"
                            /\ q[i].waitingForResponse \in {r, ANY_REQUEST_ID}
    BY <1>1, ReceiveMessageShape
  <1>3. \A i \in 1..k : q[i].n \in answered'
    <2> SUFFICES ASSUME NEW i \in 1..k PROVE q[i].n \in answered'
      OBVIOUS
    <2>1. Sound(q[i], requestCount, answered)
      BY <1>1, <1>2 DEF QueueInv, GoodQueue
    <2>2. QED
      BY <1>2, <2>1 DEF Sound
  <1>4. CASE holds
    <2>1. Unsent = <<h>> \o q /\ Unsent' = <<h>> \o q'
      BY <1>4 DEF Unsent
    <2>2. ASSUME NEW s \in Seq(Payloads)
          PROVE  /\ <<h>> \o s \in Seq(Payloads) /\ Len(<<h>> \o s) = Len(s) + 1
                 /\ (<<h>> \o s)[1] = h
                 /\ \A i \in 1..Len(s) : (<<h>> \o s)[i + 1] = s[i]
      BY <1>1
    <2>3. /\ Unsent' \in Seq(Payloads)
          /\ Len(Unsent) = Len(q) + 1 /\ Len(Unsent') = Len(q') + 1
          /\ Unsent[1] = h /\ Unsent'[1] = h
          /\ \A i \in 1..Len(q) : Unsent[i + 1] = q[i]
          /\ \A i \in 1..Len(q') : Unsent'[i + 1] = q'[i]
      BY <1>1, <1>2, <2>1, <2>2
    <2>4. \A i \in 1..Len(Unsent') :
            LET p == Unsent[IF i <= 1 THEN i ELSE i + k]
            IN  Unsent'[i].data = p.data /\ Unsent'[i].n = p.n
      <3> SUFFICES ASSUME NEW i \in 1..Len(Unsent'), i # 1
                   PROVE  /\ Unsent'[i].data = Unsent[i + k].data
                          /\ Unsent'[i].n = Unsent[i + k].n
        BY <2>3
      <3>1. /\ i - 1 \in 1..Len(q') /\ (i - 1) + k \in 1..Len(q)
            /\ (i - 1) + 1 = i /\ ((i - 1) + k) + 1 = i + k
        BY <1>1, <1>2, <2>3
      <3>2. Unsent'[i] = q'[i - 1] /\ Unsent[i + k] = q[(i - 1) + k]
        BY <2>3, <3>1
      <3>3. QED
        BY <1>2, <3>1, <3>2
    <2>5. \A i \in 1..k : 1 + i = i + 1 /\ i \in 1..Len(q)
      BY <1>1, <1>2
    <2>6. \A i \in 1..k : Unsent[1 + i].data = "none" /\ Unsent[1 + i].n \in answered'
      BY <1>2, <1>3, <2>3, <2>5
    <2>7. /\ 1 \in 0..Len(Unsent) /\ k \in 0..Len(Unsent) /\ 1 + k <= Len(Unsent)
          /\ Len(Unsent') = Len(Unsent) - k
      BY <1>1, <1>2, <2>3
    <2>8. QED
      BY <2>3, <2>4, <2>6, <2>7
  <1>5. CASE ~holds
    <2>1. Unsent = q /\ Unsent' = q'
      BY <1>5 DEF Unsent
    <2>2. /\ 0 \in 0..Len(q) /\ 0 + k <= Len(q)
          /\ \A i \in 1..Len(q') : ~(i <= 0)
          /\ \A i \in 1..k : 0 + i = i
      BY <1>1, <1>2
    <2>3. QED
      BY <1>2, <1>3, <2>1, <2>2
  <1>6. QED
    BY <1>4, <1>5

\* A message clears the waits for the request it answers, and only those.
LEMMA ReceiptForgets ==
  ASSUME ThreadsAssumption, IdsAssumption, UpdateIdsAssumption, TypeOK,
         requestCount < IdSpace, BarrierParts, ReceiveAnswer \/ ReceiveUpdate
  PROVE  /\ \E from, k \in 0..Len(Unsent) :
              /\ from + k <= Len(Unsent) /\ Unsent' \in Seq(Payloads)
              /\ Len(Unsent') = Len(Unsent) - k
              /\ \A i \in 1..Len(Unsent') :
                   LET p == Unsent[IF i <= from THEN i ELSE i + k]
                   IN  Unsent'[i].data = p.data /\ Unsent'[i].n = p.n
              /\ \A i \in 1..k : /\ Unsent[from + i].data = "none"
                                /\ Unsent[from + i].n \in answered'
         /\ UNCHANGED sent
         /\ \/ answered' = answered
            \/ \E m \in outstanding : answered' = answered \cup {m.n}
  <1>1. QueueInv /\ RefsInv /\ UNCHANGED <<pc, held, sent>>
    BY DEF BarrierParts, ReceiveAnswer, ReceiveUpdate, historyVars
  <1>2. CASE ReceiveAnswer
    <2>1. PICK m \in outstanding : ReceiveMessage(m.id) /\ answered' = answered \cup {m.n}
      BY <1>2 DEF ReceiveAnswer
    <2>2. m.id = m.n
      BY <1>1 DEF RefsInv, Numbered
    <2>3. QED
      BY <1>1, <2>1, <2>2, ReceiveForgets
  <1>3. CASE ReceiveUpdate
    <2>1. PICK r \in UpdateIds : ReceiveMessage(r)
      BY <1>3 DEF ReceiveUpdate
    <2>2. answered' = answered
      BY <1>3 DEF ReceiveUpdate, historyVars
    <2>3. \A n \in 1..requestCount : n # r
      BY DEF TypeOK, IdsAssumption, UpdateIdsAssumption, ANY_REQUEST_ID,
             REJECTED_REQUEST_ID
    <2>4. QED
      BY <1>1, <2>1, <2>2, <2>3, ReceiveForgets
  <1>4. QED
    BY <1>2, <1>3
-----------------------------------------------------------------------------
(* The invariant of the mapping is inductive.                               *)

\* No step asks for a request that was not there, unless it queues the text of
\* the one its thread has made; what has been sent stays sent.
LEMMA RequestsConserved ==
  ASSUME OneDrainer, TypeOK, BarrierParts, DrainersInv,
         requestCount < IdSpace, SentSound, [Next]_vars
  PROVE  /\ \A n : Requesting(Unsent', n) \/ Requesting(sent', n) =>
              \/ Requesting(Unsent, n) \/ Requesting(sent, n)
              \/ \E t \in Threads : PushPayload(t) /\ n = serial[t]
         /\ \A n : Requesting(sent, n) => Requesting(sent', n)
         /\ \A i \in 1..Len(sent') : sent'[i].data # "none"
  <1> USE ThreadsAssumption, IdsAssumption, UpdateIdsAssumption
  <1> DEFINE Goal ==
        /\ \A n : Requesting(Unsent', n) \/ Requesting(sent', n) =>
             \/ Requesting(Unsent, n) \/ Requesting(sent, n)
             \/ \E t \in Threads : PushPayload(t) /\ n = serial[t]
        /\ \A n : Requesting(sent, n) => Requesting(sent', n)
        /\ \A i \in 1..Len(sent') : sent'[i].data # "none"
  <1>1. Unsent \in Seq(Payloads) /\ sent \in Seq(Payloads)
    BY UnsentTyped DEF TypeOK
  <1>2. ASSUME Unsent' = Unsent, sent' = sent
        PROVE  Goal
    BY <1>2 DEF SentSound
  <1>3. ASSUME NEW t \in Threads, PushPayload(t)
        PROVE  Goal
    <2>1. /\ RequestPayload(Current(t)) \in Payloads /\ sent' = sent
          /\ Unsent' = Append(Unsent, RequestPayload(Current(t)))
          /\ RequestPayload(Current(t)).n = serial[t]
      BY <1>3, CallsAppend DEF RequestPayload, Current
    <2>2. \A n : Requesting(Unsent', n) => Requesting(Unsent, n) \/ n = serial[t]
      BY <1>1, <2>1, RequestingAppend
    <2>3. QED
      BY <1>3, <2>1, <2>2 DEF SentSound
  <1>4. ASSUME NEW t \in Threads, WaitForResponse(t) \/ WaitLate(t)
        PROVE  Goal
    <2>1. PICK r \in RequestRef : /\ WaitPayload(r) \in Payloads
                                 /\ Unsent' = Append(Unsent, WaitPayload(r))
      BY <1>4, CallsAppend
    <2>2. sent' = sent /\ WaitPayload(r).data # "request"
      BY <1>4, CallsAppend DEF WaitPayload
    <2>3. \A n : Requesting(Unsent', n) => Requesting(Unsent, n)
      BY <1>1, <2>1, <2>2, RequestingAppend
    <2>4. QED
      BY <2>2, <2>3 DEF SentSound
  <1>5. ASSUME NEW t \in Threads, HandleReconnect(t)
        PROVE  Goal
    <2>1. /\ Unsent' = Unsent \/ Unsent' = <<AuthPayload>> \o Unsent
          /\ sent' = sent /\ AuthPayload \in Payloads
          /\ AuthPayload.data # "request"
      BY <1>5, ReconnectPushesFront, PayloadsTyped DEF TypeOK, AuthPayload
    <2>2. \A n : Requesting(<<AuthPayload>> \o Unsent, n) => Requesting(Unsent, n)
      BY <1>1, <2>1, RequestingAppend
    <2>3. QED
      BY <2>1, <2>2 DEF SentSound
  <1>6. ASSUME NEW t \in Threads, SendPayload(t)
        PROVE  Goal
    <2> DEFINE p == held[Reconnector]
    <2>1. /\ p \in Payloads /\ Unsent # <<>> /\ Unsent[1] = p
          /\ Unsent' = Tail(Unsent)
          /\ sent' = IF p.data # "none" THEN Append(sent, p) ELSE sent
      BY <1>6, SendTakesFirst
    <2>2. \A n : Requesting(Tail(Unsent), n) => Requesting(Unsent, n)
      <3>1. /\ Len(Tail(Unsent)) = Len(Unsent) - 1 /\ Len(Unsent) \in Nat
            /\ \A i \in 1..Len(Unsent) - 1 : Tail(Unsent)[i] = Unsent[i + 1]
        BY <1>1, <2>1
      <3>2. \A i \in 1..Len(Unsent) - 1 : i + 1 \in 1..Len(Unsent)
        BY <3>1
      <3>3. QED
        BY <3>1, <3>2 DEF Requesting
    <2>3. \A n : p.data = "request" /\ p.n = n => Requesting(Unsent, n)
      <3>1. 1 \in 1..Len(Unsent)
        BY <1>1, <2>1
      <3>2. QED
        BY <2>1, <3>1 DEF Requesting
    <2>4. \A n : Requesting(sent', n)
                <=> Requesting(sent, n) \/ (p.data = "request" /\ p.n = n)
      BY <1>1, <2>1, RequestingAppend
    <2>5. \A i \in 1..Len(sent') : sent'[i].data # "none"
      <3>1. \A i \in 1..Len(Append(sent, p)) :
              Append(sent, p)[i] = IF i = Len(sent) + 1 THEN p ELSE sent[i]
        BY <1>1, <2>1
      <3>2. Len(Append(sent, p)) = Len(sent) + 1 /\ Len(sent) \in Nat
        BY <1>1, <2>1
      <3>3. \A i \in 1..Len(sent) : sent[i].data # "none"
        BY DEF SentSound
      <3>4. QED
        BY <2>1, <3>1, <3>2, <3>3
    <2>6. QED
      BY <2>1, <2>2, <2>3, <2>4, <2>5
  <1>7. ASSUME ReceiveAnswer \/ ReceiveUpdate
        PROVE  Goal
    <2>1. PICK from, k \in 0..Len(Unsent) :
            /\ from + k <= Len(Unsent) /\ Unsent' \in Seq(Payloads)
            /\ Len(Unsent') = Len(Unsent) - k
            /\ \A i \in 1..Len(Unsent') :
                 LET p == Unsent[IF i <= from THEN i ELSE i + k]
                 IN  Unsent'[i].data = p.data /\ Unsent'[i].n = p.n
      BY <1>7, ReceiptForgets
    <2>2. Len(Unsent) \in Nat
      BY <1>1
    <2>3. \A i \in 1..Len(Unsent') :
            (IF i <= from THEN i ELSE i + k) \in 1..Len(Unsent)
      BY <2>1, <2>2
    <2>4. \A n : Requesting(Unsent', n) => Requesting(Unsent, n)
      BY <2>1, <2>3 DEF Requesting
    <2>5. sent' = sent
      BY <1>7, ReceiptForgets
    <2>6. QED
      BY <2>4, <2>5 DEF SentSound
  <1>8. ASSUME \/ \E t \in Threads : \/ BeginRequest(t) \/ StoreRequestId(t)
                                     \/ ReplaySubscription(t)
                                     \/ ForeachPayload(t) \/ EndForeach(t)
                                     \/ PopPayload(t)
               \/ Disconnect \/ Reconnect \/ UNCHANGED vars
        PROVE  Goal
    BY <1>2, <1>8, SilentSteps
  <1>9. QED
    BY <1>3, <1>4, <1>5, <1>6, <1>7, <1>8 DEF Next, Continue

\* Requests get their number before they are queued, and each is queued once.
LEMMA FreshStep ==
  ASSUME OneIssuer, OneDrainer, TypeOK, BarrierParts, DrainersInv,
         requestCount < IdSpace, SentSound, Fresh, [Next]_vars
  PROVE  Fresh'
  <1> USE DEF Goto
  <1>1. SUFFICES ASSUME NEW s \in Threads, pc'[s] \in {"store", "push"}
                 PROVE  /\ ~Requesting(Unsent', serial'[s])
                        /\ ~Requesting(sent', serial'[s])
    BY DEF Fresh
  <1>2. \A t \in Threads :
          pc[t] \in {"store", "push"} /\ pc[s] \in {"store", "push"} => t = s
    BY DEF BarrierParts, CounterInv, OneIssuer
  <1>3. ASSUME NEW t \in Threads, BeginRequest(t) \/ ReplaySubscription(t)
        PROVE  /\ ~Requesting(Unsent', serial'[s])
               /\ ~Requesting(sent', serial'[s])
    <2>1. Unsent' = Unsent /\ sent' = sent
      BY <1>3, SilentSteps, ThreadsAssumption
    <2>2. /\ serial' = [serial EXCEPT ![t] = requestCount + 1]
          /\ pc' = [pc EXCEPT ![t] = "store"]
      BY <1>3 DEF BeginRequest, ReplaySubscription, LoadRequestId
    <2>3. CASE s = t
      <3>1. serial'[s] = requestCount + 1 /\ requestCount \in Nat
        BY <2>2, <2>3 DEF TypeOK
      <3>2. \A n : Requesting(Unsent, n) \/ Requesting(sent, n)
                    => n \in 1..requestCount
        BY UnsentNumbered, ThreadsAssumption DEF SentSound, Requesting
      <3>3. QED
        BY <2>1, <3>1, <3>2
    <2>4. CASE s # t
      BY <1>1, <2>1, <2>2, <2>4 DEF Fresh, TypeOK
    <2>5. QED
      BY <2>3, <2>4
  <1>4. ASSUME ~\E t \in Threads : \/ BeginRequest(t) \/ ReplaySubscription(t)
                                   \/ PushPayload(t)
        PROVE  /\ ~Requesting(Unsent', serial'[s])
               /\ ~Requesting(sent', serial'[s])
    <2>1. pc[s] \in {"store", "push"} /\ serial'[s] = serial[s]
      <3>1. ASSUME NEW t \in Threads,
                   \/ WaitLate(t) \/ ForeachPayload(t) \/ HandleReconnect(t)
                   \/ StoreRequestId(t) \/ WaitForResponse(t) \/ PopPayload(t)
                   \/ SendPayload(t) \/ EndForeach(t)
            PROVE  pc[s] \in {"store", "push"} /\ serial'[s] = serial[s]
        BY <1>1, <3>1 DEF WaitLate, ForeachPayload, HandleReconnect,
             StoreRequestId, WaitForResponse, PopPayload, SendPayload,
             EndForeach, callVars, TypeOK
      <3>2. ASSUME \/ ReceiveAnswer \/ ReceiveUpdate \/ Disconnect
                   \/ Reconnect \/ UNCHANGED vars
            PROVE  pc[s] \in {"store", "push"} /\ serial'[s] = serial[s]
        BY <1>1, <3>2 DEF ReceiveAnswer, ReceiveUpdate, Disconnect, Reconnect,
             callVars, vars
      <3>3. QED
        BY <1>4, <3>1, <3>2 DEF Next, Continue
    <2>2. ~Requesting(Unsent, serial[s]) /\ ~Requesting(sent, serial[s])
      BY <2>1 DEF Fresh
    <2>3. QED
      BY <1>4, <2>1, <2>2, RequestsConserved
  <1>5. ASSUME NEW t \in Threads, PushPayload(t)
        PROVE  FALSE
    <2>1. pc'[t] \notin {"store", "push"} /\ pc[t] = "push"
      BY <1>5 DEF PushPayload, TypeOK
    <2>2. s # t /\ pc'[s] = pc[s]
      BY <1>1, <1>5, <2>1 DEF PushPayload, TypeOK
    <2>3. QED
      BY <1>1, <1>2, <2>1, <2>2
  <1>6. QED
    BY <1>3, <1>4, <1>5

\* The server owes answers to what it was sent.
LEMMA AccountedStep ==
  ASSUME OneDrainer, TypeOK, BarrierParts, DrainersInv,
         requestCount < IdSpace, SentSound, Accounted, [Next]_vars
  PROVE  Accounted'
  <1>1. \A n : Requesting(sent, n) => Requesting(sent', n)
    BY RequestsConserved
  <1>2. ASSUME outstanding' \subseteq outstanding
        PROVE  Accounted'
    BY <1>1, <1>2 DEF Accounted
  <1>3. ASSUME NEW t \in Threads, SendPayload(t)
        PROVE  Accounted'
    <2> DEFINE p == held[Reconnector]
    <2>1. /\ t = Reconnector /\ p \in Payloads
          /\ sent' = IF p.data # "none" THEN Append(sent, p) ELSE sent
      BY <1>3, SendTakesFirst, ThreadsAssumption
    <2>2. sent \in Seq(Payloads)
      BY DEF TypeOK
    <2>3. CASE p.data = "request"
      <3>1. outstanding' \subseteq outstanding \cup {[id |-> p.id, n |-> p.n]}
        BY <1>3, <2>1 DEF SendPayload
      <3>2. Requesting(sent', p.n)
        BY <2>1, <2>2, <2>3, RequestingAppend
      <3>3. QED
        BY <1>1, <3>1, <3>2 DEF Accounted
    <2>4. CASE p.data # "request"
      BY <1>2, <1>3, <2>1, <2>4 DEF SendPayload
    <2>5. QED
      BY <2>3, <2>4
  <1>4. ASSUME NEW t \in Threads,
               \/ BeginRequest(t) \/ WaitLate(t) \/ ForeachPayload(t)
               \/ HandleReconnect(t) \/ StoreRequestId(t) \/ PushPayload(t)
               \/ WaitForResponse(t) \/ PopPayload(t) \/ EndForeach(t)
               \/ ReplaySubscription(t)
        PROVE  outstanding' \subseteq outstanding
    BY <1>4 DEF BeginRequest, WaitLate, ForeachPayload, HandleReconnect,
         StoreRequestId, PushPayload, WaitForResponse, PopPayload, EndForeach,
         ReplaySubscription, netVars
  <1>5. ASSUME \/ ReceiveAnswer \/ ReceiveUpdate \/ Disconnect \/ Reconnect
               \/ UNCHANGED vars
        PROVE  outstanding' \subseteq outstanding
    BY <1>5 DEF ReceiveAnswer, ReceiveUpdate, Disconnect, Reconnect, netVars, vars
  <1>6. QED
    BY <1>2, <1>3, <1>4, <1>5 DEF Next, Continue

\* Only the pop goes to the network, with what is ready at the front.
LEMMA HeldReadyStep ==
  ASSUME TypeOK, HeldReady, [Next]_vars
  PROVE  HeldReady'
  <1> USE ThreadsAssumption DEF Goto
  <1>1. ASSUME NEW t \in Threads, PopPayload(t)
        PROVE  HeldReady'
    <2>1. /\ held' = [held EXCEPT ![t] = Head(queuedPayloads)]
          /\ pc' = [pc EXCEPT ![t] = "send"]
          /\ Head(queuedPayloads).waitingForResponse = ANY_REQUEST_ID
      BY <1>1 DEF PopPayload, HasPayloadsNoLock
    <2>2. QED
      BY <2>1 DEF HeldReady, TypeOK
  <1>2. ASSUME NEW t \in Threads,
               \/ BeginRequest(t) \/ WaitLate(t) \/ ForeachPayload(t)
               \/ HandleReconnect(t) \/ StoreRequestId(t) \/ PushPayload(t)
               \/ WaitForResponse(t) \/ SendPayload(t) \/ EndForeach(t)
               \/ ReplaySubscription(t)
        PROVE  HeldReady'
    <2>1. held' = held /\ (pc'[Reconnector] = "send" => pc[Reconnector] = "send")
      BY <1>2 DEF BeginRequest, WaitLate, ForeachPayload, HandleReconnect,
           StoreRequestId, PushPayload, WaitForResponse, SendPayload,
           EndForeach, ReplaySubscription, LoadRequestId, TypeOK
    <2>2. QED
      BY <2>1 DEF HeldReady
  <1>3. ASSUME \/ ReceiveAnswer \/ ReceiveUpdate \/ Disconnect \/ Reconnect
               \/ UNCHANGED vars
        PROVE  HeldReady'
    BY <1>3 DEF ReceiveAnswer, ReceiveUpdate, Disconnect, Reconnect, vars, HeldReady
  <1>4. QED
    BY <1>1, <1>2, <1>3 DEF Next, Continue

\* The inductive step of the invariant of the mapping.
LEMMA RefineStep ==
  ASSUME OneIssuer, OneDrainer, TypeOK, BarrierParts, DrainersInv,
         requestCount < IdSpace, RefineInv, [Next]_vars
  PROVE  RefineInv'
  <1>1. SentSound /\ Fresh /\ Accounted /\ HeldReady
    BY DEF RefineInv
  <1>2. SentSound'
    <2>1. \A n : Requesting(sent', n) => n \in 1..requestCount'
      <3>1. \A n : Requesting(Unsent, n) \/ Requesting(sent, n)
                    => n \in 1..requestCount
        BY <1>1, UnsentNumbered, ThreadsAssumption DEF SentSound, Requesting
      <3>2. \A t \in Threads : PushPayload(t) => serial[t] \in 1..requestCount
        BY DEF PushPayload, BarrierParts, CounterInv
      <3>3. 1..requestCount \subseteq 1..requestCount'
        BY CountGrows DEF TypeOK
      <3>4. QED
        BY <1>1, <3>1, <3>2, <3>3, RequestsConserved
    <2>2. \A i \in 1..Len(sent') : sent'[i].data # "none"
      BY <1>1, RequestsConserved
    <2>3. QED
      BY <2>1, <2>2 DEF SentSound, Requesting
  <1>3. Fresh'
    BY <1>1, FreshStep
  <1>4. Accounted'
    BY <1>1, AccountedStep
  <1>5. HeldReady'
    BY <1>1, HeldReadyStep
  <1>6. QED
    BY <1>2, <1>3, <1>4, <1>5 DEF RefineInv
-----------------------------------------------------------------------------
(* Every step is a step of the abstract queue, or none of it.               *)

\* A payload queued is a request queued, by its number, for the first time.
LEMMA PushIsQueue ==
  ASSUME ThreadsAssumption, IdsAssumption, TypeOK, BarrierParts, Fresh,
         requestCount < IdSpace, NEW t \in Threads, PushPayload(t)
  PROVE  \E n \in RequestIds : Serialized!Queue(n)
  <1> DEFINE n == serial[t]
  <1>1. pc[t] = "push" /\ n \in 1..requestCount
    BY DEF PushPayload, BarrierParts, CounterInv
  <1>2. n \in RequestIds /\ n \in Nat
    BY <1>1 DEF RequestIds, TypeOK, IdsAssumption
  <1>3. Unsent \in Seq(Payloads) /\ sent \in Seq(Payloads)
    BY UnsentTyped DEF TypeOK
  <1>4. /\ ~Serialized!Among(Pending, Serialized!Request(n))
        /\ ~Serialized!Among(HandedOver, Serialized!Request(n))
    BY <1>1, <1>2, <1>3, AmongAbstract DEF Fresh, Pending, HandedOver
  <1>5. Pending' = Append(Pending, Serialized!Request(n))
    <2>1. AbstractPayload(RequestPayload(Current(t))) = Serialized!Request(n)
      BY DEF AbstractPayload, RequestPayload, Current, Serialized!Request
    <2>2. /\ RequestPayload(Current(t)) \in Payloads
          /\ Unsent' = Append(Unsent, RequestPayload(Current(t)))
      BY CallsAppend
    <2>3. QED
      BY <1>3, <2>1, <2>2, AbstractAppend DEF Pending
  <1>6. HandedOver' = HandedOver /\ answered' = answered
    BY CallsAppend DEF HandedOver
  <1>7. QED
    BY <1>2, <1>4, <1>5, <1>6 DEF Serialized!Queue

\* A wait is queued for the request whose id the caller gave.
LEMMA WaitIsWaitFor ==
  ASSUME ThreadsAssumption, IdsAssumption, TypeOK, BarrierParts,
         requestCount < IdSpace, NEW t \in Threads,
         WaitForResponse(t) \/ WaitLate(t)
  PROVE  \E n \in RequestIds : Serialized!WaitFor(n)
  <1>1. PICK r \in RequestRef :
          /\ (r = Current(t) /\ pc[t] = "wait") \/ r \in returned
          /\ WaitPayload(r) \in Payloads
          /\ Unsent' = Append(Unsent, WaitPayload(r))
    BY CallsAppend
  <1>2. r.n \in 1..requestCount
    BY <1>1 DEF BarrierParts, CounterInv, RefsInv, Numbered, Current
  <1>3. r.n \in RequestIds
    BY <1>2, SMTT(30) DEF RequestIds, TypeOK, IdsAssumption
  <1>4. Pending' = Append(Pending, Serialized!Wait(r.n))
    <2>1. AbstractPayload(WaitPayload(r)) = Serialized!Wait(r.n)
      BY DEF AbstractPayload, WaitPayload, Serialized!Wait
    <2>2. Unsent \in Seq(Payloads)
      BY UnsentTyped
    <2>3. QED
      BY <1>1, <2>1, <2>2, AbstractAppend DEF Pending
  <1>5. HandedOver' = HandedOver /\ answered' = answered
    BY CallsAppend DEF HandedOver
  <1>6. QED
    BY <1>3, <1>4, <1>5 DEF Serialized!WaitFor

\* HandleReconnect authenticates ahead of what is pending, or does nothing.
LEMMA ReconnectIsAuthenticate ==
  ASSUME ThreadsAssumption, IdsAssumption, TypeOK,
         NEW t \in Threads, HandleReconnect(t)
  PROVE  Serialized!Authenticate \/ UNCHANGED Serialized!vars
  <1>1. /\ Unsent' = Unsent \/ Unsent' = <<AuthPayload>> \o Unsent
        /\ UNCHANGED <<sent, answered>>
    BY ReconnectPushesFront
  <1>2. AbstractPayloads(<<AuthPayload>> \o Unsent)
          = <<Serialized!Authentication>> \o Pending
    <2>1. AbstractPayload(AuthPayload) = Serialized!Authentication
      BY DEF AbstractPayload, AuthPayload, Serialized!Authentication
    <2>2. Unsent \in Seq(Payloads) /\ AuthPayload \in Payloads
      BY UnsentTyped, PayloadsTyped DEF TypeOK
    <2>3. QED
      BY <2>1, <2>2, AbstractPushFront DEF Pending
  <1>3. QED
    BY <1>1, <1>2 DEF Serialized!Authenticate, Serialized!vars, Pending, HandedOver

\* What the mapping loses is a run of waits for requests that were answered.
LEMMA DropIsForget ==
  ASSUME ThreadsAssumption, TypeOK, NEW done,
         NEW from \in 0..Len(Unsent), NEW k \in 0..Len(Unsent),
         from + k <= Len(Unsent), Unsent' \in Seq(Payloads),
         Len(Unsent') = Len(Unsent) - k,
         \A i \in 1..Len(Unsent') :
           LET p == Unsent[IF i <= from THEN i ELSE i + k]
           IN  Unsent'[i].data = p.data /\ Unsent'[i].n = p.n,
         \A i \in 1..k : /\ Unsent[from + i].data = "none"
                       /\ Unsent[from + i].n \in done
  PROVE  Serialized!Forget(done)
  <1>1. Unsent \in Seq(Payloads) /\ Len(Unsent) \in Nat
    BY UnsentTyped
  <1>2. Len(Pending) = Len(Unsent)
    BY <1>1, AbstractEach DEF Pending
  <1>3. \A i \in 1..k : Pending[from + i] = Serialized!Wait(Unsent[from + i].n)
    <2>1. \A i \in 1..k : from + i \in 1..Len(Unsent)
      BY <1>1
    <2>2. QED
      BY <1>1, <2>1, AbstractEach DEF Pending, AbstractPayload, Serialized!Wait
  <1>4. Pending' = [i \in 1..(Len(Pending) - k) |->
                      IF i <= from THEN Pending[i] ELSE Pending[i + k]]
    <2>1. Pending' = [i \in 1..(Len(Unsent) - k) |-> AbstractPayload(Unsent'[i])]
      BY DEF Pending, AbstractPayloads
    <2>2. ASSUME NEW i \in 1..(Len(Unsent) - k)
          PROVE  AbstractPayload(Unsent'[i])
                   = IF i <= from THEN Pending[i] ELSE Pending[i + k]
      <3>1. /\ (IF i <= from THEN i ELSE i + k) \in 1..Len(Unsent)
            /\ i \in 1..Len(Unsent')
        BY <1>1
      <3>2. Pending[IF i <= from THEN i ELSE i + k]
              = AbstractPayload(Unsent[IF i <= from THEN i ELSE i + k])
        BY <1>1, <3>1, AbstractEach DEF Pending
      <3>3. QED
        BY <3>1, <3>2 DEF AbstractPayload
    <2>3. QED
      BY <1>2, <2>1, <2>2
  <1>5. \A i \in 1..k : \E n \in done : Pending[from + i] = Serialized!Wait(n)
    BY <1>3
  <1>6. QED
    BY <1>2, <1>4, <1>5 DEF Serialized!Forget

\* SendPayload hands over what is first, or skips a wait that was answered.
LEMMA SendIsSend ==
  ASSUME ThreadsAssumption, OneDrainer, TypeOK, DrainersInv, BarrierParts,
         HeldReady, NEW t \in Threads, SendPayload(t)
  PROVE  Serialized!Send \/ Serialized!Skip
  <1> DEFINE p == held[Reconnector]
  <1>1. /\ t = Reconnector /\ p \in Payloads
        /\ Unsent # <<>> /\ Unsent[1] = p /\ Unsent' = Tail(Unsent)
        /\ sent' = IF p.data # "none" THEN Append(sent, p) ELSE sent
        /\ answered' = answered
    BY SendTakesFirst
  <1>2. /\ Unsent \in Seq(Payloads) /\ sent \in Seq(Payloads)
        /\ Len(Unsent) \in Nat \ {0}
    <2>1. Unsent \in Seq(Payloads) /\ sent \in Seq(Payloads)
      BY UnsentTyped DEF TypeOK
    <2>2. QED
      BY <1>1, <2>1
  <1>3. /\ Pending # <<>> /\ Pending[1] = AbstractPayload(p)
        /\ Pending' = Tail(Pending)
    <2>1. 1 \in 1..Len(Unsent) /\ Len(Pending) = Len(Unsent)
      BY <1>2, AbstractEach DEF Pending
    <2>2. Pending # <<>>
      BY <1>2, <2>1
    <2>3. QED
      BY <1>1, <1>2, <2>1, <2>2, AbstractEach, AbstractTail DEF Pending
  <1>4. CASE p.data # "none"
    <2>1. HandedOver' = Append(HandedOver, AbstractPayload(p))
      BY <1>1, <1>2, <1>4, AbstractAppend DEF HandedOver
    <2>2. AbstractPayload(p).kind # "wait"
      BY <1>1, <1>4 DEF AbstractPayload, Payloads
    <2>3. Serialized!Send
      BY <1>1, <1>3, <2>1, <2>2 DEF Serialized!Send
    <2>4. QED
      BY <2>3
  <1>5. CASE p.data = "none"
    <2>1. p.n \in answered
      <3>1. /\ Sound(p, requestCount, answered)
            /\ p.waitingForResponse = ANY_REQUEST_ID
        BY <1>1 DEF SendPayload, HeldReady, BarrierParts, HeldInv
      <3>2. QED
        BY <1>5, <3>1 DEF Sound
    <2>2. /\ Len(Unsent') = Len(Unsent) - 1 /\ Unsent' \in Seq(Payloads)
          /\ \A i \in 1..Len(Unsent') : Unsent'[i] = Unsent[i + 1] /\ ~(i <= 0)
      BY <1>1, <1>2
    <2>3. /\ 0 \in 0..Len(Unsent) /\ 1 \in 0..Len(Unsent)
          /\ 0 + 1 <= Len(Unsent) /\ 0 + 1 = 1
      BY <1>2
    <2>4. \A i \in 1..1 : Unsent[0 + i].data = "none" /\ Unsent[0 + i].n \in answered
      BY <1>1, <1>5, <2>1
    <2>5. Serialized!Forget(answered)
      BY <2>2, <2>3, <2>4, DropIsForget
    <2>6. HandedOver' = HandedOver
      BY <1>1, <1>5 DEF HandedOver
    <2>7. QED
      BY <1>1, <2>5, <2>6 DEF Serialized!Skip
  <1>6. QED
    BY <1>4, <1>5

\* A message answers what was handed over, or nothing; either way it forgets
\* waits whose answer has come.
LEMMA ReceiptIsRespondOrSkip ==
  ASSUME ThreadsAssumption, IdsAssumption, UpdateIdsAssumption, TypeOK,
         BarrierParts, requestCount < IdSpace, Accounted,
         ReceiveAnswer \/ ReceiveUpdate
  PROVE  Serialized!Skip \/ \E n \in RequestIds : Serialized!Respond(n)
  <1>1. Serialized!Forget(answered')
    BY ReceiptForgets, DropIsForget
  <1>2. HandedOver' = HandedOver
    BY ReceiptForgets DEF HandedOver
  <1>3. CASE answered' = answered
    BY <1>1, <1>2, <1>3 DEF Serialized!Skip
  <1>4. CASE \E m \in outstanding : answered' = answered \cup {m.n}
    <2>1. PICK m \in outstanding : answered' = answered \cup {m.n}
      BY <1>4
    <2>2. m.n \in 1..requestCount
      BY DEF BarrierParts, RefsInv, Numbered
    <2>3. m.n \in RequestIds /\ m.n \in Nat
      BY <2>2 DEF RequestIds, TypeOK, IdsAssumption
    <2>4. Serialized!Among(HandedOver, Serialized!Request(m.n))
      BY <2>3, AmongAbstract DEF Accounted, HandedOver, TypeOK
    <2>5. Serialized!Respond(m.n)
      BY <1>1, <1>2, <2>1, <2>4 DEF Serialized!Respond
    <2>6. QED
      BY <2>3, <2>5
  <1>5. QED
    BY <1>3, <1>4, ReceiptForgets

\* Every step of the queue is a step of the abstract queue or a stutter.
LEMMA StepSimulated ==
  ASSUME OneDrainer, TypeOK, BarrierParts, DrainersInv, RefineInv,
         requestCount < IdSpace, [Next]_vars
  PROVE  [Serialized!Next]_(Serialized!vars)
  <1> USE ThreadsAssumption, IdsAssumption, UpdateIdsAssumption
  <1>1. SentSound /\ Fresh /\ Accounted /\ HeldReady
    BY DEF RefineInv
  <1>2. ASSUME NEW t \in Threads, PushPayload(t)
        PROVE  Serialized!Next
    BY <1>1, <1>2, PushIsQueue DEF Serialized!Next
  <1>3. ASSUME NEW t \in Threads, WaitForResponse(t) \/ WaitLate(t)
        PROVE  Serialized!Next
    BY <1>3, WaitIsWaitFor DEF Serialized!Next
  <1>4. ASSUME NEW t \in Threads, HandleReconnect(t)
        PROVE  Serialized!Next \/ UNCHANGED Serialized!vars
    BY <1>4, ReconnectIsAuthenticate DEF Serialized!Next
  <1>5. ASSUME NEW t \in Threads, SendPayload(t)
        PROVE  Serialized!Next
    BY <1>1, <1>5, SendIsSend DEF Serialized!Next
  <1>6. ASSUME ReceiveAnswer \/ ReceiveUpdate
        PROVE  Serialized!Next
    BY <1>1, <1>6, ReceiptIsRespondOrSkip DEF Serialized!Next
  <1>7. ASSUME \/ \E t \in Threads : \/ BeginRequest(t) \/ StoreRequestId(t)
                                     \/ ReplaySubscription(t)
                                     \/ ForeachPayload(t) \/ EndForeach(t)
                                     \/ PopPayload(t)
               \/ Disconnect \/ Reconnect \/ UNCHANGED vars
        PROVE  UNCHANGED Serialized!vars
    <2>1. Unsent' = Unsent /\ UNCHANGED <<sent, answered>>
      BY <1>7, SilentSteps
    <2>2. QED
      BY <2>1 DEF Serialized!vars, Pending, HandedOver
  <1>8. QED
    BY <1>2, <1>3, <1>4, <1>5, <1>6, <1>7 DEF Next, Continue

\* When one thread makes the requests, drains and re-opens the connection, the
\* queue does nothing that SerializedRequests does not allow, until IdSpace
\* requests have been made: whichever thread receives, with answers in any
\* order, late waits, updates, lost connections and replays.
THEOREM Implementation ==
  ASSUME OneIssuer, OneDrainer
  PROVE  Spec /\ [](requestCount < IdSpace) => Serializes
  <1>1. Init => DrainersInv /\ RefineInv /\ Serialized!Init
    <2>1. SUFFICES ASSUME Init PROVE DrainersInv /\ RefineInv /\ Serialized!Init
      OBVIOUS
    <2>2. DrainersInv /\ RefineInv
      BY <2>1, ThreadsAssumption
      DEF Init, DrainersInv, RefineInv, SentSound, Fresh, Accounted, HeldReady,
          ThreadsAssumption
    <2>3. Unsent = <<>> /\ sent = <<>> /\ answered = {}
      BY <2>1, ThreadsAssumption DEF Init, Unsent, ThreadsAssumption
    <2>4. AbstractPayloads(<<>>) = <<>>
      BY DEF AbstractPayloads
    <2>5. QED
      BY <2>2, <2>3, <2>4 DEF Serialized!Init, Pending, HandedOver
  <1>2. TypeOK /\ DrainersInv /\ [Next]_vars => DrainersInv'
    BY DrainersStep
  <1>3. (/\ TypeOK /\ BarrierInv /\ DrainersInv /\ RefineInv
         /\ requestCount < IdSpace /\ [Next]_vars)
           => RefineInv' /\ [Serialized!Next]_(Serialized!vars)
    BY OneIssuer, OneDrainer, RefineStep, StepSimulated DEF BarrierInv
  <1>4. Spec => []TypeOK /\ []BarrierInv
    BY OneIssuer, TypeCorrect, BarrierInvariant, PTL
  <1>5. QED
    BY <1>1, <1>2, <1>3, <1>4, PTL DEF Spec, Serializes, Serialized!Spec
=============================================================================
