---------------------------- MODULE RequestQueue ----------------------------
(***************************************************************************)
(* The request queue of gamelink::SDK (src/gamelink.cpp, and the inline    *)
(* parts in include/gamelink.h): queuePayload, nextRequestId,              *)
(* WaitForResponse, ForeachPayload, the queue part of ReceiveMessage, and  *)
(* HandleReconnect, called by several threads and interrupted by the loss  *)
(* of the connection.                                                      *)
(*                                                                         *)
(* Abstracted: the text of a payload.  What is left of it is whether it is *)
(* a request, the authentication message of a reconnect, or empty (a       *)
(* wait), and which request it is.  External: the connection, the server   *)
(* (it answers any request it received, in any order, or loses it with the *)
(* connection) and the application's loop.                                 *)
(***************************************************************************)
EXTENDS Integers, Sequences

CONSTANTS
  Threads,        \* the threads that use the SDK
  Callers,        \* those that make API calls
  Drainers,       \* those that call ForeachPayload
  Receiver,       \* the one thread that calls ReceiveMessage
  Reconnector,    \* the thread that re-opens the connection
  IdSpace,        \* number of request ids: 128, from the mask 0x7F
  CounterSpace,   \* number of values of the uint16_t counter: 65536
  WaitCounts,     \* how often a caller may wait for the request it just made
  LateWaits,      \* whether callers also wait for requests made earlier
  UpdateIds,      \* request ids carried by messages that answer nothing
  MaxReplays,     \* bound: subscriptions replayed by one reconnect
  MaxRequests,    \* bound: requests made by callers
  MaxDisconnects  \* bound: losses of the connection

\* include/gamelink.h:41-44, the two ids that are never given to a request.
ANY_REQUEST_ID == CounterSpace - 1
REJECTED_REQUEST_ID == CounterSpace - 2

ASSUME ThreadsAssumption ==
  /\ Callers \subseteq Threads /\ Drainers \subseteq Threads
  /\ Receiver \in Threads /\ Reconnector \in Threads

ASSUME IdsAssumption ==
  /\ IdSpace \in Nat \ {0} /\ CounterSpace \in Nat
  /\ IdSpace <= REJECTED_REQUEST_ID

\* ParseEnvelope gives a message without a request_id the id 0
\* (schema/envelope.cpp:127); servers also send the 0xFFFF of no request.
ASSUME UpdateIdsAssumption == UpdateIds \subseteq {0, ANY_REQUEST_ID}

ASSUME BoundsAssumption ==
  /\ WaitCounts \subseteq Nat /\ LateWaits \in BOOLEAN
  /\ MaxReplays \in Nat /\ MaxRequests \in Nat /\ MaxDisconnects \in Nat

VARIABLES
  queuedPayloads,   \* _queuedPayloads, guarded by _lock
  currentRequestId, \* _currentRequestId, guarded by nothing
  storedRefresh,    \* whether _storedRefresh is not empty
  pc,               \* where each thread is
  reg,              \* the value of the counter each thread has read
  serial,           \* the request each thread is queueing
  waits,            \* WaitForResponse calls left in the thread's call
  replays,          \* subscriptions HandleReconnect has still to replay
  held,             \* the payload each drainer has popped and not yet sent
  link,             \* external: state of the connection
  disconnects,      \* external: losses of the connection so far
  outstanding,      \* external: requests the server has yet to answer
  requestCount,     \* history: requests made so far
  waitedFor,        \* history: requests some caller has waited for
  returned,         \* history: request ids given back to callers
  answered,         \* history: requests whose answer has been received
  sent,             \* history: payloads given to the network, in order
  linkStart         \* history: how many of them before this connection

queueVars == <<queuedPayloads, currentRequestId, storedRefresh>>
callVars == <<reg, serial, waits, replays>>
netVars == <<link, disconnects, outstanding, linkStart>>
historyVars == <<requestCount, waitedFor, returned, answered, sent>>
vars == <<queueVars, pc, callVars, held, netVars, historyVars>>
-----------------------------------------------------------------------------
(* Payloads: a request with its id, the waits its callers had made before  *)
(* it was queued, and what it waits for itself (ANY: nothing).  The data   *)
(* of a wait is the empty string, here "none".                             *)

\* A payload holding the text of request r.
RequestPayload(r) ==
  [data |-> "request", waitingForResponse |-> ANY_REQUEST_ID,
   id |-> r.id, n |-> r.n, after |-> waitedFor]

\* The empty payload of WaitForResponse(r.id), meant for request r.n.
WaitPayload(r) ==
  [data |-> "none", waitingForResponse |-> r.id,
   id |-> ANY_REQUEST_ID, n |-> r.n, after |-> {}]

\* The authentication request of HandleReconnect; it takes no id.
AuthPayload ==
  [data |-> "auth", waitingForResponse |-> ANY_REQUEST_ID,
   id |-> ANY_REQUEST_ID, n |-> 0, after |-> {}]

\* A wait whose response came in: it stays queued only to be skipped.
Cleared(p) == p.data = "none" /\ p.waitingForResponse = ANY_REQUEST_ID
-----------------------------------------------------------------------------
Init ==
  /\ queuedPayloads = <<>>
  /\ currentRequestId = 1
  /\ storedRefresh = FALSE
  /\ pc = [t \in Threads |-> "idle"]
  /\ reg = [t \in Threads |-> 0]
  /\ serial = [t \in Threads |-> 0]
  /\ waits = [t \in Threads |-> 0]
  /\ replays = [t \in Threads |-> 0]
  /\ held = [t \in Threads |-> AuthPayload]
  /\ link = "first" /\ disconnects = 0 /\ outstanding = {} /\ linkStart = 0
  /\ requestCount = 0 /\ waitedFor = {} /\ returned = {} /\ answered = {}
  /\ sent = <<>>

Goto(t, where) == pc' = [pc EXCEPT ![t] = where]
-----------------------------------------------------------------------------
(* queuePayload: nextRequestId's `_currentRequestId++ & 0x7F` is a load and *)
(* a store, both outside the lock; the push is under the lock.              *)

\* The load of nextRequestId, and with it a new request of thread t.
LoadRequestId(t) ==
  /\ reg' = [reg EXCEPT ![t] = currentRequestId]
  /\ serial' = [serial EXCEPT ![t] = requestCount + 1]
  /\ requestCount' = requestCount + 1
  /\ Goto(t, "store")

\* A caller makes a request, and will wait for it some number of times.
BeginRequest(t) ==
  /\ t \in Callers /\ pc[t] = "idle" /\ requestCount < MaxRequests
  /\ \E k \in WaitCounts : waits' = [waits EXCEPT ![t] = k]
  /\ LoadRequestId(t)
  /\ UNCHANGED <<queueVars, replays, held, netVars, waitedFor, returned,
                 answered, sent>>

StoreRequestId(t) ==
  /\ pc[t] = "store"
  /\ currentRequestId' = (reg[t] + 1) % CounterSpace
  /\ Goto(t, "push")
  /\ UNCHANGED <<queuedPayloads, storedRefresh, callVars, held, netVars,
                 historyVars>>

\* The id and the request thread t is queueing.
Current(t) == [id |-> reg[t] % IdSpace, n |-> serial[t]]

\* The push, and the return of the id to the caller.
PushPayload(t) ==
  /\ pc[t] = "push"
  /\ queuedPayloads' = Append(queuedPayloads, RequestPayload(Current(t)))
  /\ returned' = returned \cup {Current(t)}
  /\ Goto(t, IF waits[t] > 0 THEN "wait"
             ELSE IF replays[t] > 0 THEN "replay" ELSE "idle")
  /\ UNCHANGED <<currentRequestId, storedRefresh, callVars, held, netVars,
                 requestCount, waitedFor, answered, sent>>
-----------------------------------------------------------------------------
(* WaitForResponse                                                          *)

PushWait(r) ==
  /\ queuedPayloads' = Append(queuedPayloads, WaitPayload(r))
  /\ waitedFor' = waitedFor \cup {r.n}

\* Mutant: one wait too many.
WaitForResponseOffByOne(t) ==
  /\ pc[t] = "wait"
  /\ PushWait(Current(t))
  /\ waits' = [waits EXCEPT ![t] = @ - 1]
  /\ Goto(t, IF waits[t] >= 1 THEN "wait" ELSE "idle")
  /\ UNCHANGED <<currentRequestId, storedRefresh, reg, serial, replays, held,
                 netVars, requestCount, returned, answered, sent>>

\* The idiom of the documentation: id = DeletePoll(); WaitForResponse(id).
WaitForResponse(t) ==
  /\ pc[t] = "wait"
  /\ PushWait(Current(t))
  /\ waits' = [waits EXCEPT ![t] = @ - 1]
  /\ Goto(t, IF waits[t] > 1 THEN "wait" ELSE "idle")
  /\ UNCHANGED <<currentRequestId, storedRefresh, reg, serial, replays, held,
                 netVars, requestCount, returned, answered, sent>>

\* A caller waits for a request some caller made at any earlier time.
WaitLate(t) ==
  /\ LateWaits /\ t \in Callers /\ pc[t] = "idle"
  /\ \E r \in returned :
       /\ \A i \in DOMAIN queuedPayloads :   \* bound: one such wait queued
            queuedPayloads[i].n = r.n => queuedPayloads[i].data # "none"
       /\ PushWait(r)
  /\ UNCHANGED <<currentRequestId, storedRefresh, pc, callVars, held, netVars,
                 requestCount, returned, answered, sent>>
-----------------------------------------------------------------------------
(* ForeachPayload: pop under the lock, call the network without it.         *)

\* Mutant: a wait at the front does not stop the queue.
HasPayloadsIgnoringWaits == queuedPayloads # <<>>

HasPayloadsNoLock ==
  /\ queuedPayloads # <<>>
  /\ Head(queuedPayloads).waitingForResponse = ANY_REQUEST_ID

\* The application's loop drains while it has a connection it may use; the
\* thread that re-opens the connection calls HandleReconnect first.
ForeachPayload(t) ==
  /\ t \in Drainers /\ pc[t] = "idle" /\ HasPayloadsNoLock
  /\ link # "down" /\ (link = "fresh" => t # Reconnector)
  /\ Goto(t, "drain")
  /\ UNCHANGED <<queueVars, callVars, held, netVars, historyVars>>

\* Mutant: what HasPayloads saw before the lock is not checked again under it.
PopPayloadUnchecked(t) ==
  /\ pc[t] = "drain" /\ queuedPayloads # <<>>
  /\ queuedPayloads' = Tail(queuedPayloads)
  /\ held' = [held EXCEPT ![t] = Head(queuedPayloads)]
  /\ Goto(t, "send")
  /\ UNCHANGED <<currentRequestId, storedRefresh, callVars, netVars,
                 historyVars>>

PopPayload(t) ==
  /\ pc[t] = "drain" /\ HasPayloadsNoLock
  /\ queuedPayloads' = Tail(queuedPayloads)
  /\ held' = [held EXCEPT ![t] = Head(queuedPayloads)]
  /\ Goto(t, "send")
  /\ UNCHANGED <<currentRequestId, storedRefresh, callVars, netVars,
                 historyVars>>

\* networkCallback, for a payload that is not empty.  What is sent while the
\* connection is down is lost.
SendPayload(t) ==
  /\ pc[t] = "send"
  /\ sent' = IF held[t].data # "none" THEN Append(sent, held[t]) ELSE sent
  /\ outstanding' = IF held[t].data = "request" /\ link # "down"
                    THEN outstanding \cup {[id |-> held[t].id, n |-> held[t].n]}
                    ELSE outstanding
  /\ Goto(t, "drain")
  /\ UNCHANGED <<queueVars, callVars, held, link, disconnects, linkStart,
                 requestCount, waitedFor, returned, answered>>

EndForeach(t) ==
  /\ pc[t] = "drain" /\ ~HasPayloadsNoLock
  /\ Goto(t, "idle")
  /\ UNCHANGED <<queueVars, callVars, held, netVars, historyVars>>
-----------------------------------------------------------------------------
(* ReceiveMessage: what a parsed message with request id r does to the      *)
(* queue, in one critical section.                                          *)

\* Mutant: the first wait for r is cleared, further ones are not.
ClearFirstWait(q, r) ==
  [i \in DOMAIN q |->
     IF /\ q[i].waitingForResponse = r /\ r # ANY_REQUEST_ID
        /\ \A j \in 1..(i - 1) : q[j].waitingForResponse # r
     THEN [q[i] EXCEPT !.waitingForResponse = ANY_REQUEST_ID]
     ELSE q[i]]

\* Every wait for r, wherever it is in the queue, stops waiting.
ClearWaits(q, r) ==
  [i \in DOMAIN q |->
     IF q[i].waitingForResponse = r /\ r # ANY_REQUEST_ID
     THEN [q[i] EXCEPT !.waitingForResponse = ANY_REQUEST_ID]
     ELSE q[i]]

\* Mutant: the test that the payload is empty is missing.
IsFrontRunOfAny(q, k) ==
  /\ k \in 0..Len(q)
  /\ \A i \in 1..k : q[i].waitingForResponse = ANY_REQUEST_ID
  /\ k < Len(q) => q[k + 1].waitingForResponse # ANY_REQUEST_ID

\* k is the length of the run of cleared waits at the front of q.
IsFrontRun(q, k) ==
  /\ k \in 0..Len(q)
  /\ \A i \in 1..k : Cleared(q[i])
  /\ k < Len(q) => ~Cleared(q[k + 1])

ReceiveMessage(r) ==
  LET q == ClearWaits(queuedPayloads, r)
  IN  \E k \in 0..Len(q) :
        /\ IsFrontRun(q, k)
        /\ queuedPayloads' = SubSeq(q, k + 1, Len(q))

\* The answer to request m, which the server drops from its list.  The first
\* request is the application's authentication: a good answer to it leaves a
\* refresh token (src/gamelink.cpp:368-392).  The code stores it a little after
\* the queue has been dealt with, on the same thread; nothing that happens in
\* between reads it but HandleReconnect, which may also find it not there yet.
ReceiveAnswer ==
  /\ pc[Receiver] = "idle" /\ link # "down"
  /\ \E m \in outstanding :
       /\ ReceiveMessage(m.id)
       /\ outstanding' = outstanding \ {m}
       /\ answered' = answered \cup {m.n}
       /\ storedRefresh' \in {storedRefresh, storedRefresh \/ m.n = 1}
  /\ UNCHANGED <<currentRequestId, pc, callVars, held, link, disconnects,
                 linkStart, requestCount, waitedFor, returned, sent>>

\* An update, or the answer to the authentication of a reconnect.
ReceiveUpdate ==
  /\ pc[Receiver] = "idle" /\ link # "down"
  /\ \E r \in UpdateIds : ReceiveMessage(r)
  /\ UNCHANGED <<currentRequestId, storedRefresh, pc, callVars, held, netVars,
                 historyVars>>
-----------------------------------------------------------------------------
(* The connection, and HandleReconnect.                                     *)

\* External.  The server forgets what it has not answered.
Disconnect ==
  /\ link # "down" /\ disconnects < MaxDisconnects
  /\ link' = "down" /\ disconnects' = disconnects + 1
  /\ outstanding' = {}
  /\ UNCHANGED <<queueVars, pc, callVars, held, linkStart, historyVars>>

\* External.  The application opens a new connection.
Reconnect ==
  /\ link = "down" /\ pc[Reconnector] = "idle"
  /\ link' = "fresh" /\ linkStart' = Len(sent)
  /\ UNCHANGED <<queueVars, pc, callVars, held, disconnects, outstanding,
                 historyVars>>

\* Mutant: the authentication goes to the back of the queue.
HandleReconnectPushBack(t) ==
  /\ t = Reconnector /\ pc[t] = "idle" /\ link = "fresh"
  /\ \/ /\ ~storedRefresh
        /\ link' = "first"
        /\ UNCHANGED <<queuedPayloads, replays, pc>>
     \/ /\ storedRefresh
        /\ link' = "resumed"
        /\ queuedPayloads' = Append(queuedPayloads, AuthPayload)
        /\ \E k \in 0..MaxReplays :
             /\ replays' = [replays EXCEPT ![t] = k]
             /\ Goto(t, IF k > 0 THEN "replay" ELSE "idle")
  /\ UNCHANGED <<currentRequestId, storedRefresh, reg, serial, waits, held,
                 disconnects, outstanding, linkStart, historyVars>>

\* Mutant: the queue starts anew.
HandleReconnectClearing(t) ==
  /\ t = Reconnector /\ pc[t] = "idle" /\ link = "fresh"
  /\ \/ /\ ~storedRefresh
        /\ link' = "first"
        /\ UNCHANGED <<queuedPayloads, replays, pc>>
     \/ /\ storedRefresh
        /\ link' = "resumed"
        /\ queuedPayloads' = <<AuthPayload>>
        /\ \E k \in 0..MaxReplays :
             /\ replays' = [replays EXCEPT ![t] = k]
             /\ Goto(t, IF k > 0 THEN "replay" ELSE "idle")
  /\ UNCHANGED <<currentRequestId, storedRefresh, reg, serial, waits, held,
                 disconnects, outstanding, linkStart, historyVars>>

\* With a refresh token: authenticate ahead of everything queued, then replay
\* the active subscriptions (some number of them) behind it.  Without: nothing.
HandleReconnect(t) ==
  /\ t = Reconnector /\ pc[t] = "idle" /\ link = "fresh"
  /\ \/ /\ ~storedRefresh
        /\ link' = "first"
        /\ UNCHANGED <<queuedPayloads, replays, pc>>
     \/ /\ storedRefresh
        /\ link' = "resumed"
        /\ queuedPayloads' = <<AuthPayload>> \o queuedPayloads
        /\ \E k \in 0..MaxReplays :
             /\ replays' = [replays EXCEPT ![t] = k]
             /\ Goto(t, IF k > 0 THEN "replay" ELSE "idle")
  /\ UNCHANGED <<currentRequestId, storedRefresh, reg, serial, waits, held,
                 disconnects, outstanding, linkStart, historyVars>>

\* queuePayload of the next subscription.
ReplaySubscription(t) ==
  /\ pc[t] = "replay"
  /\ replays' = [replays EXCEPT ![t] = @ - 1]
  /\ LoadRequestId(t)
  /\ UNCHANGED <<queueVars, waits, held, netVars, waitedFor, returned,
                 answered, sent>>
-----------------------------------------------------------------------------
\* What thread t does once it has entered an SDK function.
Continue(t) ==
  \/ StoreRequestId(t) \/ PushPayload(t) \/ WaitForResponse(t)
  \/ PopPayload(t) \/ SendPayload(t) \/ EndForeach(t)
  \/ ReplaySubscription(t)

Next ==
  \/ \E t \in Threads : \/ BeginRequest(t) \/ WaitLate(t)
                        \/ ForeachPayload(t) \/ HandleReconnect(t)
                        \/ Continue(t)
  \/ ReceiveAnswer \/ ReceiveUpdate
  \/ Disconnect \/ Reconnect

\* A thread finishes the function it is in; the loop keeps draining,
\* receiving, and re-opening the connection; the server answers.
Fairness ==
  /\ \A t \in Threads : WF_vars(Continue(t)) /\ WF_vars(ForeachPayload(t))
  /\ WF_vars(ReceiveAnswer)
  /\ WF_vars(Reconnect) /\ WF_vars(HandleReconnect(Reconnector))

Spec == Init /\ [][Next]_vars
FairSpec == Spec /\ Fairness
-----------------------------------------------------------------------------
RequestIds == 0..(IdSpace - 1)
RequestRef == [id : RequestIds \cup {ANY_REQUEST_ID}, n : Nat]

Payloads ==
  [data : {"request", "auth", "none"},
   waitingForResponse : RequestIds \cup {ANY_REQUEST_ID},
   id : RequestIds \cup {ANY_REQUEST_ID}, n : Nat, after : SUBSET Nat]

\* Every variable has the type its declaration in the code gives it.
TypeOK ==
  /\ queuedPayloads \in Seq(Payloads)
  /\ currentRequestId \in 0..(CounterSpace - 1)
  /\ storedRefresh \in BOOLEAN
  /\ pc \in [Threads -> {"idle", "store", "push", "wait", "replay", "drain",
                         "send"}]
  /\ reg \in [Threads -> 0..(CounterSpace - 1)]
  /\ serial \in [Threads -> Nat]
  /\ waits \in [Threads -> Nat] /\ replays \in [Threads -> Nat]
  /\ held \in [Threads -> Payloads]
  /\ link \in {"first", "down", "fresh", "resumed"}
  /\ disconnects \in Nat /\ linkStart \in Nat
  /\ outstanding \subseteq RequestRef /\ returned \subseteq RequestRef
  /\ requestCount \in Nat
  /\ waitedFor \subseteq Nat /\ answered \subseteq Nat
  /\ sent \in Seq(Payloads)

\* A payload that was handed to the network was queued after waits that have
\* all been resolved by the very answer they were made for: the serializing
\* WaitForResponse is for (include/gamelink.h:694-700).  It rests on the ids
\* of nextRequestId, the pops of ForeachPayload, and what ReceiveMessage
\* clears.
Barrier == \A i \in DOMAIN sent : sent[i].after \subseteq answered

\* The same, for as long as the seven bits of a request id have not wrapped.
BarrierBeforeWrap == requestCount < IdSpace => Barrier

\* After HandleReconnect with a refresh token, the first payload the network
\* gets on the new connection is the authentication, whatever was queued,
\* waited for or being drained when the old one was lost
\* (include/gamelink.h:591-594).
AuthFirst ==
  link = "resumed" /\ Len(sent) > linkStart => sent[linkStart + 1].data = "auth"

\* No wait is left in the queue for a request that has been answered: nothing
\* would ever clear it, and the queue behind it would be stuck
\* (src/gamelink.cpp:316-338).
NoOrphanWait ==
  \A i \in DOMAIN queuedPayloads :
    queuedPayloads[i].data = "none" /\ ~Cleared(queuedPayloads[i])
      => queuedPayloads[i].n \notin answered

Queued(n) ==
  \E i \in DOMAIN queuedPayloads : /\ queuedPayloads[i].data = "request"
                                   /\ queuedPayloads[i].n = n
Sent(n) == \E i \in DOMAIN sent : sent[i].data = "request" /\ sent[i].n = n
AllRequests == 1..(MaxRequests + MaxReplays * MaxDisconnects)

\* A wait whose answer cannot come any more: it came before the wait was queued,
\* or was lost with a connection.
Orphan(p) ==
  /\ p.data = "none" /\ ~Cleared(p) /\ Sent(p.n)
  /\ \A m \in outstanding : m.n # p.n

\* Request n is queued behind such a wait.
BehindOrphan(n) ==
  \E i, j \in DOMAIN queuedPayloads :
    /\ i < j /\ Orphan(queuedPayloads[i])
    /\ queuedPayloads[j].data = "request" /\ queuedPayloads[j].n = n

\* Every queued request is eventually given to the network: cleared waits,
\* skipped payloads and the authentication of a reconnect delay it, and no more.
\* Whatever threads drain, wait (also late) and lose the connection, only a wait
\* ahead of it whose answer cannot come keeps it back for ever.
OnlyOrphansBlock ==
  \A n \in AllRequests : Queued(n) ~> (Sent(n) \/ BehindOrphan(n))

\* "After a handle reconnect, stuff works, even if there were API calls between
\* the reconnect and disconnect" (test/integration.cpp:243): what is queued on
\* the new connection goes out.
WorksAfterReconnect ==
  \A n \in AllRequests : (link = "resumed" /\ Queued(n)) ~> Sent(n)
=============================================================================
