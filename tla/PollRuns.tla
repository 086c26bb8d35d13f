------------------------------ MODULE PollRuns ------------------------------
(***************************************************************************)
(* SDK::RunPoll (src/gamelink_poll.cpp:113-162) and SDK::RunMatchPoll      *)
(* (src/gamelink_matches.cpp:41-101): the calls that reset a poll on the   *)
(* server, listen to it, and stop listening when it has expired.  They put *)
(* together the request queue with its waits, the subscription sets and    *)
(* the named callbacks of an event.                                        *)
(*                                                                         *)
(* One thread calls the SDK, drains its queue and receives, as the         *)
(* examples do; a finish callback may call the SDK too.  The queue is that *)
(* of SerializedRequests: here a wait names its request, not its id.       *)
(*                                                                         *)
(* Abstracted: prompts, options and results.  External: the server, which  *)
(* works on the requests it has in any order (what WaitForResponse is for, *)
(* include/gamelink.h:695-699), and answers over one ordered connection.   *)
(***************************************************************************)
EXTENDS Integers, Sequences, SequencesExt

CONSTANTS
  Polls,         \* the polls: a poll id, or a match id with a poll id
  MatchPolls,    \* those of RunMatchPoll
  CallbackName,  \* CallbackName[p]: the name of p's callback
  Topic,         \* Topic[p]: the subscription p's updates come with
  Restarts,      \* whether a finish callback runs its poll again
  MaxRuns,       \* bound: calls of RunPoll and RunMatchPoll
  MaxUpdates     \* bound: updates sent by the server

ASSUME PollsAssumption ==
  /\ MatchPolls \subseteq Polls /\ Restarts \in BOOLEAN
  /\ DOMAIN CallbackName = Polls /\ DOMAIN Topic = Polls
  /\ MaxRuns \in Nat /\ MaxUpdates \in Nat

VARIABLES
  sdk,        \* the state of the SDK, a record:
              \*   queue       what is to be sent, and the waits
              \*   requests    number of requests made
              \*   registered  topics of the active subscriptions
              \*   runs        RunPoll and RunMatchPoll calls, with the callback
              \*               each has added and its hasCalledOnFinish
  inbox,      \* external: requests the server is working on
  poll,       \* external: the polls of the server
  subscribed, \* external: topics the server sends updates of
  wire,       \* external: messages on their way to the SDK, oldest first
  updates,    \* external: updates sent so far
  calls       \* history: callbacks called

serverVars == <<inbox, poll, subscribed, wire, updates>>
vars == <<sdk, serverVars, calls>>

Absent == [run |-> 0, status |-> "absent"]

Init ==
  /\ sdk = [queue |-> <<>>, requests |-> 0, registered |-> {}, runs |-> <<>>]
  /\ inbox = {} /\ subscribed = {} /\ wire = <<>> /\ updates = 0
  /\ poll = [p \in Polls |-> Absent]
  /\ calls = <<>>
-----------------------------------------------------------------------------
(* Functions of the SDK, from the state before to the state after.          *)

\* Mutant: the request is not counted.
QueuedUncounted(s, op, r) ==
  [s EXCEPT !.queue = Append(@, [op |-> op, run |-> r, n |-> s.requests + 1])]

\* queuePayload of a request of run r.
Queued(s, op, r) ==
  [s EXCEPT !.requests = @ + 1,
            !.queue = Append(@, [op |-> op, run |-> r, n |-> s.requests + 1])]

WaitForResponse(s, n) ==
  [s EXCEPT !.queue = Append(@, [op |-> "wait", run |-> 0, n |-> n])]

SubscribeToPoll(s, r) ==
  LET topic == Topic[s.runs[r].poll]
  IN  IF topic \in s.registered THEN s
      ELSE [Queued(s, "subscribe", r) EXCEPT !.registered = @ \cup {topic}]

UnsubscribeFromPoll(s, r) ==
  Queued([s EXCEPT !.registered = @ \ {Topic[s.runs[r].poll]}], "unsubscribe", r)

RemoveByName(s, name) ==
  [s EXCEPT !.runs = [i \in DOMAIN @ |->
     IF CallbackName[@[i].poll] = name /\ @[i].handler = "live"
     THEN [@[i] EXCEPT !.handler = "removed"] ELSE @[i]]]

\* Mutant: Add instead of AddUnique.
AddToNamesakes(s, r) == [s EXCEPT !.runs[r].handler = "live"]

AddUnique(s, r) ==
  [RemoveByName(s, CallbackName[s.runs[r].poll]) EXCEPT !.runs[r].handler = "live"]

\* A call for poll p begins; ok says whether VerifyPollLimits will accept it.
Begun(s, p, ok) ==
  [s EXCEPT !.runs = Append(@, [poll |-> p, created |-> ok, handler |-> "none",
                                finished |-> FALSE])]

\* Mutant: the wait for the unsubscription is missing.
RunPollWaitingOnce(s, p, ok) ==
  LET r == Len(s.runs) + 1
      reset == UnsubscribeFromPoll(Queued(Begun(s, p, ok), "delete", r), r)
      heard == SubscribeToPoll(WaitForResponse(reset, reset.requests - 1), r)
  IN  AddUnique(IF ok THEN Queued(heard, "create", r) ELSE heard, r)

\* A poll that is refused by VerifyPollLimits is not created, but all the rest
\* is done.
RunPoll(s, p, ok) ==
  LET r == Len(s.runs) + 1
      reset == UnsubscribeFromPoll(Queued(Begun(s, p, ok), "delete", r), r)
      waited == WaitForResponse(WaitForResponse(reset, reset.requests - 1),
                                reset.requests)
      heard == SubscribeToPoll(waited, r)
  IN  AddUnique(IF ok THEN Queued(heard, "create", r) ELSE heard, r)

\* The subscription is not registered, and a refused poll gets no callback.
RunMatchPoll(s, p, ok) ==
  LET r == Len(s.runs) + 1
      deleted == Queued(Begun(s, p, ok), "delete", r)
      subscribing == Queued(WaitForResponse(deleted, deleted.requests),
                            "subscribe", r)
      waited == WaitForResponse(subscribing, subscribing.requests)
  IN  IF ok THEN AddUnique(Queued(waited, "create", r), r) ELSE waited

Run(s, p, ok) == IF p \in MatchPolls THEN RunMatchPoll(s, p, ok) ELSE RunPoll(s, p, ok)

\* Mutant: the callback keeps listening after the poll has expired.
RetiredNever(s, r) == s

\* What the callback of run r does after onFinishCallback has returned.
Retired(s, r) ==
  LET unheard == IF s.runs[r].poll \in MatchPolls
                 THEN Queued(s, "unsubscribe", r) ELSE UnsubscribeFromPoll(s, r)
  IN  [RemoveByName(unheard, CallbackName[s.runs[r].poll])
         EXCEPT !.runs[r].finished = TRUE]
-----------------------------------------------------------------------------
(* The application.                                                         *)

\* Requests for poll p that have not been answered.
Unanswered(p) ==
  LET open == Range(sdk.queue) \cup inbox
      answering == {m \in Range(wire) : m.kind = "answer"}
  IN  {m \in open \cup answering : m.run # 0 /\ sdk.runs[m.run].poll = p}

\* It starts a poll again only when what it asked for p has been answered: the
\* server might else do a delete after a later create, as RunPoll waits for its
\* own requests only.
StartPoll(p) ==
  /\ Len(sdk.runs) < MaxRuns /\ Unanswered(p) = {}
  /\ \E ok \in BOOLEAN : sdk' = Run(sdk, p, ok)
  /\ UNCHANGED <<serverVars, calls>>

\* A wait whose response came in: it stays queued only to be skipped.
Cleared(m) == m.op = "wait" /\ m.n = 0

\* ForeachPayload, one payload at a time.
SendRequest ==
  /\ sdk.queue # <<>> /\ Head(sdk.queue).op # "wait"
  /\ sdk' = [sdk EXCEPT !.queue = Tail(@)]
  /\ inbox' = inbox \cup {Head(sdk.queue)}
  /\ UNCHANGED <<poll, subscribed, wire, updates, calls>>

SkipWait ==
  /\ sdk.queue # <<>> /\ Cleared(Head(sdk.queue))
  /\ sdk' = [sdk EXCEPT !.queue = Tail(@)]
  /\ UNCHANGED <<serverVars, calls>>
-----------------------------------------------------------------------------
(* External: the server.                                                    *)

Update(p) == [kind |-> "update", poll |-> p, status |-> poll'[p].status]

\* It does one of the requests it has, and answers.
Serve(m) ==
  LET p == sdk.runs[m.run].poll
  IN  /\ inbox' = inbox \ {m}
      /\ wire' = Append(wire, [kind |-> "answer", run |-> m.run, n |-> m.n])
      /\ poll' = CASE m.op = "delete" -> [poll EXCEPT ![p] = Absent]
                   [] m.op = "create" ->
                        [poll EXCEPT ![p] = [run |-> m.run, status |-> "active"]]
                   [] OTHER -> poll
      /\ subscribed' = CASE m.op = "subscribe" -> subscribed \cup {Topic[p]}
                         [] m.op = "unsubscribe" -> subscribed \ {Topic[p]}
                         [] OTHER -> subscribed
      /\ UNCHANGED <<sdk, updates, calls>>

\* A poll gets votes, or expires, or its end is announced again.
Announce(p) ==
  /\ poll[p].status # "absent" /\ updates < MaxUpdates
  /\ \/ UNCHANGED poll
     \/ poll' = [poll EXCEPT ![p].status = "expired"]
  /\ updates' = updates + 1
  /\ wire' = IF Topic[p] \in subscribed THEN Append(wire, Update(p)) ELSE wire
  /\ UNCHANGED <<sdk, inbox, subscribed, calls>>
-----------------------------------------------------------------------------
(* ReceiveMessage.                                                          *)

\* Every wait for request n, wherever it is in the queue, stops waiting.
ClearWaits(q, n) ==
  [i \in DOMAIN q |-> IF q[i].op = "wait" /\ q[i].n = n
                      THEN [q[i] EXCEPT !.n = 0] ELSE q[i]]

\* Waits that are cleared at the front leave the queue, here k of them.
ReceiveAnswer ==
  LET q == ClearWaits(sdk.queue, Head(wire).n)
  IN  /\ wire # <<>> /\ Head(wire).kind = "answer" /\ wire' = Tail(wire)
      /\ \E k \in 0..Len(q) :
           /\ \A i \in 1..k : Cleared(q[i])
           /\ k < Len(q) => ~Cleared(q[k + 1])
           /\ sdk' = [sdk EXCEPT !.queue = SubSeq(q, k + 1, Len(q))]
      /\ UNCHANGED <<inbox, poll, subscribed, updates, calls>>

\* Callbacks of poll p that will be called.
Listening(p) ==
  {r \in DOMAIN sdk.runs : sdk.runs[r].poll = p /\ sdk.runs[r].handler = "live"}

Called(kind, r) == calls' = Append(calls, [kind |-> kind, run |-> r])

\* The update of an event is dropped when nobody listens.
ReceiveUnheard ==
  /\ wire # <<>> /\ Head(wire).kind = "update" /\ Listening(Head(wire).poll) = {}
  /\ wire' = Tail(wire)
  /\ UNCHANGED <<sdk, inbox, poll, subscribed, updates, calls>>

ReceiveUpdate ==
  /\ wire # <<>> /\ Head(wire).kind = "update" /\ Head(wire).status = "active"
  /\ wire' = Tail(wire)
  /\ \E r \in Listening(Head(wire).poll) : Called("update", r)
  /\ UNCHANGED <<sdk, inbox, poll, subscribed, updates>>

\* onFinishCallback, which may run its poll again, and then the rest of the
\* callback that calls it.
ReceiveFinish ==
  /\ wire # <<>> /\ Head(wire).kind = "update" /\ Head(wire).status = "expired"
  /\ wire' = Tail(wire)
  /\ \E r \in Listening(Head(wire).poll) :
       /\ ~sdk.runs[r].finished
       /\ Called("finish", r)
       /\ \/ sdk' = Retired(sdk, r)
          \/ /\ Restarts /\ Len(sdk.runs) < MaxRuns
             /\ sdk' = Retired(Run(sdk, sdk.runs[r].poll, TRUE), r)
  /\ UNCHANGED <<inbox, poll, subscribed, updates>>

Next ==
  \/ \E p \in Polls : StartPoll(p) \/ Announce(p)
  \/ SendRequest \/ SkipWait \/ \E m \in inbox : Serve(m)
  \/ ReceiveAnswer \/ ReceiveUnheard \/ ReceiveUpdate \/ ReceiveFinish

Spec == Init /\ [][Next]_vars
-----------------------------------------------------------------------------
Operations == {"delete", "unsubscribe", "subscribe", "create"}

\* Every variable has its type, and requests are numbered 1, 2, ...
TypeOK ==
  /\ Range(sdk.queue) \subseteq
       [op : Operations, run : 1..MaxRuns, n : 1..sdk.requests]
       \cup [op : {"wait"}, run : {0}, n : 0..sdk.requests]
  /\ inbox \subseteq [op : Operations, run : 1..MaxRuns, n : 1..sdk.requests]
  /\ sdk.registered \cup subscribed \subseteq Range(Topic)
  /\ Range(sdk.runs) \subseteq
       [poll : Polls, created : BOOLEAN, handler : {"none", "live", "removed"},
        finished : BOOLEAN]
  /\ poll \in [Polls -> [run : 0..MaxRuns,
                         status : {"absent", "active", "expired"}]]
  /\ Range(wire) \subseteq
       [kind : {"answer"}, run : 1..MaxRuns, n : 1..sdk.requests]
       \cup [kind : {"update"}, poll : Polls, status : {"active", "expired"}]
  /\ Range(calls) \subseteq [kind : {"update", "finish"}, run : 1..MaxRuns]
  /\ updates \in 0..MaxUpdates

LastRun(p) == {r \in DOMAIN sdk.runs :
                 /\ sdk.runs[r].poll = p
                 /\ \A i \in DOMAIN sdk.runs : sdk.runs[i].poll = p => i <= r}

\* A poll that was accepted, has not been run again and has not called its
\* finish callback will call it: once its requests are done, the server has that
\* poll, sends its updates, and the callback is there ("The finish callback is
\* called after the poll is moved into the 'expired' state",
\* include/gamelink.h:1048).  It needs each of the two waits of RunPoll.
Heard ==
  \A p \in Polls : \A r \in LastRun(p) :
    sdk.runs[r].created /\ ~sdk.runs[r].finished =>
      /\ sdk.runs[r].handler = "live"
      /\ Unanswered(p) = {} => poll[p].run = r /\ Topic[p] \in subscribed

\* A finish callback is called once, however often the end of the poll is
\* announced (test/poll.cpp:548, "finishCalls == 1").
FinishOnce ==
  \A i, j \in DOMAIN calls :
    i < j /\ calls[i].kind = "finish" => calls[j] # calls[i]

\* "If that poll was with RunPoll, that poll's onFinish callback will not be
\* invoked" (include/gamelink.h:1053): nor its onUpdate, once the same poll has
\* been run again with callbacks of its own.
ReplacedStaysSilent ==
  [][Len(calls') > Len(calls) =>
       LET r == Last(calls').run
       IN  \A i \in DOMAIN sdk.runs :
             i > r /\ sdk.runs[i].poll = sdk.runs[r].poll
               => sdk.runs[i].handler = "none"]_vars
=============================================================================
