# GameLink C++ in TLA+

TLA+ models of the GameLink C++ library (`include/`, `src/`, `schema/`,
`websocket_network/`), TLC configurations that check them, and proofs about
them that TLAPS checks. Line numbers in the modules are those of the
repository's own tree (`src/gamelink.cpp:196`, `include/gamelink.h:559`).

GameLink is a client library. A game calls `gamelink::SDK`; the SDK queues JSON
requests, which the game takes out with `ForeachPayload` and sends over a
websocket it owns; the game hands what it receives to `ReceiveMessage`, which
parses it and calls the game's callbacks. The SDK starts no thread of its own.
"Most functions are thread safe, and can be called from multiple threads
concurrently" (`include/gamelink.h:559`); only `ReceiveMessage` must be called
from one thread. So the concurrency is the application's, and what the SDK has to
get right is what its functions do to each other's state.

## 1. Inventory

| component | state | operations | correct when | modelled by |
|---|---|---|---|---|
| Request queue and waits (`src/gamelink.cpp`, `include/gamelink.h`) | `_queuedPayloads` under `_lock`; `_currentRequestId` under nothing; `waitingForResponse` of each payload | `queuePayload`, `nextRequestId`, `WaitForResponse`, `HasPayloads`, `ForeachPayload`, first part of `ReceiveMessage` | requests go out in order; none overtakes an answer that was waited for; every one goes out | `RequestQueue`, `SerializedRequests` |
| Reconnection (`HandleReconnect`) | stored client id, game id, refresh token; the subscription sets | authenticate first, replay subscriptions | the authentication is the first payload of the new connection; what was queued still goes out | `RequestQueue` (locks, waits), `Session` (what is replayed) |
| Events (`Event<T>`, 14 of them in the SDK) | `_callbacks` under the event's lock, `_currentHandle` under nothing, status of each callback | `Add`, `AddUnique`, `set` (one-shot), `Remove`, `RemoveByName`, `Invoke` | callbacks may add and remove callbacks; a one-shot is called once, with its own answer; nothing deleted is touched | `EventCallbacks` |
| Poll runs (`RunPoll`, `RunMatchPoll`) | captured by the callback: id, name, `hasCalledOnFinish` | delete, unsubscribe, wait, subscribe, create, listen, and undo at the end | the poll that was run last exists, is subscribed to, and finishes once | `PollRuns` |
| Subscription sets | `_skus`, `_polls`, arrays of states, under a lock | can/register/unregister for each kind; replay | a topic is registered iff the server was last asked to subscribe to it | `Session`; that of polls also in `PollRuns` |
| Receive buffer and dispatch | `_receiveBuffer` | put fragments together, 4 MB limit, dispatch by action and target | a message split in any way is dispatched once | `ReceiveBuffer`, `Transport` |
| Authentication | `_user`, `_storedClientId/GameId/JWT/Refresh` | five `Authenticate...`, `Deauthenticate`, `GetUser` | reconnects with the identity last used | `Session` |
| Patch lists and limits | `PatchList::operations` under its lock | add operations, send, clear; `Verify...Limits`, `GetPollWinnerIndex` | an operation is sent once, in order | - (the winner: `GatewayPoll`) |
| Gateway (`src/gateway*.cpp`) | identity, action counts, callbacks | `StartPoll`, actions with `DecrementActionCount` and the like, bits and coins, matches | polls and actions of the wrapper behave as the SDK's | `GatewayPoll`, and `PollRuns` for the ids of its polls |
| Websocket (`websocket_network/`) | outgoing list, receive buffer | `run`, `send` | messages go out in order, none is left out | `WebsocketConnection`, `Transport` |
| Schema | none | JSON to structs and back | a message without `request_id` is given id 0 | - |
| C library, URLs, debug text | none | wrappers, formatting | - | - |

How they interact. Everything that asks the server for something goes through
`queuePayload`. The functions that take a callback for one answer queue the request
and *then* set a one-shot callback on the event with the request's id. `RunPoll` is
built from the queue, the waits, the subscription sets and a named callback, and
its callback calls the SDK again, inside `Event::Invoke`, inside `ReceiveMessage`.
`HandleReconnect` reads the subscription sets and the stored identity and uses the
queue. Under all of it lies a `WebsocketConnection` of the application, which calls
`ReceiveMessage` with the frames it gets and takes what `ForeachPayload` gives out.

What is hard here: callers, the thread that drains, and the thread that receives
interleave between the critical sections; callbacks re-enter the SDK; waits depend
on answers that may be early, late, or lost with the connection; ids and handles
are counters of few bits; a connection may end within a message, and the SDK and
its buffer outlive it. `PROJECT.json` lists each such place under "hazards".

## 2. Modules

| module | role |
|---|---|
| `RequestQueue` | queue, ids, waits, draining, receiving, loss of the connection, `HandleReconnect`, by any number of threads |
| `SerializedRequests` | abstract specification: what `WaitForResponse` promises, without ids, threads or cleared payloads |
| `RequestQueueRefinement` | the mapping under which `RequestQueue` implements it |
| `EventCallbacks` | one `Event<T>` with requests that set one-shot callbacks on it |
| `PollRuns` | `RunPoll` and `RunMatchPoll` over the abstract queue |
| `Session` | subscription sets, stored identity, and their replay on a new connection |
| `ReceiveBuffer` | fragments in `ReceiveMessage` |
| `WebsocketConnection` | the outgoing list and the frame that is coming in |
| `Transport` | composes the last two with a server and connections that end |
| `GatewayPoll` | what the gateway makes of the updates of a poll |
| `...Proofs` | TLAPS; section 5 |
| `MC...` | threads, masks, names and identities for TLC |

### RequestQueue

State: `queuedPayloads`, `currentRequestId`, `storedRefresh` are members of
the SDK. `pc`, `reg`, `serial`, `waits`, `replays`, `held` are what a thread has in its
local variables, between the steps in which other threads may act. `link`,
`outstanding`, `disconnects`, `linkStart` stand for the connection and the server. The rest is
history for the properties. A payload carries, beside the fields of the code, the
number `n` of the request it is, or is a wait for, and the set `after` of
requests that had been waited for when it was queued.

| action | code |
|---|---|
| `BeginRequest`, `ReplaySubscription`, `StoreRequestId`, `PushPayload` | `queuePayload`. `_currentRequestId++` is a load and a store outside the lock; the push is under it |
| `WaitForResponse`, `WaitLate` | the same function, called right after the request, or for any earlier one |
| `ForeachPayload`, `PopPayload`, `SendPayload`, `EndForeach` | the loop: test and pop under the lock, the network callback without it |
| `ReceiveAnswer`, `ReceiveUpdate` | one critical section of `ReceiveMessage`: clear all waits of the id, drop the cleared ones in front |
| `HandleReconnect` | push the authentication in front if there is a refresh token |
| `Disconnect`, `Reconnect` | external: the answers that were due are lost |

### EventCallbacks

`callbacks` holds pointers into `object`; a deleted object stays in `object` and
joins `freed`, so a use of it can be seen. `where`, `copy`, `index` are the local
state of `Invoke`, which only the `Receiver` runs: it copies the vector under the
lock (`BeginInvoke`), looks at target and status (`CheckCallback`), calls
(`CallCallback`), marks a one-shot as removed after the call
(`ReturnFromCallback`), and sweeps under the lock (`Sweep`). Between `CallCallback`
and `ReturnFromCallback` the Receiver may call `Add`, `AddUnique`, `Remove`,
`RemoveByName` or queue a request: this is a callback that does so. A handle is 28
bits of counter or-ed with a mask in the top 8, so four bits overlap: `Masked`
gives the byte that results. `Sweep` says by a relation what is left of the vector,
and in which order, instead of computing it with `SelectSeq`, which no prover here knows.

### PollRuns

The state of the SDK is one record and each SDK function an operator from record to
record, so `RunPoll` reads like its source: delete, unsubscribe, two waits,
subscribe, create, `AddUnique`. The server does the requests it has in any order;
`RunPoll` is there to work in spite of it. A wait names its request, not its id:
that this is right as long as ids do not wrap is what `RequestQueue` shows.
`ok` is the outcome of `VerifyPollLimits`. An answer clears its waits where they stand
(`ClearWaits`; a cleared wait has n = 0) and drops those cleared at the front; `SkipWait` is
`ForeachPayload` coming to one that was cleared behind a request.

### Session

`vectors` and `active` are the three shapes in which `SubscriptionSets` keeps a
topic: the vectors of SKUs and of poll ids, and single flags. `stored`, `refresh`,
`user` are the identity. `pc` says where the thread that calls (`App`) and the one
that drains, receives and reconnects (`Net`) are; the two may be one thread in a
program, which has fewer behaviours. `Without` is the vector without a topic. It is
given by what it must be, as a set with one member, for the reason given for `Sweep`.

| action | code |
|---|---|
| `BeginSubscribe`, `PushSubscribe`, `RegisterTopic` | `SubscribeTo...`: `canRegister...`, `queuePayload`, `register...`, three critical sections |
| `BeginUnsubscribe`, `PushUnsubscribe` | `UnsubscribeFrom...`: `unregister...`, then `queuePayload` |
| `BeginAuthenticate`, `PushAuthenticate`, `Deauthenticate` | the `Authenticate...` functions, which store what they are given before they queue; `Deauthenticate`, which only deletes the user |
| `ReceiveAuthenticated` | the good answer: user and refresh token |
| `HandleReconnect`, `ReplayEntry`, `ReplaySkip`, `PushReplayed` | push the authentication in front, then go through the sets without their lock, one entry and one `queuePayload` at a time |
| `SendPayload` | `ForeachPayload`, whole |
| `Serve...`, `Disconnect`, `Reconnect` | external |

Two history variables say when a property may be expected. `settled`: the last
login has been answered. `sound`: the connection in use was taken up with a
refresh token of the stored identity, and no call of the application overlapped
a replay. Without them `InSync` is false, for reasons the code does not handle: if
the connection is lost before the first login was answered, there is no refresh
token, `HandleReconnect` replays nothing, and the topics stay registered, so that the
SDK takes a new subscription for a duplicate and sends nothing; and a topic that is
given up between the moment the replay has read it and the moment it has queued it
is subscribed to again.

### ReceiveBuffer, WebsocketConnection, Transport

A message is a sequence of numbered pieces, and it parses when all of them are there
in order. `ReceiveWhole`, `ReceiveTooMuch`, `ReceiveRest`, `ReceiveFragment` are the four
ways through `src/gamelink.cpp:272-351`; the limit of 4 MB is `BufferLimit` pieces. `Dispatch`
is the choice of an event by action and target, which keeps nothing. A piece says which
message it is of, where in it, and of how many (`Piece`); `heard` lists the pieces
`ReceiveMessage` was given, and where each call ended. `Reassembled` says of any stretch of it
that is a whole message: the message reaches its event if it came in one frame, or if it fits in
the buffer and came right after a message that reached its own.

In `WebsocketConnection`, `Send` and `Terminate` push under the lock; `run` is its
libcurl callbacks (`WriteHeader`, and `WriteResponse` in `Transport`), the end of the
connection (`RunDone`) and `Flush(k)`, in which libcurl takes the first k messages of
the list: if these are not all, `run` returns and the list stays as it was.
`RunTakes` is all that is known of libcurl: how many messages it takes in one run,
when it takes any. In `Transport` the server
cuts messages into frames and the network cuts frames into pieces; the
connection may end between any two of them, and the application then makes a new
one. The SDK is not told.

### GatewayPoll

`ReceiveUpdate`, `Count`, `Report`: the loop of `GetPollWinnerIndex`, and the callbacks of
`StartPollWithID` around it.

## 3. Runs

All runs have `CHECK_DEADLOCK FALSE`: requests, updates, calls and connections are
bounded, so every behaviour ends.

| run | shows | bounds |
|---|---|---|
| `single_thread` | `BarrierBeforeWrap`, `NoOrphanWait`, `AuthFirst`, `OnlyOrphansBlock`: what keeps a request from going out is at worst a wait whose answer was lost; and that the queue implements `SerializedRequests` | 4 requests, each waited for 0, 1 or 2 times: waits in front, in the middle, twice in a row, with answers in any order; 2 losses of the connection and 2 replayed subscriptions, so that requests are queued, being drained, waited for and unanswered at a loss, and the second comes before the first is dealt with |
| `two_drainers` | `BarrierBeforeWrap` and `OnlyOrphansBlock` with two drainers, late waits, whose answers may have come already, and a reconnect | 2 requests and 1 replay: one that is waited for, one behind it, one from the reconnect; 1 loss |
| `events_one_thread` | re-entrant callbacks; ids and handles come round | 3 callbacks: the one that runs, one it removes, one it adds |
| `events_two_threads` | `Add`/`Remove` during `Invoke` on another thread; handles in the mask byte | 3 callbacks, 3 handles of which 1 is below the mask |
| `polls` | `Heard`, `FinishOnce`, `ReplacedStaysSilent` for a poll and a match poll | 3 runs (a run, its replacement, another poll), 3 updates (vote, end, end again) |
| `session` | `InSync`: at rest the server has the topics the SDK has; `SameIdentity`: the refresh token belongs to the identity it is sent with; `Converges`: in the end they agree | 1 SKU and 1 flag (the loop over a vector, and the test of a flag), 2 logins with 2 games, 2 calls, 2 losses: the second within or after the replay of the first |
| `transport` | `Reassembled`, `NothingSkipped`, `FirstTransmitted` | messages of up to 3 pieces against a buffer of 2: a message fits, is split, or is too long; 3 of them, so that one is cut off, one is spoilt by it, and one comes after; 2 connections; 3 sends, of which a run is only sure to get through 2 (`RunTakes`): one can stand behind them |
| `gateway_polls` | `WinnerNamed` | up to 3 options of 0, 1 or 2 votes: every tie, no votes at all, the winner in each place |

`session` has 868,545 states. Larger instances of it ran clean as well, but take
too long for a routine run: an SKU and a poll instead of the flag (2.1 million
states), and 3 calls with 1 loss (1.3 million); one with 2 SKUs and 3 calls was stopped at 9.7 million
without an error.

Four more runs check what a comment or a test says and the code does not do; see
section 6.

Fairness. `FairSpec` of `RequestQueue` assumes that a thread finishes the SDK
function it has entered (locks are held for a few instructions, no function blocks),
that the application's loop keeps draining and receiving and re-opens a lost
connection, and that the server answers what it received on a connection that
lasts. `FairSpec` of `EventCallbacks`: calls finish, callbacks return, the
application receives. `FairSpec` of `Session`: as for the queue. `FairSpec` of
`Transport`: weak fairness of `ReadHeader` (the application keeps calling `run`, and the headers
come) and of `FlushFirst`: while there is something in the list, some run gets through
the first `RunTakes` messages of it. That libcurl ever gets through a longer list in one run is not
assumed, since `run` begins with the first message each time. Calls of the API, losses of the connection and
messages of the server that were not asked for are not assumed to happen.

## 4. Refinement

`RequestQueueRefinement` maps `RequestQueue` to `SerializedRequests`: pending is
what the drainer has popped and not sent, then the queue, one abstract payload for each,
waits included; handed over is `sent`; responded is `answered`. The abstract
wait names its request, and is never cleared: it may be forgotten once that request has been
answered (`Forget`), by the answer itself or later (`Skip`). So a pop is a stutter, since
the payload stays in front of the abstract queue until it is sent; clearing a wait
is one too; dropping cleared waits is `Forget`. The mapping takes each payload by itself
and filters nothing.

What makes this hold is that ids stand for requests: `ReceiveMessage` clears every wait
with the *id* of n, and each wait it then drops has to be one for an answered request.
After the ids have wrapped it need not be. With several drainers what they hold
has no order, and requests may reach the network in another order than they were
queued in; the mapping is for one drainer.

It is checked as the property `Serializes` of `single_thread`, and proved as the
theorem `Implementation`; section 5.

## 5. Proofs

Eight modules of proofs; every theorem holds for any threads, any sizes of
counters, ids and handles, and any bounds, under the assumptions that the modelling
modules name (`ThreadsAssumption`, `IdsAssumption`, `BoundsAssumption` and so on) and those in
the last column.

| module | theorem | says | assuming |
|---|---|---|---|
| `RequestQueueProofs` | `TypeCorrect` | `[]TypeOK` | |
| | `BarrierHolds` | `[]BarrierBeforeWrap`: a payload is sent after the answers to all that had been waited for when it was queued | `OneIssuer` |
| | `AuthFirstHolds` | `[]AuthFirst`: on a new connection the authentication comes first | `OneDrainer` |
| `NoOrphanWaitProofs` | `NoOrphanWaitHolds` | `[]NoOrphanWait`: no wait is left for a request that has been answered; also when ids wrap and connections are lost | `WaitsAtOnce` |
| `RequestQueueRefinementProofs` | `Implementation` | `Serializes`: every step is one of `SerializedRequests`, or a stutter | `OneIssuer`, `OneDrainer`, `[](requestCount < IdSpace)` |
| `EventCallbacksProofs` | `TypeCorrect` | `[]TypeOK` | |
| | `NothingDangles` | `[]NoDanglingCallback` | |
| | `OneShotsFireOnce` | `[]OneShotOnce` | |
| | `OwnAnswerHolds` | `[]OwnAnswer` | `FewerGetsThanIds` |
| | `RemovedStaySilent` | `NoCallAfterRemove` | `OneThreaded` |
| | `NamesStayUnique` | `[]UniqueNames` | `OneCaller` |
| `PollRunsProofs` | `TypeCorrect` | `[]TypeOK` | |
| | `FinishesOnce` | `[]FinishOnce` | |
| | `ReplacedSilent` | `ReplacedStaysSilent` | |
| | `HeardHolds` | `[]Heard`: a poll that was accepted has its callback; once its requests are answered the server has it and sends its updates | names and topics of their own, `Restarts = FALSE` |
| `SessionProofs` | `TypeCorrect` | `[]TypeOK`; in it: a topic is in a vector once | |
| | `InSyncHolds` | `[]InSync`: at rest, after a sound reconnect, the server has the topics the SDK has | |
| | `SameIdentityHolds` | `[]SameIdentity` | `GamesNamed` |
| `TransportProofs` | `TypeCorrect` | `[]TypeOK`; in it: the buffer's limit | |
| | `OrderKept` | `[]NothingSkipped` | |
| | `ReassembledHolds` | `[]Reassembled` | |
| `GatewayPollProofs` | `WinnerIsNamed` | `[]WinnerNamed` | |

The assumptions about the application:

- `OneIssuer`: callers and the reconnecting thread, which take request ids, are one
  thread. Any number may drain. `id_race` shows that without it the statement is
  false for this code.
- `OneDrainer`: only the thread that re-opens the connection drains. Another could send
  on the new connection what it has popped before the loss of the old one.
- `WaitsAtOnce`: one thread does everything, and it waits for a request right after
  it has made it, as the examples and `RunPoll` do. A later wait may come after the answer, and
  is then never cleared.
- `FewerGetsThanIds`: fewer requests with a callback are made than there are ids. Otherwise a callback
  whose answer was lost may be called with the answer to a later request of its id.
- `OneThreaded`, `OneCaller`: one thread calls and receives; one thread calls. `AddUnique`
  has two critical sections, and with two callers both may push.
- `GamesNamed`: every login names a game, as those of `gateway::SDK` do. The functions
  without a game id keep the stored one, which the new token was not given for.
- `requestCount < IdSpace`: the ids have not wrapped. `BarrierBeforeWrap` has this bound in
  its own statement.
- For `HeardHolds`: no two polls share a callback name or a topic (`IsInjective`), which the polls of one
  match do, and polls whose names are cut to the same 127 characters; and no finish callback
  runs its poll again, which `poll_restart` shows to fail. Section 6 has both.
- `ResponsesAssumption`: votes are natural numbers, and an update has at least one
  option; for none the gateway reads the first element of an empty vector.

Few of the properties are inductive as they stand. What each proof adds:

*RequestQueue types.* The countdowns `waits` and `replays` stay natural numbers only
because a thread is in its wait or replay loop only while there is one left
(`CallsCounted`).

*The barrier.* `BarrierBeforeWrap` speaks of what has been sent only. To keep it,
`BarrierInv` follows a payload backwards:

- `CounterInv`: the counter is one past the number of requests, except while
  the issuer is between its load and its store. So request n has id n ...
- `RefsInv`: ... in every list of requests that are unanswered or known to callers.
- `QueueInv`: each queued payload names its request; an uncleared wait waits for
  its own request, a cleared one has been answered; and whatever a payload has to
  come after is answered, or is waited for by an entry ahead of it.
- `WaitsInv`: everything waited for is answered, or waited for in the queue (so
  that the next request pushed satisfies `QueueInv`).
- `HeldInv`: what a drainer holds was at the front, so that nothing was ahead of
  it: all it has to come after is answered.
- `Barrier`: the same of what has been sent.

The lemmas say what each queue operation does to this: `ReceiveMessageShape`,
`GoodAppend`, `GoodPushFront`, `GoodDrop`, `AnswersOnlyHelp`. An answer with id r
clears waits with id r, which by `RefsInv` and `Sound` are waits for that very
request; updates carry 0 or 0xFFFF, which no request before the wrap has.

*Authentication first.* `AuthInv`: from `HandleReconnect` until something is sent, the
authentication is at the front, or the drainer holds it; nothing is ever put ahead of it.

*No orphan.* `OrphanInv` does without the barrier's bound on ids: every queued request and every
uncleared wait is of a request that was made under that id, and what an uncleared
wait waits for has not been answered. An answer clears every wait for its id, among them
those for its request; requests of the same id may lose their waits too soon, never too late.
The wait about to be queued is for a request that has not been answered, since its
thread is the one that receives.

*The refinement.* To map, a step needs `BarrierInv` (what a cleared wait waits for is answered)
and `RefineInv`: only texts of requests that were made are sent (`SentSound`); a request about to be queued is
nowhere yet, so that the abstract queue takes it once (`Fresh`); the server answers
what it was sent (`Accounted`); and the drainer holds nothing that waits (`HeldReady`), which makes `SendPayload`
the abstract `Send`. Then there is a lemma for each action. An answer drops the waits in front and
clears others, which the mapping does not see: one `Forget`.

*Events.* `TypeInv` = `TypeOK /\ InCopy`: the index of `Invoke` stays in its copy. `OneShotInv`:
a one-shot that has been called is marked as removed or still in its call, and the one about
to be called has not been.
`AnswerInv`: before the wrap the id of a request is its number, for callbacks and messages alike.
`SilentInv`: what was removed is marked as such, and the callback about to be called has not been removed.
`UniqueInv`: live names differ, and while the caller is between the two halves of `AddUnique`
none has the name it will add. `Sweep` needs no induction over the vector, as it is a relation.

*Polls.* `RunsInv`: every call made is of a run that exists; a run whose finish callback was called is marked
`finished`, which the code's `hasCalledOnFinish` is; and while a run listens, no later
run of its poll has added its callback. `TypeInv` bounds the runs and numbers that
requests and messages speak of by those there are.

`Heard` speaks of a queue that is empty of a poll's requests. `HeardInv` says how the server gets there. For
a run that was accepted, has not finished and is the last of its poll (`Awaited`):

- its callback is live, and all open requests of the poll are its own (`Served`): the
  application starts a poll again when those of the last run have been answered;
- its create is still open, or the server has the poll of this very run; its
  subscription is still open, or the server sends updates of the topic;
- `Guarded`: while its delete is open, its create is in the queue, behind a wait for the
  delete's number; the same of unsubscription and subscription. So the server never
  has the two at once, and the delete cannot come after the create. Without
  one of the two waits of `RunPoll` this fails.

That a wait stands for one request is `Numbered`: no two open requests, and no open and answered one, have one
number. An answer therefore clears and drops no wait for a request that is still open
(`Pruned`), and what happens to other polls disturbs neither the poll nor its topic, since these
are not shared. The lemmas `RunPollQueue`, `RunMatchPollQueue` and `RetiredQueue` say what the SDK's functions append.

*Session.* `IdentityInv` looks at the authentications on their way, in the order in which they will be
answered: answers, wire, queue. What comes with or behind the last login of
the application names the stored identity (`Sorted` in each of the three, `Ahead` between them);
and once that login has been answered, all of them do. What is in front of it, older
logins and the authentications of reconnects, may name others: their answers come first.

`InSync` speaks of a session at rest. `SyncInv` says the same of one at work, by what the
server *will* have when everything on its way has arrived: `After(s, T)` is the topics
that are subscribed once the requests of s have been done, when those of T are. It is not a fold, which the provers could not unfold, but
says of each topic what the last request about it in s was; the lemmas `After...` show that
it does what doing one request after the other does.

- `QueueAgrees`: what is queued changes nothing of what the application wants. This is what a loss of the
  connection leaves, and what a replay starts from.
- `ServerAgrees`: after the wire, the queue and what is still to be replayed, the server has
  what the application wants; but for a topic whose unsubscription is about to be
  queued (`Certain`), while a subscription not yet registered is wanted already (`Wanted`).
- `NoOverlap`: in a sound connection nobody calls during the replay, and what is about
  to be replayed is registered.
- `Admitted`: an authentication the server takes comes ahead of the first subscription. Otherwise the
  server would refuse it.

*Transport.* `SentInv`: the list is the last messages given to this connection, in
their order (`ListOfLast`), and those no longer in it have been sent (`OthersSent`).

What comes in is one sequence, the `Stream`: the pieces heard, those of the frame that is coming in,
those on the wire. Receiving moves its borders, the server appends to it, and the end of a connection
cuts off what was not heard. `StreamInv`: pieces come in the order of messages
and parts (`Ordered`); behind what was heard each is followed by the next of its message
(`Consecutive`), up to the end of a message (`WholeSent`); frames end where messages end, and `heard` where a frame ended
(`Framed`). `ReassemblyInv` then follows the buffer: after a message that reached its event it
is empty (`Emptied`), and when a message that fits has begun right there, the buffer holds what has come
of it and nothing else (`Begun`). `Accounted`: a message that reached its event was heard to its end, so that its
parts are not taken for the beginning of another.

*Gateway.* `LoopInv`, the loop's invariant: `index` is the first option with the most votes
of the first i, if any has votes; otherwise it is 0.

Every safety invariant, every action property and the refinement that a passing run checks is a
theorem. Only model-checked is liveness (`OnlyOrphansBlock`, `GetsCalled`, `FirstTransmitted`,
`Converges`): it needs fairness, and ENABLED with it, which the prover does not support. The four
runs of section 6 show by a behaviour that something does not hold; these are not proved
either.

## 6. Where code and documentation differ

Each is a run whose single property TLC violates.

| run | the code | the words |
|---|---|---|
| `id_race` | `nextRequestId` is not synchronized; two threads get one id, and the answer to the one ends the wait for the other | "thread safe" (`include/gamelink.h:559`) |
| `reconnect_stuck` | `HandleReconnect` keeps waits whose answers were lost; nothing behind them is sent | "After a handle reconnect, stuff works" (`test/integration.cpp:243`) |
| `gets_lost` | the request is queued before its callback is set | "Callback to invoke after getting ..." (`include/gamelink.h:919`) |
| `poll_restart` | the code after `onFinishCallback` unsubscribes and removes the run that callback has just started | `include/gamelink.h:1048` |

Observations without a run:

- The comment "Wrap around at 32k" (`src/gamelink.cpp:195`) stands over a mask that wraps
  at 128; `BarrierBeforeWrap` is therefore claimed for fewer than `IdSpace` requests.
- An update without a request id is read as id 0, so it ends the wait for request 128.
- With two threads, an answer may come before the `WaitForResponse` of the idiom of
  `include/gamelink.h:699`, and the wait is then never cleared. `OnlyOrphansBlock` of
  `two_drainers` bounds what follows from it.
- The callback name of a match poll leaves out the match (`src/gamelink_matches.cpp:68`), and names
  are cut at 127 characters: two polls of one name replace each other. `Heard` is
  claimed for polls with names of their own. All polls of a match share one topic, and the
  first that finishes unsubscribes from it; `PollRuns` has one poll per match.
- `Deauthenticate` deletes the user and keeps the stored identity and the refresh token (`include/gamelink.h:864`),
  so that a later `HandleReconnect` logs in again.
- The loss of the connection before the first login is answered; see `Session` above.
- `run` leaves the list as it is when libcurl refuses a message, and begins with the first
  one again (`websocket_network/websocket.cpp:177-207`). If libcurl never takes the whole
  list in one run, the first messages are sent over and over, and those behind them
  never: `FirstTransmitted` for all messages of the list instead of the first `RunTakes` is
  false under `FairSpec`, with a list of 3 and runs that take 2. Nothing says how much libcurl takes, and so this
  is an observation and not a run.
- The comment "This function will block" (`websocket_network/websocket.h:26`) stands over
  `send`, which pushes to the list and returns.
- `AuthenticateWithPIN` without a game keeps the game of an earlier login
  (`src/gamelink_authentication.cpp:30`): `SameIdentity` is claimed, proved and checked for logins
  that all name a game.

## 7. Not modelled, and what is left

- Patch lists: a vector whose every operation is one critical section. `UpdateStateWithPatchList`
  reads it without the lock (`src/gamelink_state.cpp:164`), which is a data race when another
  thread adds at that time; there is nothing else in it that interleaves.
- The `Verify...Limits` functions compare sizes with constants; `PollRuns` takes either outcome.
- The senders of the gateway (actions, game texts, coins, matches) build one request each
  and keep nothing that a later call reads, except the game id, which is set once.
- A wrong PIN: an answer with an error changes no state. The life of the `User` object that
  `GetUser` gives out: the SDK says nothing of how long it may be used.
- Two calling threads in `Session`: both may find a topic unregistered and subscribe
  twice (`src/gamelink_poll.cpp:84`), after which one unsubscription is enough for the server and `unregister`
  removes both entries; and a part of a message that libcurl may have taken (`websocket_network/websocket.cpp:192`).
- Schema and serialization (macros, no state), the C library (one-line wrappers), URLs and
  debug messages (text), and vendored code and examples.
- `gamelink_single.hpp` is generated from the other files: the models are of what it is
  generated from. It is the larger part of the repository's lines, so that even a model of all the rest
  would stand for a small share of them.

What could be added: `Session` in place of `ReplaySubscription`'s "some number" in
`RequestQueue`, for which the product of the two is too large at the bounds above (a proof
would not mind); and match polls that share a topic, and names that are cut, with what then
holds of them in the place of `Heard`.
