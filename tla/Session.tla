------------------------------- MODULE Session -------------------------------
(***************************************************************************)
(* What SDK remembers of its session with the server, to take it up again  *)
(* on a new connection: the subscription sets                              *)
(* (src/gamelink_subscriptionsets.cpp and the Subscribe... and             *)
(* Unsubscribe... functions), the identity of the last authentication      *)
(* (src/gamelink_authentication.cpp) and HandleReconnect, which replays    *)
(* them (src/gamelink.cpp:545-612).                                        *)
(*                                                                         *)
(* One thread makes the calls of the application; one, perhaps the same,   *)
(* drains the queue, receives, and reconnects.  The queue is first in,     *)
(* first out here; RequestQueue has its locks and waits.  Each access to   *)
(* the sets is a step, with the lock (the calls) or without (the replay).  *)
(*                                                                         *)
(* Abstracted: tokens are the identity they were given to; a wrong PIN is  *)
(* not modelled.  External: the server does requests in their order,       *)
(* subscribes an authenticated connection only, takes a refresh token from *)
(* its owner only, and forgets a connection that ends.                     *)
(***************************************************************************)
EXTENDS Integers, Sequences, FiniteSets, Functions, SequencesExt

CONSTANTS
  App, Net,        \* the thread that calls, and the one that drains
  Skus, Polls,     \* topics kept in the vectors _skus and _polls
  Flags,           \* the other topics, in the order of their replay
  Identities,      \* what the application authenticates with
  NoGame,          \* the game id of the functions that take none
  MaxLogins,       \* bound: calls of Authenticate...
  MaxCalls,        \* bound: calls of Subscribe... and Unsubscribe...
  MaxDisconnects   \* bound: losses of the connection

Topics == Skus \cup Polls \cup Range(Flags)

\* The vector a topic is kept in; 3 stands for the flags.
Stage(topic) == IF topic \in Skus THEN 1 ELSE IF topic \in Polls THEN 2 ELSE 3

ASSUME TopicsAssumption ==
  /\ Skus \cap Polls = {} /\ Range(Flags) \cap (Skus \cup Polls) = {}
  /\ Flags \in Seq(Range(Flags))

ASSUME IdentitiesAssumption ==
  \A who \in Identities : who = [client |-> who.client, game |-> who.game]

ASSUME SessionBoundsAssumption ==
  MaxLogins \in Nat /\ MaxCalls \in Nat /\ MaxDisconnects \in Nat

VARIABLES
  vectors,     \* _subscriptionSets._skus and ._polls
  active,      \* _subscriptionSets: the flags that are Active
  stored,      \* _storedClientId, _storedGameId
  refresh,     \* _storedRefresh: a set, of its owner or empty
  user,        \* whether _user is not null
  queue,       \* _queuedPayloads
  pc,          \* where each thread is
  argument,    \* the argument of App's call
  replayed,    \* the replay of Net: where it is in the sets, and what it sends
  link,        \* external: state of the connection
  wire,        \* external: requests on their way to the server
  answers,     \* external: answers to authentications, on their way back
  server,      \* external: what the server knows of the connection
  logins, calls, disconnects,  \* how often each has happened
  settled,     \* history: the last login has been answered
  sound        \* history: this connection was taken up as it is meant to be

setVars == <<vectors, active>>
identityVars == <<stored, refresh, user>>
threadVars == <<pc, argument, replayed>>
linkVars == <<link, wire, answers, server>>
countVars == <<logins, calls, disconnects>>
vars == <<setVars, identityVars, queue, threadVars, linkVars, countVars, settled, sound>>

Nobody == [client |-> "", game |-> NoGame]
Forgotten == [authenticated |-> FALSE, topics |-> {}]
None == "none"
NoArgument == [topic |-> None, identity |-> Nobody]

Init ==
  /\ vectors = <<<<>>, <<>>>> /\ active = {}
  /\ stored = Nobody /\ refresh = {} /\ user = FALSE /\ queue = <<>>
  /\ pc = [t \in {App, Net} |-> "idle"]
  /\ argument = NoArgument
  /\ replayed = [stage |-> 1, i |-> 1, topic |-> None]
  /\ link = "up" /\ wire = <<>> /\ answers = <<>> /\ server = Forgotten
  /\ logins = 0 /\ calls = 0 /\ disconnects = 0
  /\ settled = TRUE /\ sound = TRUE

Goto(t, where) == pc' = [pc EXCEPT ![t] = where]

\* App's call ends.
Return == Goto(App, "idle") /\ argument' = NoArgument

Subscription(op, topic) ==
  [op |-> op, topic |-> topic, identity |-> Nobody, token |-> {}, login |-> 0]

\* login is 0 in the authentication of HandleReconnect.
Authentication(identity, token, login) ==
  [op |-> "authenticate", topic |-> None, identity |-> identity,
   token |-> token, login |-> login]

QueuePayload(p) == queue' = Append(queue, p)

PushFront(p) == queue' = <<p>> \o queue
-----------------------------------------------------------------------------
(* The subscription sets.                                                   *)

\* The topics the SDK holds to be subscribed.
Registered == Range(vectors[1]) \cup Range(vectors[2]) \cup active

\* Mutant: a topic may be registered twice.
CanRegisterAgain(topic) == topic \in Topics

CanRegister(topic) == topic \notin Registered

Register(topic) ==
  IF Stage(topic) = 3
  THEN active' = active \cup {topic} /\ UNCHANGED vectors
  ELSE vectors' = [vectors EXCEPT ![Stage(topic)] = Append(@, topic)]
       /\ UNCHANGED active

\* Those entries of s that are not x, in their order (a set of one sequence;
\* not SelectSeq, which the provers do not know).
Without(s, x) ==
  LET kept == {i \in DOMAIN s : s[i] # x}
      Orders == {from \in [1..Cardinality(kept) -> kept] :
                   /\ Range(from) = kept
                   /\ \A i, j \in DOMAIN from : i < j => from[i] < from[j]}
  IN  {[i \in 1..Cardinality(kept) |-> s[from[i]]] : from \in Orders}

\* Mutant: flags stay Active.
UnregisterVectors(topic) ==
  /\ UNCHANGED active
  /\ \E skus \in Without(vectors[1], topic), polls \in Without(vectors[2], topic) :
       vectors' = <<skus, polls>>

Unregister(topic) ==
  /\ active' = active \ {topic}
  /\ \E skus \in Without(vectors[1], topic), polls \in Without(vectors[2], topic) :
       vectors' = <<skus, polls>>

\* A call of the application that overlaps a replay makes the outcome depend on
\* which comes first.
Overlapping == App # Net /\ pc[Net] # "idle"

BeginCall(topic) ==
  /\ pc[App] = "idle" /\ calls < MaxCalls /\ logins > 0
  /\ calls' = calls + 1
  /\ argument' = [argument EXCEPT !.topic = topic]
  /\ sound' = (sound /\ ~Overlapping)

\* SubscribeTo...: canRegister, then queuePayload, then register.  A topic that
\* is registered is not asked for again.
BeginSubscribe(topic) ==
  /\ BeginCall(topic) /\ CanRegister(topic)
  /\ Goto(App, "subscribe")
  /\ UNCHANGED <<setVars, identityVars, queue, replayed, linkVars, logins,
                 disconnects, settled>>

PushSubscribe ==
  /\ pc[App] = "subscribe"
  /\ QueuePayload(Subscription("subscribe", argument.topic))
  /\ Goto(App, "register")
  /\ UNCHANGED <<setVars, identityVars, argument, replayed, linkVars,
                 countVars, settled, sound>>

RegisterTopic ==
  /\ pc[App] = "register"
  /\ Register(argument.topic)
  /\ Return
  /\ UNCHANGED <<identityVars, queue, replayed, linkVars, countVars,
                 settled, sound>>

\* UnsubscribeFrom...: unregister, registered or not, then queuePayload.
BeginUnsubscribe(topic) ==
  /\ BeginCall(topic)
  /\ Unregister(topic)
  /\ Goto(App, "unsubscribe")
  /\ UNCHANGED <<identityVars, queue, replayed, linkVars, logins, disconnects,
                 settled>>

PushUnsubscribe ==
  /\ pc[App] = "unsubscribe"
  /\ QueuePayload(Subscription("unsubscribe", argument.topic))
  /\ Return
  /\ UNCHANGED <<setVars, identityVars, replayed, linkVars, countVars,
                 settled, sound>>
-----------------------------------------------------------------------------
(* Authentication.                                                          *)

\* Mutant: the game id is not stored.
StoreClient(who) == stored' = [stored EXCEPT !.client = who.client]

\* The functions that take no game id leave the stored one as it is.
Store(who) ==
  stored' = [client |-> who.client,
             game |-> IF who.game = NoGame THEN stored.game ELSE who.game]

\* AuthenticateWith...PIN: store what HandleReconnect needs, then queuePayload.
BeginAuthenticate(who) ==
  /\ pc[App] = "idle" /\ logins < MaxLogins
  /\ Store(who)
  /\ argument' = [argument EXCEPT !.identity = who]
  /\ logins' = logins + 1 /\ settled' = FALSE
  /\ Goto(App, "authenticate")
  /\ UNCHANGED <<setVars, refresh, user, queue, replayed, linkVars, calls,
                 disconnects, sound>>

PushAuthenticate ==
  /\ pc[App] = "authenticate"
  /\ QueuePayload(Authentication(argument.identity, {}, logins))
  /\ Return
  /\ UNCHANGED <<setVars, identityVars, replayed, linkVars, countVars,
                 settled, sound>>

\* It sends nothing, and keeps what HandleReconnect uses.
Deauthenticate ==
  /\ pc[App] = "idle" /\ user
  /\ user' = FALSE
  /\ UNCHANGED <<setVars, stored, refresh, queue, threadVars, linkVars,
                 countVars, settled, sound>>

\* ReceiveMessage of a good answer to an authentication.
ReceiveAuthenticated ==
  /\ pc[Net] = "idle" /\ answers # <<>>
  /\ answers' = Tail(answers)
  /\ refresh' = {Head(answers).identity} /\ user' = TRUE
  /\ settled' = (settled \/ Head(answers).login = logins)
  /\ UNCHANGED <<setVars, stored, queue, threadVars, link, wire, server,
                 countVars, sound>>
-----------------------------------------------------------------------------
(* HandleReconnect, on a new connection.                                    *)

\* With a refresh token, authenticate ahead of all that is queued.
HandleReconnect ==
  /\ pc[Net] = "idle" /\ link = "fresh"
  /\ link' = "up"
  /\ \/ /\ refresh = {}
        /\ sound' = FALSE
        /\ UNCHANGED <<queue, pc, replayed>>
     \/ /\ refresh # {}
        /\ PushFront(Authentication(stored, refresh, 0))
        /\ Goto(Net, "replay")
        /\ replayed' = [stage |-> 1, i |-> 1, topic |-> None]
        /\ sound' = /\ refresh = {stored}
                    /\ pc[App] \in {"idle", "authenticate"}
                    /\ sound \/ queue = <<>>
  /\ UNCHANGED <<setVars, identityVars, argument, wire, answers, server,
                 countVars, settled>>

\* Mutant: the last one is left out.
EntriesButLast ==
  LET all == IF replayed.stage = 3 THEN Flags ELSE vectors[replayed.stage]
  IN  SubSeq(all, 1, Len(all) - 1)

\* What the loop of a stage goes through.
Entries == IF replayed.stage = 3 THEN Flags ELSE vectors[replayed.stage]

\* The next entry, read without the lock, is to be subscribed again.
ReplayEntry ==
  /\ pc[Net] = "replay" /\ replayed.i <= Len(Entries)
  /\ replayed.stage = 3 => Flags[replayed.i] \in active
  /\ replayed' = [replayed EXCEPT !.i = @ + 1, !.topic = Entries[replayed.i]]
  /\ Goto(Net, "push")

\* A flag that is not Active; or the end of a loop, and of the last one.
ReplaySkip ==
  /\ pc[Net] = "replay"
  /\ \/ /\ replayed.i <= Len(Entries)
        /\ replayed.stage = 3 /\ Flags[replayed.i] \notin active
        /\ replayed' = [replayed EXCEPT !.i = @ + 1]
        /\ UNCHANGED pc
     \/ /\ replayed.i > Len(Entries) /\ replayed.stage < 3
        /\ replayed' = [replayed EXCEPT !.stage = @ + 1, !.i = 1]
        /\ UNCHANGED pc
     \/ /\ replayed.i > Len(Entries) /\ replayed.stage = 3
        /\ replayed' = [stage |-> 1, i |-> 1, topic |-> None]
        /\ Goto(Net, "idle")

Replay ==
  /\ ReplayEntry \/ ReplaySkip
  /\ UNCHANGED <<setVars, identityVars, queue, argument, linkVars, countVars,
                 settled, sound>>

PushReplayed ==
  /\ pc[Net] = "push"
  /\ QueuePayload(Subscription("subscribe", replayed.topic))
  /\ replayed' = [replayed EXCEPT !.topic = None]
  /\ Goto(Net, "replay")
  /\ UNCHANGED <<setVars, identityVars, argument, linkVars, countVars,
                 settled, sound>>
-----------------------------------------------------------------------------
(* The connection and the server.                                           *)

\* ForeachPayload.  What is sent before the loss of the connection is noticed
\* is lost.
SendPayload ==
  /\ pc[Net] = "idle" /\ queue # <<>> /\ link \in {"up", "down"}
  /\ queue' = Tail(queue)
  /\ wire' = IF link = "up" THEN Append(wire, Head(queue)) ELSE wire
  /\ UNCHANGED <<setVars, identityVars, threadVars, link, answers, server,
                 countVars, settled, sound>>

\* External.
ServeAuthentication ==
  LET p == Head(wire)
      good == p.token \in {{}, {p.identity}}
  IN  /\ wire # <<>> /\ p.op = "authenticate"
      /\ wire' = Tail(wire)
      /\ server' = IF good THEN [server EXCEPT !.authenticated = TRUE] ELSE server
      /\ answers' = IF good THEN Append(answers, p) ELSE answers
      /\ UNCHANGED <<setVars, identityVars, queue, threadVars, link, countVars,
                     settled, sound>>

\* External.
ServeSubscription ==
  LET p == Head(wire)
  IN  /\ wire # <<>> /\ p.op # "authenticate"
      /\ wire' = Tail(wire)
      /\ server' = [server EXCEPT !.topics =
           IF ~server.authenticated THEN @
           ELSE IF p.op = "subscribe" THEN @ \cup {p.topic} ELSE @ \ {p.topic}]
      /\ UNCHANGED <<setVars, identityVars, queue, threadVars, link, answers,
                     countVars, settled, sound>>

\* External.
Disconnect ==
  /\ link = "up" /\ disconnects < MaxDisconnects
  /\ link' = "down" /\ disconnects' = disconnects + 1
  /\ wire' = <<>> /\ answers' = <<>> /\ server' = Forgotten
  /\ UNCHANGED <<setVars, identityVars, queue, threadVars, logins, calls,
                 settled, sound>>

\* External.  The application opens a new connection.
Reconnect ==
  /\ link = "down" /\ pc[Net] = "idle"
  /\ link' = "fresh"
  /\ UNCHANGED <<setVars, identityVars, queue, threadVars, wire, answers,
                 server, countVars, settled, sound>>
-----------------------------------------------------------------------------
\* What App does once it is in a function; what Net does.
AppStep == PushSubscribe \/ RegisterTopic \/ PushUnsubscribe \/ PushAuthenticate
NetStep ==
  \/ ReceiveAuthenticated \/ HandleReconnect \/ Replay \/ PushReplayed
  \/ SendPayload
Serve == ServeAuthentication \/ ServeSubscription

Next ==
  \/ \E topic \in Topics : BeginSubscribe(topic) \/ BeginUnsubscribe(topic)
  \/ \E who \in Identities : BeginAuthenticate(who)
  \/ Deauthenticate
  \/ AppStep \/ NetStep \/ Serve
  \/ Disconnect \/ Reconnect

Spec == Init /\ [][Next]_vars

\* Functions return, the loop drains, receives and re-opens the connection, and
\* the server answers.  Calls and losses need not happen.
FairSpec ==
  /\ Spec
  /\ WF_vars(AppStep) /\ WF_vars(NetStep) /\ WF_vars(Serve) /\ WF_vars(Reconnect)
-----------------------------------------------------------------------------
Owners == [client : {who.client : who \in Identities \cup {Nobody}},
           game : {who.game : who \in Identities \cup {Nobody}}]
Tokens == {{}} \cup {{who} : who \in Owners}
Payloads ==
  [op : {"subscribe", "unsubscribe"}, topic : Topics, identity : {Nobody},
   token : {{}}, login : {0}]
  \cup
  [op : {"authenticate"}, topic : {None}, identity : Owners, token : Tokens,
   login : 0..MaxLogins]

\* Every variable has its type; one caller never makes two entries of a topic.
TypeOK ==
  /\ vectors \in Seq(Seq(Topics)) /\ Len(vectors) = 2
  /\ \A v \in 1..2 : IsInjective(vectors[v])
  /\ active \subseteq Range(Flags)
  /\ stored \in Owners /\ user \in BOOLEAN
  /\ refresh \in Tokens
  /\ queue \in Seq(Payloads) /\ wire \in Seq(Payloads) /\ answers \in Seq(Payloads)
  /\ pc \in [{App, Net} -> {"idle", "subscribe", "register", "unsubscribe",
                            "authenticate", "replay", "push"}]
  /\ argument \in [topic : Topics \cup {None}, identity : Owners]
  /\ replayed \in [stage : 1..3, i : Nat \ {0}, topic : Topics \cup {None}]
  /\ link \in {"up", "down", "fresh"}
  /\ server \in [authenticated : BOOLEAN, topics : SUBSET Topics]
  /\ logins \in 0..MaxLogins /\ calls \in 0..MaxCalls
  /\ disconnects \in 0..MaxDisconnects
  /\ settled \in BOOLEAN /\ sound \in BOOLEAN

\* Nothing is on its way, and nobody is in a function of the SDK.
Quiet ==
  /\ link = "up" /\ \A t \in {App, Net} : pc[t] = "idle"
  /\ queue = <<>> /\ wire = <<>> /\ answers = <<>>

\* When all that was asked for has been done, the server sends updates of the
\* topics that the SDK holds to be subscribed, and of no other: in spite of
\* requests lost with a connection, calls made while there was none, and topics
\* given up in between ("Reconnect will redo subscriptions, but not after
\* unsubscribing", test/reconnect.cpp:253).  Provided that HandleReconnect had a
\* token of the stored identity and no call overlapped the replay: without a
\* token it replays nothing, and topics stay registered that the server does not
\* know of and that the SDK refuses to subscribe to again.
InSync == Quiet /\ sound => server.topics = Registered

\* The refresh token that HandleReconnect will use was given to the identity it
\* will send with it, once the last authentication has been answered: whatever
\* was lost, and whatever HandleReconnect itself has asked for in between.  It is
\* claimed of an application all of whose logins name a game (none of Identities
\* has NoGame): a login without one keeps the stored game, for which its token
\* was not given.
SameIdentity == settled /\ refresh # {} => refresh = {stored}

\* However often the connection is lost, the server ends up with the topics of
\* the application.
Converges == <>[](sound => server.topics = Registered)
=============================================================================
