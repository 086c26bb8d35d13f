---------------------------- MODULE PollRunsProofs ----------------------------
(***************************************************************************)
(* Proofs about PollRuns, for any polls and match polls and any number of  *)
(* runs and updates.                                                       *)
(*                                                                         *)
(* The first part is about the callbacks only, and leaves open what the    *)
(* queue holds and what the server does: who finishes, and who is silent.  *)
(* The second is about the types of the queue, the requests and the        *)
(* messages.  The third follows the requests of a run through queue and    *)
(* server, and shows that a poll that was accepted is heard; for it, names *)
(* and topics have to differ and no finish callback runs its poll again.   *)
(***************************************************************************)
EXTENDS PollRuns, TLAPS

\* A call of RunPoll or RunMatchPoll.
RunRecords ==
  [poll : Polls, created : BOOLEAN, handler : {"none", "live", "removed"},
   finished : BOOLEAN]

\* A state of the SDK, as far as runs go.
IsState(s) ==
  /\ DOMAIN s = {"queue", "requests", "registered", "runs"}
  /\ s.runs \in Seq(RunRecords)

\* What becomes of a callback while others are added and removed.
Marked(old, new) == new = old \/ (old = "live" /\ new = "removed")

\* t is s, but for its queue and its subscriptions.
SameRuns(s, t) == IsState(t) /\ t.runs = s.runs
-----------------------------------------------------------------------------
(* What the functions of the SDK do to the runs.                            *)

LEMMA QueuedRuns ==
  ASSUME NEW s, IsState(s), NEW op, NEW r
  PROVE  SameRuns(s, Queued(s, op, r))
  BY DEF IsState, SameRuns, Queued

LEMMA WaitRuns ==
  ASSUME NEW s, IsState(s), NEW n
  PROVE  SameRuns(s, WaitForResponse(s, n))
  BY DEF IsState, SameRuns, WaitForResponse

LEMMA SubscribeRuns ==
  ASSUME NEW s, IsState(s), NEW r
  PROVE  SameRuns(s, SubscribeToPoll(s, r))
  <1> DEFINE topic == Topic[s.runs[r].poll]
             t == Queued(s, "subscribe", r)
  <1>1. SameRuns(s, t)
    BY QueuedRuns
  <1>2. SameRuns(s, [t EXCEPT !.registered = @ \cup {topic}])
    BY <1>1 DEF IsState, SameRuns
  <1>3. QED
    BY <1>2 DEF SubscribeToPoll, SameRuns

LEMMA UnsubscribeRuns ==
  ASSUME NEW s, IsState(s), NEW r
  PROVE  SameRuns(s, UnsubscribeFromPoll(s, r))
  <1> DEFINE t == [s EXCEPT !.registered = @ \ {Topic[s.runs[r].poll]}]
  <1>1. SameRuns(s, t)
    BY DEF IsState, SameRuns
  <1>2. SameRuns(t, Queued(t, "unsubscribe", r))
    BY <1>1, QueuedRuns DEF SameRuns
  <1>3. QED
    BY <1>1, <1>2 DEF UnsubscribeFromPoll, SameRuns

\* From s to t the live callbacks of the name are marked, and no run changes
\* otherwise.
Unnamed(s, t, name) ==
  /\ IsState(t) /\ DOMAIN t.runs = DOMAIN s.runs
  /\ Len(t.runs) = Len(s.runs)
  /\ \A i \in DOMAIN s.runs :
       /\ t.runs[i].poll = s.runs[i].poll
       /\ t.runs[i].created = s.runs[i].created
       /\ t.runs[i].finished = s.runs[i].finished
       /\ t.runs[i].handler
            = IF CallbackName[s.runs[i].poll] = name /\ s.runs[i].handler = "live"
              THEN "removed" ELSE s.runs[i].handler

LEMMA RemoveRuns ==
  ASSUME NEW s, IsState(s), NEW name
  PROVE  Unnamed(s, RemoveByName(s, name), name)
  <1> DEFINE Mark(x) == IF CallbackName[x.poll] = name /\ x.handler = "live"
                        THEN [x EXCEPT !.handler = "removed"] ELSE x
             marked == [i \in DOMAIN s.runs |-> Mark(s.runs[i])]
             t == RemoveByName(s, name)
  <1>1. s.runs \in [1..Len(s.runs) -> RunRecords] /\ Len(s.runs) \in Nat
        /\ DOMAIN s.runs = 1..Len(s.runs)
    BY DEF IsState
  <1>2. ASSUME NEW x \in RunRecords
        PROVE  /\ Mark(x) \in RunRecords
               /\ Mark(x).poll = x.poll /\ Mark(x).created = x.created
               /\ Mark(x).finished = x.finished
               /\ Mark(x).handler = IF CallbackName[x.poll] = name
                                       /\ x.handler = "live"
                                    THEN "removed" ELSE x.handler
    BY DEF RunRecords
  <1>3. t = [s EXCEPT !.runs = marked]
    BY DEF RemoveByName
  <1>4. DOMAIN t = {"queue", "requests", "registered", "runs"} /\ t.runs = marked
    BY <1>3 DEF IsState
  <1> HIDE DEF t
  <1>5. marked \in [1..Len(s.runs) -> RunRecords]
    <2> HIDE DEF Mark
    <2>1. \A i \in 1..Len(s.runs) : Mark(s.runs[i]) \in RunRecords
      BY <1>1, <1>2
    <2>2. QED
      BY <1>1, <2>1
  <1>6. \A i \in DOMAIN s.runs : marked[i] = Mark(s.runs[i])
    OBVIOUS
  <1> HIDE DEF marked, Mark
  <1>7. marked \in Seq(RunRecords) /\ DOMAIN marked = 1..Len(s.runs)
        /\ Len(marked) = Len(s.runs)
    BY <1>1, <1>5
  <1>8. \A i \in DOMAIN s.runs :
          /\ marked[i].poll = s.runs[i].poll
          /\ marked[i].created = s.runs[i].created
          /\ marked[i].finished = s.runs[i].finished
          /\ marked[i].handler = IF CallbackName[s.runs[i].poll] = name
                                    /\ s.runs[i].handler = "live"
                                 THEN "removed" ELSE s.runs[i].handler
    BY <1>1, <1>2, <1>6
  <1>9. QED
    BY <1>1, <1>4, <1>7, <1>8 DEF IsState, Unnamed, t

\* AddUnique makes r the only live callback of its name.
LEMMA AddUniqueRuns ==
  ASSUME NEW s, IsState(s), NEW r \in DOMAIN s.runs
  PROVE  LET t == AddUnique(s, r)
         IN  /\ IsState(t) /\ Len(t.runs) = Len(s.runs)
             /\ DOMAIN t.runs = DOMAIN s.runs
             /\ \A i \in DOMAIN s.runs :
                  /\ t.runs[i].poll = s.runs[i].poll
                  /\ t.runs[i].created = s.runs[i].created
                  /\ t.runs[i].finished = s.runs[i].finished
                  /\ i # r => /\ Marked(s.runs[i].handler, t.runs[i].handler)
                              /\ s.runs[i].poll = s.runs[r].poll
                                   => t.runs[i].handler # "live"
                              /\ CallbackName[s.runs[i].poll]
                                     # CallbackName[s.runs[r].poll]
                                   => t.runs[i].handler = s.runs[i].handler
             /\ t.runs[r].handler = "live"
  <1> DEFINE u == RemoveByName(s, CallbackName[s.runs[r].poll])
             live == [u.runs[r] EXCEPT !.handler = "live"]
             t == AddUnique(s, r)
  <1>1. /\ IsState(u) /\ DOMAIN u.runs = DOMAIN s.runs /\ Len(u.runs) = Len(s.runs)
        /\ \A i \in DOMAIN s.runs :
             /\ u.runs[i].poll = s.runs[i].poll
             /\ u.runs[i].created = s.runs[i].created
             /\ u.runs[i].finished = s.runs[i].finished
             /\ Marked(s.runs[i].handler, u.runs[i].handler)
             /\ s.runs[i].poll = s.runs[r].poll => u.runs[i].handler # "live"
             /\ CallbackName[s.runs[i].poll] # CallbackName[s.runs[r].poll]
                  => u.runs[i].handler = s.runs[i].handler
    <2>1. Unnamed(s, u, CallbackName[s.runs[r].poll])
      BY RemoveRuns
    <2> HIDE DEF u
    <2>2. QED
      BY <2>1 DEF Unnamed, Marked
  <1>2. t = [u EXCEPT !.runs[r].handler = "live"]
    BY DEF AddUnique
  <1> HIDE DEF u, t
  <1>3. u.runs[r] \in RunRecords /\ u.runs \in Seq(RunRecords)
    BY <1>1 DEF IsState
  <1>4. /\ live \in RunRecords /\ live.handler = "live"
        /\ live.poll = u.runs[r].poll /\ live.finished = u.runs[r].finished
        /\ live.created = u.runs[r].created
    BY <1>3 DEF RunRecords
  <1>5. t.runs = [u.runs EXCEPT ![r] = live]
        /\ DOMAIN t = {"queue", "requests", "registered", "runs"}
    BY <1>1, <1>2 DEF IsState
  <1> HIDE DEF live
  <1>6. /\ t.runs \in Seq(RunRecords) /\ Len(t.runs) = Len(u.runs)
        /\ DOMAIN t.runs = DOMAIN u.runs
        /\ \A i \in DOMAIN u.runs : t.runs[i] = IF i = r THEN live ELSE u.runs[i]
    BY <1>1, <1>3, <1>4, <1>5
  <1>7. IsState(t)
    BY <1>5, <1>6 DEF IsState
  <1>8. QED
    BY <1>1, <1>4, <1>6, <1>7 DEF t

\* A call adds a run, which has a callback or is refused.
LEMMA BegunRuns ==
  ASSUME NEW s, IsState(s), NEW p \in Polls, NEW ok \in BOOLEAN
  PROVE  LET t == Begun(s, p, ok)
             r == Len(s.runs) + 1
         IN  /\ IsState(t) /\ Len(t.runs) = r
             /\ DOMAIN t.runs = 1..r /\ DOMAIN s.runs = 1..Len(s.runs)
             /\ Len(s.runs) \in Nat
             /\ \A i \in DOMAIN s.runs : t.runs[i] = s.runs[i]
             /\ t.runs[r].poll = p /\ t.runs[r].handler = "none"
             /\ ~t.runs[r].finished /\ t.runs[r].created = ok
  <1> DEFINE new == [poll |-> p, created |-> ok, handler |-> "none",
                     finished |-> FALSE]
             t == Begun(s, p, ok)
  <1>1. /\ new \in RunRecords /\ new.poll = p /\ new.handler = "none"
        /\ ~new.finished /\ new.created = ok
    BY DEF RunRecords
  <1>2. t.runs = Append(s.runs, new)
        /\ DOMAIN t = {"queue", "requests", "registered", "runs"}
    BY DEF Begun, IsState
  <1> HIDE DEF new, t
  <1>3. s.runs \in Seq(RunRecords)
    BY DEF IsState
  <1>4. /\ t.runs \in Seq(RunRecords) /\ Len(t.runs) = Len(s.runs) + 1
        /\ DOMAIN t.runs = 1..(Len(s.runs) + 1)
        /\ DOMAIN s.runs = 1..Len(s.runs) /\ Len(s.runs) \in Nat
        /\ \A i \in DOMAIN s.runs : t.runs[i] = s.runs[i]
        /\ t.runs[Len(s.runs) + 1] = new
    BY <1>1, <1>2, <1>3
  <1>5. QED
    BY <1>1, <1>2, <1>4 DEF IsState, t

\* What a call of RunPoll or RunMatchPoll leaves, whatever it queues: a new run,
\* and, if that has a callback, no other live callback of its poll.
NewRun(s, t, p, ok) ==
  LET r == Len(s.runs) + 1
  IN  /\ IsState(t) /\ Len(t.runs) = r
      /\ \A i \in DOMAIN s.runs :
           /\ t.runs[i].poll = s.runs[i].poll
           /\ t.runs[i].created = s.runs[i].created
           /\ t.runs[i].finished = s.runs[i].finished
           /\ Marked(s.runs[i].handler, t.runs[i].handler)
           /\ CallbackName[s.runs[i].poll] # CallbackName[p]
                => t.runs[i].handler = s.runs[i].handler
      /\ t.runs[r].poll = p /\ ~t.runs[r].finished
      /\ t.runs[r].created = ok
      /\ ok => t.runs[r].handler = "live"
      /\ t.runs[r].handler \in {"none", "live"}
      /\ t.runs[r].handler = "live" =>
           \A i \in DOMAIN s.runs :
             s.runs[i].poll = p => t.runs[i].handler # "live"

\* Its last step adds the callback.
LEMMA AddedRun ==
  ASSUME NEW s, IsState(s), NEW p \in Polls, NEW ok \in BOOLEAN,
         NEW u, SameRuns(Begun(s, p, ok), u)
  PROVE  NewRun(s, AddUnique(u, Len(s.runs) + 1), p, ok)
  <1> DEFINE b == Begun(s, p, ok)
             r == Len(s.runs) + 1
             t == AddUnique(u, r)
  <1>1. /\ Len(b.runs) = r /\ DOMAIN b.runs = 1..r
        /\ DOMAIN s.runs = 1..Len(s.runs) /\ Len(s.runs) \in Nat
        /\ \A i \in DOMAIN s.runs : b.runs[i] = s.runs[i]
        /\ b.runs[r].poll = p /\ b.runs[r].handler = "none" /\ ~b.runs[r].finished
        /\ b.runs[r].created = ok
    BY BegunRuns
  <1>2. IsState(u) /\ u.runs = b.runs
    BY DEF SameRuns
  <1> HIDE DEF b
  <1>3. r \in DOMAIN u.runs
    BY <1>1, <1>2
  <1>4. /\ IsState(t) /\ Len(t.runs) = Len(u.runs)
        /\ DOMAIN t.runs = DOMAIN u.runs
        /\ \A i \in DOMAIN u.runs :
             /\ t.runs[i].poll = u.runs[i].poll
             /\ t.runs[i].created = u.runs[i].created
             /\ t.runs[i].finished = u.runs[i].finished
             /\ i # r => /\ Marked(u.runs[i].handler, t.runs[i].handler)
                         /\ u.runs[i].poll = u.runs[r].poll
                              => t.runs[i].handler # "live"
                         /\ CallbackName[u.runs[i].poll]
                                # CallbackName[u.runs[r].poll]
                              => t.runs[i].handler = u.runs[i].handler
        /\ t.runs[r].handler = "live"
    BY <1>2, <1>3, AddUniqueRuns
  <1> HIDE DEF t
  <1>5. \A i \in DOMAIN s.runs : i \in DOMAIN u.runs /\ i # r
    BY <1>1, <1>2
  <1>6. NewRun(s, t, p, ok)
    BY <1>1, <1>2, <1>3, <1>4, <1>5 DEF NewRun
  <1>7. QED
    BY <1>6 DEF t

LEMMA RunShape ==
  ASSUME NEW s, IsState(s), NEW p \in Polls, NEW ok \in BOOLEAN
  PROVE  NewRun(s, Run(s, p, ok), p, ok)
  <1> DEFINE b == Begun(s, p, ok)
             r == Len(s.runs) + 1
             deleted == Queued(b, "delete", r)
  <1>1. SameRuns(b, b)
    BY BegunRuns DEF SameRuns
  <1>2. ASSUME NEW u, SameRuns(b, u), NEW v, SameRuns(u, v)
        PROVE  SameRuns(b, v)
    BY <1>2 DEF SameRuns
  <1>3. \A u : SameRuns(b, u) => IsState(u)
    BY DEF SameRuns
  <1> HIDE DEF b
  <1>4. SameRuns(b, deleted)
    BY <1>1, <1>2, <1>3, QueuedRuns
  <1> HIDE DEF deleted
  <1>5. NewRun(s, RunPoll(s, p, ok), p, ok)
    <2> DEFINE reset == UnsubscribeFromPoll(deleted, r)
               once == WaitForResponse(reset, reset.requests - 1)
               waited == WaitForResponse(once, reset.requests)
               heard == SubscribeToPoll(waited, r)
               created == IF ok THEN Queued(heard, "create", r) ELSE heard
    <2>1. SameRuns(b, reset)
      BY <1>2, <1>3, <1>4, UnsubscribeRuns
    <2> HIDE DEF reset
    <2>2. SameRuns(b, once)
      BY <1>2, <1>3, <2>1, WaitRuns
    <2> HIDE DEF once
    <2>3. SameRuns(b, waited)
      BY <1>2, <1>3, <2>2, WaitRuns
    <2> HIDE DEF waited
    <2>4. SameRuns(b, heard)
      BY <1>2, <1>3, <2>3, SubscribeRuns
    <2> HIDE DEF heard
    <2>5. SameRuns(b, created)
      BY <1>2, <1>3, <2>4, QueuedRuns
    <2> HIDE DEF created
    <2>6. NewRun(s, AddUnique(created, r), p, ok)
      BY <2>5, AddedRun DEF b
    <2>7. QED
      BY <2>6 DEF RunPoll, created, heard, waited, once, reset, deleted, b
  <1>6. NewRun(s, RunMatchPoll(s, p, ok), p, ok)
    <2> DEFINE once == WaitForResponse(deleted, deleted.requests)
               subscribing == Queued(once, "subscribe", r)
               waited == WaitForResponse(subscribing, subscribing.requests)
               created == Queued(waited, "create", r)
    <2>1. SameRuns(b, once)
      BY <1>2, <1>3, <1>4, WaitRuns
    <2> HIDE DEF once
    <2>2. SameRuns(b, subscribing)
      BY <1>2, <1>3, <2>1, QueuedRuns
    <2> HIDE DEF subscribing
    <2>3. SameRuns(b, waited)
      BY <1>2, <1>3, <2>2, WaitRuns
    <2> HIDE DEF waited
    <2>4. SameRuns(b, created)
      BY <1>2, <1>3, <2>3, QueuedRuns
    <2> HIDE DEF created
    <2>5. NewRun(s, AddUnique(created, r), p, ok)
      BY <2>4, AddedRun DEF b
    <2>6. ASSUME ~ok PROVE NewRun(s, waited, p, ok)
      <3>1. /\ Len(b.runs) = r /\ DOMAIN s.runs = 1..Len(s.runs)
            /\ \A i \in DOMAIN s.runs : b.runs[i] = s.runs[i]
            /\ b.runs[r].poll = p /\ b.runs[r].handler = "none"
            /\ ~b.runs[r].finished /\ b.runs[r].created = ok
        BY BegunRuns DEF b
      <3>2. QED
        BY <2>3, <2>6, <3>1 DEF NewRun, SameRuns, Marked
    <2>7. QED
      BY <2>5, <2>6 DEF RunMatchPoll, created, waited, subscribing, once, deleted, b
  <1>7. QED
    BY <1>5, <1>6 DEF Run

\* The callback that has seen the end of its poll only marks callbacks, and
\* itself as finished.
LEMMA RetiredShape ==
  ASSUME NEW s, IsState(s), NEW r \in DOMAIN s.runs
  PROVE  LET t == Retired(s, r)
         IN  /\ IsState(t) /\ Len(t.runs) = Len(s.runs)
             /\ \A i \in DOMAIN s.runs :
                  /\ t.runs[i].poll = s.runs[i].poll
                  /\ t.runs[i].created = s.runs[i].created
                  /\ i # r => t.runs[i].finished = s.runs[i].finished
                  /\ Marked(s.runs[i].handler, t.runs[i].handler)
                  /\ CallbackName[s.runs[i].poll]
                         # CallbackName[s.runs[r].poll]
                       => t.runs[i].handler = s.runs[i].handler
             /\ t.runs[r].finished
  <1> DEFINE unheard == IF s.runs[r].poll \in MatchPolls
                        THEN Queued(s, "unsubscribe", r)
                        ELSE UnsubscribeFromPoll(s, r)
             u == RemoveByName(unheard, CallbackName[s.runs[r].poll])
             over == [u.runs[r] EXCEPT !.finished = TRUE]
             t == Retired(s, r)
  <1>1. SameRuns(s, unheard)
    BY QueuedRuns, UnsubscribeRuns
  <1>2. IsState(unheard) /\ unheard.runs = s.runs
    BY <1>1 DEF SameRuns
  <1>3. t = [u EXCEPT !.runs[r].finished = TRUE]
    BY DEF Retired
  <1> HIDE DEF unheard
  <1>4. /\ IsState(u) /\ DOMAIN u.runs = DOMAIN s.runs /\ Len(u.runs) = Len(s.runs)
        /\ \A i \in DOMAIN s.runs :
             /\ u.runs[i].poll = s.runs[i].poll
             /\ u.runs[i].created = s.runs[i].created
             /\ u.runs[i].finished = s.runs[i].finished
             /\ Marked(s.runs[i].handler, u.runs[i].handler)
             /\ CallbackName[s.runs[i].poll] # CallbackName[s.runs[r].poll]
                  => u.runs[i].handler = s.runs[i].handler
    <2>1. Unnamed(unheard, u, CallbackName[s.runs[r].poll])
      BY <1>2, RemoveRuns
    <2> HIDE DEF u
    <2>2. QED
      BY <1>2, <2>1 DEF Unnamed, Marked
  <1> HIDE DEF u, t
  <1>5. u.runs[r] \in RunRecords /\ u.runs \in Seq(RunRecords)
    BY <1>4 DEF IsState
  <1>6. /\ over \in RunRecords /\ over.finished
        /\ over.poll = u.runs[r].poll /\ over.handler = u.runs[r].handler
        /\ over.created = u.runs[r].created
    BY <1>5 DEF RunRecords
  <1>7. t.runs = [u.runs EXCEPT ![r] = over]
        /\ DOMAIN t = {"queue", "requests", "registered", "runs"}
    BY <1>3, <1>4 DEF IsState
  <1> HIDE DEF over
  <1>8. /\ t.runs \in Seq(RunRecords) /\ Len(t.runs) = Len(u.runs)
        /\ \A i \in DOMAIN u.runs : t.runs[i] = IF i = r THEN over ELSE u.runs[i]
    BY <1>4, <1>5, <1>6, <1>7
  <1>9. IsState(t)
    BY <1>7, <1>8 DEF IsState
  <1>10. QED
    BY <1>4, <1>6, <1>8, <1>9 DEF t
-----------------------------------------------------------------------------
(* The inductive invariant.                                                 *)

CallRecords == [kind : {"update", "finish"}, run : Nat]

\* Every call is of a run, and a run whose finish callback was called knows it.
CallsKnown(c, s) ==
  \A i \in DOMAIN c :
    /\ c[i].run \in DOMAIN s.runs
    /\ c[i].kind = "finish" => s.runs[c[i].run].finished

\* While a run listens, no later run of its poll has added a callback.
LastListens(s) ==
  \A r, i \in DOMAIN s.runs :
    i > r /\ s.runs[i].poll = s.runs[r].poll /\ s.runs[r].handler = "live"
      => s.runs[i].handler = "none"

RunsInv ==
  /\ IsState(sdk) /\ calls \in Seq(CallRecords)
  /\ CallsKnown(calls, sdk) /\ LastListens(sdk) /\ FinishOnce

\* No run is lost, and a run that has finished stays so.
Grown(s, t) ==
  \A r \in DOMAIN s.runs : /\ r \in DOMAIN t.runs
                           /\ s.runs[r].finished => t.runs[r].finished

LEMMA NewRunKeeps ==
  ASSUME NEW s, IsState(s), LastListens(s), NEW p, NEW ok, NEW t,
         NewRun(s, t, p, ok)
  PROVE  IsState(t) /\ LastListens(t) /\ Grown(s, t)
         /\ \A i \in DOMAIN s.runs : t.runs[i].finished = s.runs[i].finished
  <1> DEFINE n == Len(s.runs) + 1
  <1>1. /\ IsState(t) /\ DOMAIN s.runs = 1..Len(s.runs) /\ Len(s.runs) \in Nat
        /\ DOMAIN t.runs = 1..n
    BY DEF IsState, NewRun
  <1>2. ASSUME NEW r \in DOMAIN t.runs, NEW i \in DOMAIN t.runs, i > r,
               t.runs[i].poll = t.runs[r].poll, t.runs[r].handler = "live"
        PROVE  t.runs[i].handler = "none"
    <2>1. r \in DOMAIN s.runs
      BY <1>1, <1>2
    <2>2. CASE i = n
      BY <1>2, <2>1, <2>2 DEF NewRun
    <2>3. CASE i # n
      <3>1. i \in DOMAIN s.runs
        BY <1>1, <2>3
      <3>2. s.runs[r].handler = "live" /\ s.runs[i].poll = s.runs[r].poll
        BY <1>2, <2>1, <3>1 DEF NewRun, Marked
      <3>3. s.runs[i].handler = "none"
        BY <1>2, <2>1, <3>1, <3>2 DEF LastListens
      <3>4. QED
        BY <3>1, <3>3 DEF NewRun, Marked
    <2>4. QED
      BY <2>2, <2>3
  <1>3. QED
    BY <1>1, <1>2 DEF LastListens, Grown, NewRun

LEMMA RetiredKeeps ==
  ASSUME NEW s, IsState(s), LastListens(s), NEW r \in DOMAIN s.runs
  PROVE  LET t == Retired(s, r)
         IN  IsState(t) /\ LastListens(t) /\ Grown(s, t) /\ t.runs[r].finished
  <1> DEFINE t == Retired(s, r)
  <1>1. /\ IsState(t) /\ Len(t.runs) = Len(s.runs)
        /\ \A i \in DOMAIN s.runs :
             /\ t.runs[i].poll = s.runs[i].poll
             /\ s.runs[i].finished => t.runs[i].finished
             /\ Marked(s.runs[i].handler, t.runs[i].handler)
        /\ t.runs[r].finished
    BY RetiredShape
  <1> HIDE DEF t
  <1>2. DOMAIN t.runs = DOMAIN s.runs
    BY <1>1 DEF IsState
  <1>3. LastListens(t)
    BY <1>1, <1>2 DEF LastListens, Marked
  <1>4. QED
    BY <1>1, <1>2, <1>3 DEF t, Grown
-----------------------------------------------------------------------------
LEMMA RunsInit == Init => RunsInv
  <1> SUFFICES ASSUME Init PROVE RunsInv
    OBVIOUS
  <1>1. sdk.runs = <<>> /\ calls = <<>>
        /\ DOMAIN sdk = {"queue", "requests", "registered", "runs"}
    BY DEF Init
  <1>2. QED
    BY <1>1 DEF RunsInv, IsState, CallsKnown, LastListens, FinishOnce

\* A step that calls nothing needs only keep the runs.
LEMMA QuietStep ==
  ASSUME RunsInv, UNCHANGED calls, IsState(sdk'), LastListens(sdk'),
         Grown(sdk, sdk')
  PROVE  RunsInv'
  <1>1. CallsKnown(calls', sdk')
    BY DEF RunsInv, CallsKnown, Grown
  <1>2. QED
    BY <1>1 DEF RunsInv, LastListens, IsState, FinishOnce

LEMMA StartPollStep ==
  ASSUME RunsInv, NEW p \in Polls, StartPoll(p)
  PROVE  RunsInv'
  <1>1. PICK ok \in BOOLEAN : sdk' = Run(sdk, p, ok)
    BY DEF StartPoll
  <1>2. NewRun(sdk, sdk', p, ok)
    BY <1>1, RunShape DEF RunsInv
  <1>3. QED
    BY <1>2, NewRunKeeps, QuietStep DEF RunsInv, StartPoll

\* Steps that change no more of the SDK than its queue.
LEMMA QueueStep ==
  ASSUME RunsInv, UNCHANGED calls,
         NEW q, sdk' = [sdk EXCEPT !.queue = q]
  PROVE  RunsInv'
  <1>1. sdk'.runs = sdk.runs /\ IsState(sdk')
    BY DEF RunsInv, IsState
  <1>2. LastListens(sdk') /\ Grown(sdk, sdk')
    BY <1>1 DEF RunsInv, LastListens, Grown
  <1>3. QED
    BY <1>1, <1>2, QuietStep

LEMMA ReceiveUpdateStep ==
  ASSUME RunsInv, ReceiveUpdate
  PROVE  RunsInv'
  <1>1. PICK r \in Listening(Head(wire).poll) : Called("update", r)
    BY DEF ReceiveUpdate
  <1> DEFINE call == [kind |-> "update", run |-> r]
  <1>2. r \in DOMAIN sdk.runs /\ r \in Nat
    BY <1>1 DEF Listening, RunsInv, IsState
  <1>3. call \in CallRecords /\ call.kind # "finish" /\ call.run = r
    BY <1>2 DEF CallRecords
  <1>4. calls' = Append(calls, call) /\ UNCHANGED sdk
    BY <1>1 DEF Called, ReceiveUpdate
  <1> HIDE DEF call
  <1>5. /\ calls' \in Seq(CallRecords) /\ DOMAIN calls = 1..Len(calls)
        /\ Len(calls) \in Nat /\ DOMAIN calls' = 1..(Len(calls) + 1)
        /\ \A i \in DOMAIN calls : calls'[i] = calls[i]
        /\ calls'[Len(calls) + 1] = call
    BY <1>3, <1>4 DEF RunsInv
  <1>6. CallsKnown(calls', sdk')
    BY <1>2, <1>3, <1>4, <1>5 DEF RunsInv, CallsKnown
  <1>7. FinishOnce'
    BY <1>3, <1>5 DEF RunsInv, FinishOnce
  <1>8. QED
    BY <1>4, <1>5, <1>6, <1>7 DEF RunsInv, LastListens, IsState

LEMMA ReceiveFinishStep ==
  ASSUME RunsInv, ReceiveFinish
  PROVE  RunsInv'
  <1>1. PICK r \in Listening(Head(wire).poll) :
          /\ ~sdk.runs[r].finished /\ Called("finish", r)
          /\ \/ sdk' = Retired(sdk, r)
             \/ sdk' = Retired(Run(sdk, sdk.runs[r].poll, TRUE), r)
    BY DEF ReceiveFinish
  <1> DEFINE call == [kind |-> "finish", run |-> r]
  <1>2. r \in DOMAIN sdk.runs /\ r \in Nat /\ sdk.runs[r].poll \in Polls
    <2>1. r \in DOMAIN sdk.runs /\ sdk.runs \in Seq(RunRecords)
      BY <1>1 DEF Listening, RunsInv, IsState
    <2>2. sdk.runs[r] \in RunRecords /\ r \in Nat
      BY <2>1
    <2>3. QED
      BY <2>1, <2>2 DEF RunRecords
  <1>3. /\ IsState(sdk') /\ LastListens(sdk') /\ Grown(sdk, sdk')
        /\ sdk'.runs[r].finished
    <2>1. CASE sdk' = Retired(sdk, r)
      BY <1>2, <2>1, RetiredKeeps DEF RunsInv
    <2>2. CASE sdk' = Retired(Run(sdk, sdk.runs[r].poll, TRUE), r)
      <3> DEFINE again == Run(sdk, sdk.runs[r].poll, TRUE)
      <3>1. NewRun(sdk, again, sdk.runs[r].poll, TRUE)
        BY <1>2, RunShape DEF RunsInv
      <3> HIDE DEF again
      <3>2. IsState(again) /\ LastListens(again) /\ Grown(sdk, again)
        BY <3>1, NewRunKeeps DEF RunsInv
      <3>3. r \in DOMAIN again.runs
        BY <1>2, <3>2 DEF Grown
      <3>4. sdk' = Retired(again, r)
        BY <2>2 DEF again
      <3>5. /\ IsState(sdk') /\ LastListens(sdk') /\ Grown(again, sdk')
            /\ sdk'.runs[r].finished
        BY <3>2, <3>3, <3>4, RetiredKeeps
      <3>6. QED
        BY <3>2, <3>5 DEF Grown
    <2>3. QED
      BY <1>1, <2>1, <2>2
  <1>4. call \in CallRecords /\ call.kind = "finish" /\ call.run = r
    BY <1>2 DEF CallRecords
  <1>5. calls' = Append(calls, call)
    BY <1>1 DEF Called
  <1> HIDE DEF call
  <1>6. /\ calls' \in Seq(CallRecords) /\ DOMAIN calls = 1..Len(calls)
        /\ Len(calls) \in Nat /\ DOMAIN calls' = 1..(Len(calls) + 1)
        /\ \A i \in DOMAIN calls : calls'[i] = calls[i]
        /\ calls'[Len(calls) + 1] = call
    BY <1>4, <1>5 DEF RunsInv
  <1>7. CallsKnown(calls', sdk')
    BY <1>2, <1>3, <1>4, <1>6 DEF RunsInv, CallsKnown, Grown
  <1>8. \A i \in DOMAIN calls : calls[i].kind = "finish" => calls[i].run # r
    BY <1>1 DEF RunsInv, CallsKnown
  <1>9. FinishOnce'
    BY <1>4, <1>6, <1>8 DEF RunsInv, FinishOnce
  <1>10. QED
    BY <1>3, <1>6, <1>7, <1>9 DEF RunsInv, LastListens, IsState

LEMMA RunsStep == RunsInv /\ [Next]_vars => RunsInv'
  <1> SUFFICES ASSUME RunsInv, [Next]_vars PROVE RunsInv'
    OBVIOUS
  <1>1. ASSUME UNCHANGED <<sdk, calls>> PROVE RunsInv'
    BY <1>1 DEF RunsInv, IsState, CallsKnown, LastListens, FinishOnce
  <1>2. ASSUME NEW p \in Polls, StartPoll(p) PROVE RunsInv'
    BY <1>2, StartPollStep
  <1>3. ASSUME NEW p \in Polls, Announce(p) PROVE RunsInv'
    BY <1>1, <1>3 DEF Announce
  <1>4. CASE SendRequest
    <2>1. sdk' = [sdk EXCEPT !.queue = Tail(sdk.queue)] /\ UNCHANGED calls
      BY <1>4 DEF SendRequest
    <2>2. QED
      BY <2>1, QueueStep
  <1>5. ASSUME NEW m \in inbox, Serve(m) PROVE RunsInv'
    BY <1>1, <1>5 DEF Serve
  <1>6. CASE ReceiveAnswer
    <2>1. PICK q : sdk' = [sdk EXCEPT !.queue = q] /\ UNCHANGED calls
      BY <1>6 DEF ReceiveAnswer
    <2>2. QED
      BY <2>1, QueueStep
  <1>7. CASE ReceiveUnheard
    BY <1>1, <1>7 DEF ReceiveUnheard
  <1>8. CASE ReceiveUpdate
    BY <1>8, ReceiveUpdateStep
  <1>9. CASE ReceiveFinish
    BY <1>9, ReceiveFinishStep
  <1>10. CASE SkipWait
    <2>1. sdk' = [sdk EXCEPT !.queue = Tail(sdk.queue)] /\ UNCHANGED calls
      BY <1>10 DEF SkipWait
    <2>2. QED
      BY <2>1, QueueStep
  <1>11. CASE UNCHANGED vars
    BY <1>1, <1>11 DEF vars
  <1>12. QED
    BY <1>2, <1>3, <1>4, <1>5, <1>6, <1>7, <1>8, <1>9, <1>10, <1>11 DEF Next

\* The finish callback of a run is called once, however often the server
\* announces the end of its poll, and also when that callback runs the poll
\* again (the callback of src/gamelink_poll.cpp:145-160).
THEOREM FinishesOnce == Spec => []FinishOnce
  <1>1. RunsInv => FinishOnce
    BY DEF RunsInv
  <1>2. QED
    BY <1>1, RunsInit, RunsStep, PTL DEF Spec

\* A run calls nothing any more once a later run of its poll has added its
\* callback (AddUnique at src/gamelink_poll.cpp:145).
THEOREM ReplacedSilent == Spec => ReplacedStaysSilent
  <1> DEFINE Silent == Len(calls') > Len(calls) =>
                         LET r == Last(calls').run
                         IN  \A i \in DOMAIN sdk.runs :
                               i > r /\ sdk.runs[i].poll = sdk.runs[r].poll
                                 => sdk.runs[i].handler = "none"
  <1>1. RunsInv /\ [Next]_vars => [Silent]_vars
    <2> SUFFICES ASSUME RunsInv, [Next]_vars PROVE Silent
      OBVIOUS
    <2>1. calls \in Seq(CallRecords) /\ LastListens(sdk) /\ IsState(sdk)
      BY DEF RunsInv
    <2>2. ASSUME UNCHANGED calls PROVE Silent
      BY <2>1, <2>2
    <2>3. ASSUME NEW kind \in {"update", "finish"},
                 NEW r \in Listening(Head(wire).poll), Called(kind, r)
          PROVE  Silent
      <3> DEFINE call == [kind |-> kind, run |-> r]
      <3>1. r \in DOMAIN sdk.runs /\ sdk.runs[r].handler = "live" /\ r \in Nat
        BY <2>1, <2>3 DEF Listening, IsState
      <3>2. call \in CallRecords /\ call.run = r
        BY <3>1 DEF CallRecords
      <3>3. calls' = Append(calls, call)
        BY <2>3 DEF Called
      <3> HIDE DEF call
      <3>4. Last(calls').run = r
        BY <2>1, <3>2, <3>3 DEF Last
      <3>5. QED
        BY <2>1, <3>1, <3>4 DEF LastListens
    <2> HIDE DEF Silent
    <2>4. CASE ReceiveUpdate
      BY <2>3, <2>4 DEF ReceiveUpdate
    <2>5. CASE ReceiveFinish
      BY <2>3, <2>5 DEF ReceiveFinish
    <2>6. CASE UNCHANGED calls
      BY <2>2, <2>6
    <2>7. QED
      BY <2>4, <2>5, <2>6 DEF Next, StartPoll, Announce, SendRequest, Serve,
                              ReceiveAnswer, ReceiveUnheard, SkipWait, vars
  <1>2. QED
    BY <1>1, RunsInit, RunsStep, PTL DEF Spec, ReplacedStaysSilent
-----------------------------------------------------------------------------
(* What the functions of the SDK do to the queue.                           *)

AnyEntry == [op : Operations \cup {"wait"}, run : Nat, n : Nat]

QueueState(s) ==
  /\ s.queue \in Seq(AnyEntry) /\ s.requests \in Nat
  /\ s.registered \subseteq Range(Topic)

\* A request of k runs and n requests, or a wait for one of them.
Fits(e, k, n) == IF e.op = "wait" THEN e.run = 0 /\ e.n <= n
                 ELSE e.run \in 1..k /\ e.n \in 1..n

Request(op, r, n) == [op |-> op, run |-> r, n |-> n]
Wait(n) == [op |-> "wait", run |-> 0, n |-> n]

\* t is s with e queued behind the rest, n requests having been made.
Adds(s, t, e, n) ==
  /\ IsState(t) /\ QueueState(t)
  /\ t.queue = Append(s.queue, e) /\ t.requests = n

LEMMA QueuedAdds ==
  ASSUME NEW s, IsState(s), QueueState(s), NEW op \in Operations, NEW r \in Nat
  PROVE  LET t == Queued(s, op, r)
         IN  /\ Adds(s, t, Request(op, r, s.requests + 1), s.requests + 1)
             /\ t.registered = s.registered /\ t.runs = s.runs
  <1> DEFINE e == Request(op, r, s.requests + 1)
             t == Queued(s, op, r)
  <1>1. e \in AnyEntry
    BY DEF QueueState, AnyEntry, Request
  <1>2. /\ t.queue = Append(s.queue, e) /\ t.requests = s.requests + 1
        /\ t.registered = s.registered /\ t.runs = s.runs
    BY DEF IsState, Queued, Request
  <1>3. IsState(t)
    BY QueuedRuns DEF SameRuns
  <1> HIDE DEF e, t
  <1>4. QueueState(t)
    BY <1>1, <1>2 DEF QueueState
  <1>5. QED
    BY <1>2, <1>3, <1>4 DEF Adds, e, t

LEMMA WaitAdds ==
  ASSUME NEW s, IsState(s), QueueState(s), NEW n \in Nat
  PROVE  LET t == WaitForResponse(s, n)
         IN  /\ Adds(s, t, Wait(n), s.requests)
             /\ t.registered = s.registered /\ t.runs = s.runs
  <1> DEFINE t == WaitForResponse(s, n)
  <1>1. Wait(n) \in AnyEntry
    BY DEF AnyEntry, Wait
  <1>2. /\ t.queue = Append(s.queue, Wait(n)) /\ t.requests = s.requests
        /\ t.registered = s.registered /\ t.runs = s.runs
    BY DEF IsState, WaitForResponse, Wait
  <1>3. IsState(t)
    BY WaitRuns DEF SameRuns
  <1> HIDE DEF t
  <1>4. QueueState(t)
    BY <1>1, <1>2 DEF QueueState
  <1>5. QED
    BY <1>2, <1>3, <1>4 DEF Adds, t

LEMMA TopicOfRun ==
  ASSUME NEW s, IsState(s), NEW r \in DOMAIN s.runs
  PROVE  s.runs[r].poll \in Polls /\ Topic[s.runs[r].poll] \in Range(Topic)
         /\ r \in Nat
  <1>1. s.runs[r] \in RunRecords /\ r \in Nat
    BY DEF IsState
  <1>2. s.runs[r].poll \in Polls
    BY <1>1 DEF RunRecords
  <1>3. QED
    BY <1>1, <1>2, PollsAssumption DEF Range

\* SubscribeToPoll, when the topic is not registered.
LEMMA SubscribeAdds ==
  ASSUME NEW s, IsState(s), QueueState(s), NEW r \in DOMAIN s.runs,
         Topic[s.runs[r].poll] \notin s.registered
  PROVE  LET t == SubscribeToPoll(s, r)
         IN  /\ Adds(s, t, Request("subscribe", r, s.requests + 1),
                     s.requests + 1)
             /\ t.runs = s.runs
  <1> DEFINE topic == Topic[s.runs[r].poll]
             u == Queued(s, "subscribe", r)
             t == SubscribeToPoll(s, r)
             e == Request("subscribe", r, s.requests + 1)
  <1>1. topic \in Range(Topic) /\ r \in Nat
    BY TopicOfRun
  <1>2. Adds(s, u, e, s.requests + 1) /\ u.registered = s.registered
        /\ u.runs = s.runs
    BY <1>1, QueuedAdds DEF Operations
  <1>3. t = [u EXCEPT !.registered = @ \cup {topic}]
    BY DEF SubscribeToPoll
  <1>4. IsState(t)
    BY SubscribeRuns DEF SameRuns
  <1> HIDE DEF u, t, e, topic
  <1>5. /\ t.queue = u.queue /\ t.requests = u.requests /\ t.runs = u.runs
        /\ t.registered = u.registered \cup {topic}
    BY <1>2, <1>3 DEF Adds, IsState
  <1>6. QED
    BY <1>1, <1>2, <1>4, <1>5 DEF Adds, QueueState, t, e, topic

LEMMA UnsubscribeAdds ==
  ASSUME NEW s, IsState(s), QueueState(s), NEW r \in DOMAIN s.runs
  PROVE  LET t == UnsubscribeFromPoll(s, r)
         IN  /\ Adds(s, t, Request("unsubscribe", r, s.requests + 1),
                     s.requests + 1)
             /\ t.registered = s.registered \ {Topic[s.runs[r].poll]}
             /\ t.runs = s.runs
  <1> DEFINE topic == Topic[s.runs[r].poll]
             u == [s EXCEPT !.registered = @ \ {topic}]
             t == UnsubscribeFromPoll(s, r)
             e == Request("unsubscribe", r, s.requests + 1)
  <1>1. topic \in Range(Topic) /\ r \in Nat
    BY TopicOfRun
  <1>2. /\ u.queue = s.queue /\ u.requests = s.requests /\ u.runs = s.runs
        /\ u.registered = s.registered \ {topic} /\ IsState(u)
    BY DEF IsState
  <1>3. t = Queued(u, "unsubscribe", r)
    BY DEF UnsubscribeFromPoll
  <1> HIDE DEF u, t, topic
  <1>4. QueueState(u)
    BY <1>2 DEF QueueState
  <1>5. Adds(u, t, e, s.requests + 1) /\ t.registered = u.registered
        /\ t.runs = u.runs
    BY <1>1, <1>2, <1>3, <1>4, QueuedAdds DEF Operations
  <1>6. QED
    BY <1>2, <1>5 DEF Adds, t, topic

\* A state with the same queue, requests and topics.
SameQueue(s, t) ==
  t.queue = s.queue /\ t.requests = s.requests /\ t.registered = s.registered

LEMMA RemoveQueue ==
  ASSUME NEW s, IsState(s), NEW name
  PROVE  SameQueue(s, RemoveByName(s, name))
  BY DEF IsState, RemoveByName, SameQueue

LEMMA AddUniqueQueue ==
  ASSUME NEW s, IsState(s), NEW r
  PROVE  SameQueue(s, AddUnique(s, r))
  <1> DEFINE u == RemoveByName(s, CallbackName[s.runs[r].poll])
  <1>1. SameQueue(s, u)
    BY RemoveQueue
  <1>2. DOMAIN u = {"queue", "requests", "registered", "runs"}
    BY DEF IsState, RemoveByName
  <1>3. AddUnique(s, r) = [u EXCEPT !.runs[r].handler = "live"]
    BY DEF AddUnique
  <1> HIDE DEF u
  <1>4. QED
    BY <1>1, <1>2, <1>3 DEF SameQueue

LEMMA BegunQueue ==
  ASSUME NEW s, IsState(s), NEW p, NEW ok
  PROVE  SameQueue(s, Begun(s, p, ok))
  BY DEF IsState, Begun, SameQueue

\* Entry j waits, at the least, for the response of request n.
Behind(q, n, j) == \E i \in DOMAIN q : i < j /\ q[i].op = "wait" /\ q[i].n = n

\* What may be done only after a request, lest that undoes it.
After(op) == IF op = "delete" THEN "create" ELSE "subscribe"

\* t is s with more entries, whose requests are of run r and numbered on.
Queues(s, t, r) ==
  LET q == s.queue
      u == t.queue
      new == (Len(q) + 1)..Len(u)
  IN  /\ QueueState(t) /\ Len(u) >= Len(q) /\ t.requests >= s.requests
      /\ \A i \in 1..Len(q) : u[i] = q[i]
      /\ \A i \in new : u[i].op = "wait" => u[i].run = 0 /\ u[i].n <= t.requests
      /\ \A i \in new : u[i].op # "wait" =>
           u[i].run = r /\ u[i].n > s.requests /\ u[i].n <= t.requests
      /\ \A i, j \in new :
           i # j /\ u[i].op # "wait" /\ u[j].op # "wait" => u[i].n # u[j].n

\* Among them, the poll is made and heard, after what resets it is answered.
MakesAfterReset(s, t) ==
  LET u == t.queue
      new == (Len(s.queue) + 1)..Len(u)
  IN  /\ \E i \in new : u[i].op = "create"
      /\ \E i \in new : u[i].op = "subscribe"
      /\ \A i, j \in new :
           u[i].op \in {"delete", "unsubscribe"} /\ u[j].op = After(u[i].op)
             => Behind(u, u[i].n, j)

\* One entry more leaves the others where they are.
LEMMA AddsEntry ==
  ASSUME NEW s, QueueState(s), NEW e, NEW n, NEW t, Adds(s, t, e, n)
  PROVE  /\ Len(t.queue) = Len(s.queue) + 1 /\ Len(s.queue) \in Nat
         /\ DOMAIN t.queue = 1..(Len(s.queue) + 1)
         /\ DOMAIN s.queue = 1..Len(s.queue)
         /\ \A i \in 1..Len(s.queue) : t.queue[i] = s.queue[i]
         /\ t.queue[Len(s.queue) + 1] = e
         /\ t.requests = n
  BY DEF Adds, QueueState

LEMMA QueuesNothing ==
  ASSUME NEW s, QueueState(s), NEW t, SameQueue(s, t), NEW r
  PROVE  Queues(s, t, r)
  <1>1. /\ t.queue = s.queue /\ t.requests = s.requests /\ QueueState(t)
        /\ s.queue \in Seq(AnyEntry) /\ s.requests \in Nat
    BY DEF SameQueue, QueueState
  <1>2. \A i : i \notin (Len(s.queue) + 1)..Len(s.queue)
    BY <1>1
  <1>3. Len(s.queue) >= Len(s.queue) /\ s.requests >= s.requests
    BY <1>1
  <1>4. QED
    BY <1>1, <1>2, <1>3 DEF Queues

LEMMA QueuesRequest ==
  ASSUME NEW s, QueueState(s), NEW t, NEW r, Queues(s, t, r), NEW op \in Operations,
         NEW v, Adds(t, v, Request(op, r, t.requests + 1), t.requests + 1)
  PROVE  Queues(s, v, r)
  <1> DEFINE q == s.queue
             u == t.queue
             w == v.queue
             e == Request(op, r, t.requests + 1)
  <1>1. /\ QueueState(t) /\ QueueState(v) /\ v.requests = t.requests + 1
        /\ t.requests \in Nat /\ s.requests \in Nat /\ t.requests >= s.requests
        /\ Len(q) \in Nat /\ Len(u) \in Nat /\ Len(u) >= Len(q)
    BY DEF Queues, Adds, QueueState
  <1>2. /\ Len(w) = Len(u) + 1 /\ \A i \in 1..Len(u) : w[i] = u[i]
        /\ w[Len(u) + 1] = e
    BY <1>1, AddsEntry
  <1>3. e.op # "wait" /\ e.run = r /\ e.n = t.requests + 1
    BY DEF Request, Operations
  <1> HIDE DEF e
  <1>4. ASSUME NEW i \in (Len(q) + 1)..Len(w)
        PROVE  \/ i \in (Len(q) + 1)..Len(u) /\ w[i] = u[i]
               \/ w[i] = e /\ i = Len(u) + 1
    BY <1>1, <1>2
  <1>5. \A i \in 1..Len(q) : w[i] = q[i]
    BY <1>1, <1>2 DEF Queues
  <1> DEFINE Old == (Len(q) + 1)..Len(u)
  <1>6. \A i \in Old : u[i] \in AnyEntry
    BY <1>1 DEF QueueState
  <1>7. \A i \in Old : u[i].n \in Nat
    BY <1>6 DEF AnyEntry
  <1>8. /\ \A i \in Old : u[i].op = "wait" => u[i].run = 0 /\ u[i].n <= t.requests
        /\ \A i \in Old : u[i].op # "wait" =>
             u[i].run = r /\ u[i].n > s.requests /\ u[i].n <= t.requests
    BY DEF Queues
  <1> HIDE DEF q, u, w
  <1>9. ASSUME NEW i \in (Len(q) + 1)..Len(w), w[i].op = "wait"
        PROVE  w[i].run = 0 /\ w[i].n <= v.requests
    <2>1. i \in (Len(q) + 1)..Len(u) /\ w[i] = u[i]
      BY <1>3, <1>4, <1>9
    <2>2. u[i].run = 0 /\ u[i].n <= t.requests /\ u[i].n \in Nat
      BY <1>9, <1>7, <1>8, <2>1
    <2>3. QED
      BY <1>1, <2>1, <2>2
  <1>10. ASSUME NEW i \in (Len(q) + 1)..Len(w), w[i].op # "wait"
        PROVE  w[i].run = r /\ w[i].n > s.requests /\ w[i].n <= v.requests
               /\ (i # Len(u) + 1 => w[i].n <= t.requests)
    <2>1. CASE w[i] = e
      <3>1. s.requests < t.requests + 1 /\ t.requests + 1 <= v.requests
        BY <1>1
      <3>2. i = Len(u) + 1
        BY <1>1, <1>3, <1>4, <1>10, <1>7, <1>8, <2>1
      <3>3. QED
        BY <1>3, <2>1, <3>1, <3>2
    <2>2. CASE i \in (Len(q) + 1)..Len(u) /\ w[i] = u[i]
      <3>1. /\ u[i].run = r /\ u[i].n > s.requests /\ u[i].n <= t.requests
            /\ u[i].n \in Nat
        BY <1>10, <1>7, <1>8, <2>2
      <3>2. QED
        BY <1>1, <2>2, <3>1
    <2>3. QED
      BY <1>4, <2>1, <2>2
  <1>11. ASSUME NEW i \in (Len(q) + 1)..Len(w), NEW j \in (Len(q) + 1)..Len(w),
               i # j, w[i].op # "wait", w[j].op # "wait"
        PROVE  w[i].n # w[j].n
    <2>1. CASE i # Len(u) + 1 /\ j # Len(u) + 1
      BY <1>4, <1>11, <2>1 DEF Queues, q, u
    <2>2. CASE i = Len(u) + 1
      <3>1. w[j].n <= t.requests /\ w[i].n = t.requests + 1
        BY <1>2, <1>3, <1>10, <1>11, <2>2
      <3>2. QED
        BY <1>1, <3>1
    <2>3. CASE j = Len(u) + 1
      <3>1. w[i].n <= t.requests /\ w[j].n = t.requests + 1
        BY <1>2, <1>3, <1>10, <1>11, <2>3
      <3>2. QED
        BY <1>1, <3>1
    <2>4. QED
      BY <2>1, <2>2, <2>3
  <1>12. Len(w) >= Len(q) /\ v.requests >= s.requests
    BY <1>1, <1>2
  <1>13. QED
    BY <1>1, <1>5, <1>9, <1>10, <1>11, <1>12 DEF Queues, q, w

LEMMA QueuesWait ==
  ASSUME NEW s, QueueState(s), NEW t, NEW r, Queues(s, t, r), NEW n, n <= t.requests,
         NEW v, Adds(t, v, Wait(n), t.requests)
  PROVE  Queues(s, v, r)
  <1> DEFINE q == s.queue
             u == t.queue
             w == v.queue
  <1>1. /\ QueueState(t) /\ QueueState(v) /\ v.requests = t.requests
        /\ Len(q) \in Nat /\ Len(u) \in Nat /\ Len(u) >= Len(q)
        /\ t.requests >= s.requests
    BY DEF Queues, Adds, QueueState
  <1>2. /\ Len(w) = Len(u) + 1 /\ \A i \in 1..Len(u) : w[i] = u[i]
        /\ w[Len(u) + 1] = Wait(n)
    BY <1>1, AddsEntry
  <1>3. Wait(n).op = "wait" /\ Wait(n).run = 0 /\ Wait(n).n = n
    BY DEF Wait
  <1>4. ASSUME NEW i \in (Len(q) + 1)..Len(w)
        PROVE  \/ i \in (Len(q) + 1)..Len(u) /\ w[i] = u[i]
               \/ w[i] = Wait(n)
    BY <1>1, <1>2
  <1>5. \A i \in 1..Len(q) : w[i] = q[i]
    BY <1>1, <1>2 DEF Queues
  <1>6. Len(w) >= Len(q)
    BY <1>1, <1>2
  <1> HIDE DEF q, u, w
  <1>7. \A i \in (Len(q) + 1)..Len(w) :
          w[i].op = "wait" => w[i].run = 0 /\ w[i].n <= v.requests
    BY <1>1, <1>3, <1>4 DEF Queues, q, u
  <1>8. \A i \in (Len(q) + 1)..Len(w) : w[i].op # "wait" =>
          w[i].run = r /\ w[i].n > s.requests /\ w[i].n <= v.requests
    BY <1>1, <1>3, <1>4 DEF Queues, q, u
  <1>9. \A i, j \in (Len(q) + 1)..Len(w) :
          i # j /\ w[i].op # "wait" /\ w[j].op # "wait" => w[i].n # w[j].n
    BY <1>3, <1>4 DEF Queues, q, u
  <1>10. QED
    BY <1>1, <1>5, <1>6, <1>7, <1>8, <1>9 DEF Queues, q, w

\* The first entry of a call.
LEMMA DeleteAdded ==
  ASSUME NEW s, IsState(s), QueueState(s), NEW p \in Polls, NEW ok \in BOOLEAN
  PROVE  LET b == Begun(s, p, ok)
             r == Len(s.runs) + 1
             t == Queued(b, "delete", r)
         IN  /\ IsState(b) /\ QueueState(b) /\ SameQueue(s, b)
             /\ r \in Nat /\ r \in DOMAIN b.runs /\ b.runs[r].poll = p
             /\ Adds(b, t, Request("delete", r, s.requests + 1), s.requests + 1)
             /\ t.runs = b.runs
  <1> DEFINE b == Begun(s, p, ok)
             r == Len(s.runs) + 1
  <1>1. IsState(b) /\ r \in Nat /\ r \in DOMAIN b.runs /\ b.runs[r].poll = p
    <2>1. /\ IsState(b) /\ DOMAIN b.runs = 1..r /\ Len(s.runs) \in Nat
          /\ b.runs[r].poll = p
      BY BegunRuns
    <2>2. QED
      BY <2>1
  <1>2. SameQueue(s, b)
    BY BegunQueue
  <1> HIDE DEF b
  <1>3. QueueState(b)
    BY <1>2 DEF SameQueue, QueueState
  <1>4. b.requests = s.requests
    BY <1>2 DEF SameQueue
  <1>5. QED
    BY <1>1, <1>2, <1>3, <1>4, QueuedAdds DEF Operations, b

LEMMA RunPollQueue ==
  ASSUME NEW s, IsState(s), QueueState(s), NEW p \in Polls, NEW ok \in BOOLEAN
  PROVE  LET t == RunPoll(s, p, ok)
         IN  /\ Queues(s, t, Len(s.runs) + 1)
             /\ ok => MakesAfterReset(s, t)
  <1> DEFINE r == Len(s.runs) + 1
             N == s.requests
             b == Begun(s, p, ok)
             deleted == Queued(b, "delete", r)
             reset == UnsubscribeFromPoll(deleted, r)
             once == WaitForResponse(reset, reset.requests - 1)
             waited == WaitForResponse(once, reset.requests)
             heard == SubscribeToPoll(waited, r)
             made == IF ok THEN Queued(heard, "create", r) ELSE heard
             t == AddUnique(made, r)
  <1>1. /\ QueueState(b) /\ SameQueue(s, b) /\ N \in Nat
        /\ r \in Nat /\ r \in DOMAIN b.runs /\ b.runs[r].poll = p
        /\ Adds(b, deleted, Request("delete", r, N + 1), N + 1)
        /\ deleted.runs = b.runs
    BY DeleteAdded DEF QueueState
  <1> HIDE DEF b, deleted
  <1>2. /\ Adds(deleted, reset, Request("unsubscribe", r, N + 2), N + 2)
        /\ reset.runs = b.runs /\ Topic[p] \notin reset.registered
    <2>1. IsState(deleted) /\ QueueState(deleted) /\ deleted.requests = N + 1
          /\ r \in DOMAIN deleted.runs /\ deleted.runs[r].poll = p
      BY <1>1 DEF Adds
    <2>2. /\ Adds(deleted, reset,
                  Request("unsubscribe", r, deleted.requests + 1),
                  deleted.requests + 1)
          /\ reset.registered = deleted.registered \ {Topic[p]}
          /\ reset.runs = b.runs
      BY <1>1, <2>1, UnsubscribeAdds
    <2>3. deleted.requests + 1 = N + 2
      BY <1>1, <2>1
    <2>4. QED
      BY <2>2, <2>3
  <1> HIDE DEF reset
  <1>3. /\ Adds(reset, once, Wait(N + 1), N + 2)
        /\ once.runs = b.runs /\ Topic[p] \notin once.registered
    <2>1. IsState(reset) /\ QueueState(reset) /\ reset.requests = N + 2
          /\ reset.requests - 1 = N + 1 /\ N + 1 \in Nat
      BY <1>1, <1>2 DEF Adds
    <2>2. QED
      BY <1>2, <2>1, WaitAdds
  <1> HIDE DEF once
  <1>4. /\ Adds(once, waited, Wait(N + 2), N + 2)
        /\ waited.runs = b.runs /\ Topic[p] \notin waited.registered
    <2>1. IsState(once) /\ QueueState(once) /\ once.requests = N + 2
          /\ reset.requests = N + 2 /\ N + 2 \in Nat
      BY <1>1, <1>2, <1>3 DEF Adds
    <2>2. QED
      BY <1>3, <2>1, WaitAdds
  <1> HIDE DEF waited
  <1>5. /\ Adds(waited, heard, Request("subscribe", r, N + 3), N + 3)
        /\ heard.runs = b.runs
    <2>1. IsState(waited) /\ QueueState(waited) /\ waited.requests = N + 2
          /\ waited.requests + 1 = N + 3
          /\ r \in DOMAIN waited.runs /\ waited.runs[r].poll = p
      BY <1>1, <1>4 DEF Adds
    <2>2. QED
      BY <1>4, <2>1, SubscribeAdds
  <1> HIDE DEF heard
  <1>6. ok => Adds(heard, made, Request("create", r, N + 4), N + 4)
    <2>1. IsState(heard) /\ QueueState(heard) /\ heard.requests + 1 = N + 4
      BY <1>1, <1>5 DEF Adds
    <2>2. QED
      BY <1>1, <2>1, QueuedAdds DEF Operations
  <1>7. ~ok => made = heard
    OBVIOUS
  <1> HIDE DEF made
  <1>8. IsState(made) /\ QueueState(made)
    BY <1>5, <1>6, <1>7 DEF Adds
  <1>9. SameQueue(made, t)
    BY <1>8, AddUniqueQueue
  <1>10. t = RunPoll(s, p, ok)
    BY DEF RunPoll, t, made, heard, waited, once, reset, deleted, b
  <1> HIDE DEF t
  <1>11. QueueState(t) /\ t.queue = made.queue /\ t.requests = made.requests
    BY <1>8, <1>9 DEF SameQueue, QueueState
  <1>12. Queues(s, t, r)
    <2>1. /\ b.requests = N /\ deleted.requests = N + 1 /\ reset.requests = N + 2
          /\ once.requests = N + 2 /\ waited.requests = N + 2
          /\ heard.requests = N + 3
      BY <1>1, <1>2, <1>3, <1>4, <1>5 DEF Adds, SameQueue
    <2>2. /\ N + 1 = (N + 1) /\ N + 2 = (N + 1) + 1 /\ N + 3 = (N + 2) + 1
          /\ N + 4 = (N + 3) + 1 /\ N + 1 <= N + 2 /\ N + 2 <= N + 2
      BY <1>1
    <2> HIDE DEF N, r
    <2>3. Queues(s, b, r)
      BY <1>1, QueuesNothing
    <2>4. Queues(s, deleted, r)
      BY <1>1, <2>1, <2>3, QueuesRequest DEF Operations
    <2>5. Queues(s, reset, r)
      BY <1>2, <2>1, <2>2, <2>4, QueuesRequest DEF Operations
    <2>6. Queues(s, once, r)
      BY <1>3, <2>1, <2>2, <2>5, QueuesWait
    <2>7. Queues(s, waited, r)
      BY <1>4, <2>1, <2>2, <2>6, QueuesWait
    <2>8. Queues(s, heard, r)
      BY <1>5, <2>1, <2>2, <2>7, QueuesRequest DEF Operations
    <2>9. Queues(s, made, r)
      BY <1>6, <1>7, <2>1, <2>2, <2>8, QueuesRequest DEF Operations
    <2>10. QED
      BY <1>11, <2>9 DEF Queues
  <1>13. ASSUME ok PROVE MakesAfterReset(s, t)
    <2> DEFINE k == Len(s.queue)
               u == t.queue
    <2>1. /\ k \in Nat /\ Len(b.queue) = k /\ QueueState(deleted)
          /\ QueueState(reset) /\ QueueState(once) /\ QueueState(waited)
          /\ QueueState(heard) /\ u = made.queue
      <3>1. k \in Nat
        BY DEF QueueState
      <3>2. b.queue = s.queue
        BY <1>1 DEF SameQueue
      <3>3. /\ QueueState(deleted) /\ QueueState(reset) /\ QueueState(once)
            /\ QueueState(waited) /\ QueueState(heard)
        BY <1>1, <1>2, <1>3, <1>4, <1>5 DEF Adds
      <3>4. QED
        BY <1>11, <3>1, <3>2, <3>3
    <2> HIDE DEF u, k, N, r
    <2>2. /\ Len(deleted.queue) = k + 1
          /\ deleted.queue[k + 1] = Request("delete", r, N + 1)
      BY <1>1, <2>1, AddsEntry
    <2>3. /\ Len(reset.queue) = k + 2
          /\ \A i \in 1..(k + 1) : reset.queue[i] = deleted.queue[i]
          /\ reset.queue[k + 2] = Request("unsubscribe", r, N + 2)
      BY <1>2, <2>1, <2>2, AddsEntry
    <2>4. /\ Len(once.queue) = k + 3
          /\ \A i \in 1..(k + 2) : once.queue[i] = reset.queue[i]
          /\ once.queue[k + 3] = Wait(N + 1)
      BY <1>3, <2>1, <2>3, AddsEntry
    <2>5. /\ Len(waited.queue) = k + 4
          /\ \A i \in 1..(k + 3) : waited.queue[i] = once.queue[i]
          /\ waited.queue[k + 4] = Wait(N + 2)
      BY <1>4, <2>1, <2>4, AddsEntry
    <2>6. /\ Len(heard.queue) = k + 5
          /\ \A i \in 1..(k + 4) : heard.queue[i] = waited.queue[i]
          /\ heard.queue[k + 5] = Request("subscribe", r, N + 3)
      BY <1>5, <2>1, <2>5, AddsEntry
    <2>7. /\ Len(u) = k + 6 /\ DOMAIN u = 1..(k + 6)
          /\ \A i \in 1..(k + 5) : u[i] = heard.queue[i]
          /\ u[k + 6] = Request("create", r, N + 4)
      BY <1>6, <1>13, <2>1, <2>6, AddsEntry
    <2>8. /\ k + 1 \in 1..(k + 1) /\ k + 2 \in 1..(k + 2) /\ k + 3 \in 1..(k + 3)
          /\ k + 1 \in 1..(k + 2) /\ k + 2 \in 1..(k + 3) /\ k + 3 \in 1..(k + 4)
          /\ k + 1 \in 1..(k + 3) /\ k + 2 \in 1..(k + 4) /\ k + 3 \in 1..(k + 5)
          /\ k + 1 \in 1..(k + 4) /\ k + 2 \in 1..(k + 5) /\ k + 4 \in 1..(k + 4)
          /\ k + 1 \in 1..(k + 5) /\ k + 4 \in 1..(k + 5) /\ k + 5 \in 1..(k + 5)
      BY <2>1
    <2>9. /\ u[k + 1] = Request("delete", r, N + 1)
          /\ u[k + 2] = Request("unsubscribe", r, N + 2)
          /\ u[k + 3] = Wait(N + 1) /\ u[k + 4] = Wait(N + 2)
          /\ u[k + 5] = Request("subscribe", r, N + 3)
      <3>1. /\ u[k + 1] = heard.queue[k + 1] /\ u[k + 2] = heard.queue[k + 2]
            /\ u[k + 3] = heard.queue[k + 3] /\ u[k + 4] = heard.queue[k + 4]
            /\ u[k + 5] = heard.queue[k + 5]
        BY <2>7, <2>8
      <3>2. /\ heard.queue[k + 1] = waited.queue[k + 1]
            /\ heard.queue[k + 2] = waited.queue[k + 2]
            /\ heard.queue[k + 3] = waited.queue[k + 3]
            /\ heard.queue[k + 4] = waited.queue[k + 4]
        BY <2>6, <2>8
      <3>3. /\ waited.queue[k + 1] = once.queue[k + 1]
            /\ waited.queue[k + 2] = once.queue[k + 2]
            /\ waited.queue[k + 3] = once.queue[k + 3]
        BY <2>5, <2>8
      <3>4. /\ once.queue[k + 1] = reset.queue[k + 1]
            /\ once.queue[k + 2] = reset.queue[k + 2]
        BY <2>4, <2>8
      <3>5. reset.queue[k + 1] = deleted.queue[k + 1]
        BY <2>3, <2>8
      <3>6. QED
        BY <2>2, <2>3, <2>4, <2>5, <2>6, <3>1, <3>2, <3>3, <3>4, <3>5
    <2>10. \A i \in (k + 1)..(k + 6) :
             \/ i = k + 1 \/ i = k + 2 \/ i = k + 3 \/ i = k + 4
             \/ i = k + 5 \/ i = k + 6
      BY <2>1
    <2>11. /\ \E i \in (k + 1)..(k + 6) : u[i].op = "create"
           /\ \E i \in (k + 1)..(k + 6) : u[i].op = "subscribe"
      <3>1. k + 5 \in (k + 1)..(k + 6) /\ k + 6 \in (k + 1)..(k + 6)
        BY <2>1
      <3>2. QED
        BY <2>7, <2>9, <3>1 DEF Request
    <2>12. ASSUME NEW i \in (k + 1)..(k + 6), NEW j \in (k + 1)..(k + 6),
                  u[i].op \in {"delete", "unsubscribe"},
                  u[j].op = After(u[i].op)
           PROVE  Behind(u, u[i].n, j)
      <3>1. \/ u[i].n = N + 1 /\ j = k + 6
            \/ u[i].n = N + 2 /\ j = k + 5
        <4>1. /\ u[k + 1].op = "delete" /\ u[k + 2].op = "unsubscribe"
              /\ u[k + 3].op = "wait" /\ u[k + 4].op = "wait"
              /\ u[k + 5].op = "subscribe" /\ u[k + 6].op = "create"
              /\ u[k + 1].n = N + 1 /\ u[k + 2].n = N + 2
          BY <2>7, <2>9 DEF Request, Wait
        <4>2. \/ i = k + 1 /\ u[j].op = "create"
              \/ i = k + 2 /\ u[j].op = "subscribe"
          BY <2>10, <2>12, <4>1 DEF After
        <4>3. QED
          BY <2>10, <4>1, <4>2
      <3>2. /\ k + 3 \in DOMAIN u /\ k + 4 \in DOMAIN u
            /\ k + 3 < k + 6 /\ k + 4 < k + 5
        BY <2>1, <2>7
      <3>3. QED
        BY <2>9, <3>1, <3>2 DEF Behind, Wait
    <2>13. QED
      BY <2>7, <2>11, <2>12 DEF MakesAfterReset, u, k
  <1>14. QED
    BY <1>10, <1>12, <1>13

LEMMA RunMatchPollQueue ==
  ASSUME NEW s, IsState(s), QueueState(s), NEW p \in Polls, NEW ok \in BOOLEAN
  PROVE  LET t == RunMatchPoll(s, p, ok)
         IN  /\ Queues(s, t, Len(s.runs) + 1)
             /\ ok => MakesAfterReset(s, t)
  <1> DEFINE r == Len(s.runs) + 1
             N == s.requests
             b == Begun(s, p, ok)
             deleted == Queued(b, "delete", r)
             once == WaitForResponse(deleted, deleted.requests)
             heard == Queued(once, "subscribe", r)
             waited == WaitForResponse(heard, heard.requests)
             made == Queued(waited, "create", r)
             t == RunMatchPoll(s, p, ok)
  <1>1. /\ QueueState(b) /\ SameQueue(s, b) /\ N \in Nat /\ r \in Nat
        /\ Adds(b, deleted, Request("delete", r, N + 1), N + 1)
    BY DeleteAdded DEF QueueState
  <1> HIDE DEF b, deleted
  <1>2. Adds(deleted, once, Wait(N + 1), N + 1)
    <2>1. IsState(deleted) /\ QueueState(deleted) /\ deleted.requests = N + 1
          /\ N + 1 \in Nat
      BY <1>1 DEF Adds
    <2>2. QED
      BY <2>1, WaitAdds
  <1> HIDE DEF once
  <1>3. Adds(once, heard, Request("subscribe", r, N + 2), N + 2)
    <2>1. IsState(once) /\ QueueState(once) /\ once.requests = N + 1
          /\ once.requests + 1 = N + 2
      BY <1>1, <1>2 DEF Adds
    <2>2. QED
      BY <1>1, <2>1, QueuedAdds DEF Operations
  <1> HIDE DEF heard
  <1>4. Adds(heard, waited, Wait(N + 2), N + 2)
    <2>1. IsState(heard) /\ QueueState(heard) /\ heard.requests = N + 2
          /\ N + 2 \in Nat
      BY <1>1, <1>3 DEF Adds
    <2>2. QED
      BY <2>1, WaitAdds
  <1> HIDE DEF waited
  <1>5. Adds(waited, made, Request("create", r, N + 3), N + 3)
    <2>1. IsState(waited) /\ QueueState(waited) /\ waited.requests = N + 2
          /\ waited.requests + 1 = N + 3
      BY <1>1, <1>4 DEF Adds
    <2>2. QED
      BY <1>1, <2>1, QueuedAdds DEF Operations
  <1>6. t = IF ok THEN AddUnique(made, r) ELSE waited
    BY DEF RunMatchPoll, made, waited, heard, once, deleted, b
  <1> HIDE DEF made, t
  <1>7. IsState(made) /\ QueueState(made) /\ QueueState(waited)
    BY <1>4, <1>5 DEF Adds
  <1>8. SameQueue(made, AddUnique(made, r))
    BY <1>7, AddUniqueQueue
  <1>9. /\ QueueState(t)
        /\ ok => t.queue = made.queue /\ t.requests = made.requests
        /\ ~ok => t.queue = waited.queue /\ t.requests = waited.requests
    BY <1>6, <1>7, <1>8 DEF SameQueue, QueueState
  <1>10. Queues(s, t, r)
    <2>1. /\ b.requests = N /\ deleted.requests = N + 1 /\ once.requests = N + 1
          /\ heard.requests = N + 2 /\ waited.requests = N + 2
      BY <1>1, <1>2, <1>3, <1>4 DEF Adds, SameQueue
    <2>2. /\ N + 2 = (N + 1) + 1 /\ N + 3 = (N + 2) + 1
          /\ N + 1 <= N + 1 /\ N + 2 <= N + 2
      BY <1>1
    <2> HIDE DEF N, r
    <2>3. Queues(s, b, r)
      BY <1>1, QueuesNothing
    <2>4. Queues(s, deleted, r)
      BY <1>1, <2>1, <2>3, QueuesRequest DEF Operations
    <2>5. Queues(s, once, r)
      BY <1>2, <2>1, <2>2, <2>4, QueuesWait
    <2>6. Queues(s, heard, r)
      BY <1>3, <2>1, <2>2, <2>5, QueuesRequest DEF Operations
    <2>7. Queues(s, waited, r)
      BY <1>4, <2>1, <2>2, <2>6, QueuesWait
    <2>8. Queues(s, made, r)
      BY <1>5, <2>1, <2>2, <2>7, QueuesRequest DEF Operations
    <2>9. CASE ok
      BY <1>9, <2>8, <2>9, SMTT(30) DEF Queues
    <2>10. CASE ~ok
      BY <1>9, <2>7, <2>10 DEF Queues
    <2>11. QED
      BY <2>9, <2>10
  <1>11. ASSUME ok PROVE MakesAfterReset(s, t)
    <2> DEFINE k == Len(s.queue)
               u == t.queue
    <2>1. /\ k \in Nat /\ Len(b.queue) = k /\ QueueState(deleted)
          /\ QueueState(once) /\ QueueState(heard) /\ QueueState(waited)
          /\ u = made.queue
      <3>1. k \in Nat
        BY DEF QueueState
      <3>2. b.queue = s.queue
        BY <1>1 DEF SameQueue
      <3>3. /\ QueueState(deleted) /\ QueueState(once)
            /\ QueueState(waited) /\ QueueState(heard)
        BY <1>1, <1>2, <1>3, <1>4 DEF Adds
      <3>4. QED
        BY <1>9, <1>11, <3>1, <3>2, <3>3
    <2> HIDE DEF u, k, N, r
    <2>2. /\ Len(deleted.queue) = k + 1
          /\ deleted.queue[k + 1] = Request("delete", r, N + 1)
      BY <1>1, <2>1, AddsEntry
    <2>3. /\ Len(once.queue) = k + 2
          /\ \A i \in 1..(k + 1) : once.queue[i] = deleted.queue[i]
          /\ once.queue[k + 2] = Wait(N + 1)
      BY <1>2, <2>1, <2>2, AddsEntry
    <2>4. /\ Len(heard.queue) = k + 3
          /\ \A i \in 1..(k + 2) : heard.queue[i] = once.queue[i]
          /\ heard.queue[k + 3] = Request("subscribe", r, N + 2)
      BY <1>3, <2>1, <2>3, AddsEntry
    <2>5. /\ Len(waited.queue) = k + 4
          /\ \A i \in 1..(k + 3) : waited.queue[i] = heard.queue[i]
          /\ waited.queue[k + 4] = Wait(N + 2)
      BY <1>4, <2>1, <2>4, AddsEntry
    <2>6. /\ Len(u) = k + 5 /\ DOMAIN u = 1..(k + 5)
          /\ \A i \in 1..(k + 4) : u[i] = waited.queue[i]
          /\ u[k + 5] = Request("create", r, N + 3)
      BY <1>5, <2>1, <2>5, AddsEntry
    <2>7. /\ k + 1 \in 1..(k + 1) /\ k + 2 \in 1..(k + 2) /\ k + 3 \in 1..(k + 3)
          /\ k + 1 \in 1..(k + 2) /\ k + 2 \in 1..(k + 3) /\ k + 3 \in 1..(k + 4)
          /\ k + 1 \in 1..(k + 3) /\ k + 2 \in 1..(k + 4) /\ k + 4 \in 1..(k + 4)
          /\ k + 1 \in 1..(k + 4)
      BY <2>1
    <2>8. /\ u[k + 1] = Request("delete", r, N + 1) /\ u[k + 2] = Wait(N + 1)
          /\ u[k + 3] = Request("subscribe", r, N + 2) /\ u[k + 4] = Wait(N + 2)
      <3>1. /\ u[k + 1] = waited.queue[k + 1] /\ u[k + 2] = waited.queue[k + 2]
            /\ u[k + 3] = waited.queue[k + 3] /\ u[k + 4] = waited.queue[k + 4]
        BY <2>6, <2>7
      <3>2. /\ waited.queue[k + 1] = heard.queue[k + 1]
            /\ waited.queue[k + 2] = heard.queue[k + 2]
            /\ waited.queue[k + 3] = heard.queue[k + 3]
        BY <2>5, <2>7
      <3>3. /\ heard.queue[k + 1] = once.queue[k + 1]
            /\ heard.queue[k + 2] = once.queue[k + 2]
        BY <2>4, <2>7
      <3>4. once.queue[k + 1] = deleted.queue[k + 1]
        BY <2>3, <2>7
      <3>5. QED
        BY <2>2, <2>3, <2>4, <2>5, <3>1, <3>2, <3>3, <3>4
    <2>9. \A i \in (k + 1)..(k + 5) :
            i = k + 1 \/ i = k + 2 \/ i = k + 3 \/ i = k + 4 \/ i = k + 5
      BY <2>1
    <2>10. /\ \E i \in (k + 1)..(k + 5) : u[i].op = "create"
           /\ \E i \in (k + 1)..(k + 5) : u[i].op = "subscribe"
      <3>1. k + 3 \in (k + 1)..(k + 5) /\ k + 5 \in (k + 1)..(k + 5)
        BY <2>1
      <3>2. QED
        BY <2>6, <2>8, <3>1 DEF Request
    <2>11. ASSUME NEW i \in (k + 1)..(k + 5), NEW j \in (k + 1)..(k + 5),
                  u[i].op \in {"delete", "unsubscribe"},
                  u[j].op = After(u[i].op)
           PROVE  Behind(u, u[i].n, j)
      <3>1. u[i].n = N + 1 /\ j = k + 5
        BY <2>6, <2>8, <2>9, <2>11 DEF Request, Wait, After
      <3>2. k + 2 \in DOMAIN u /\ k + 2 < k + 5
        BY <2>1, <2>6
      <3>3. QED
        BY <2>8, <3>1, <3>2 DEF Behind, Wait
    <2>12. QED
      BY <2>6, <2>10, <2>11 DEF MakesAfterReset, u, k
  <1>12. QED
    BY <1>10, <1>11 DEF t

LEMMA RunQueue ==
  ASSUME NEW s, IsState(s), QueueState(s), NEW p \in Polls, NEW ok \in BOOLEAN
  PROVE  LET t == Run(s, p, ok)
         IN  /\ Queues(s, t, Len(s.runs) + 1)
             /\ ok => MakesAfterReset(s, t)
  BY RunPollQueue, RunMatchPollQueue DEF Run

\* The callback that has seen the end of its poll unsubscribes.
LEMMA RetiredQueue ==
  ASSUME NEW s, IsState(s), QueueState(s), NEW r \in DOMAIN s.runs
  PROVE  Queues(s, Retired(s, r), r)
  <1> DEFINE unheard == IF s.runs[r].poll \in MatchPolls
                        THEN Queued(s, "unsubscribe", r)
                        ELSE UnsubscribeFromPoll(s, r)
             u == RemoveByName(unheard, CallbackName[s.runs[r].poll])
             t == Retired(s, r)
  <1>1. Adds(s, unheard, Request("unsubscribe", r, s.requests + 1), s.requests + 1)
    <2>1. r \in Nat
      BY TopicOfRun
    <2>2. QED
      BY <2>1, QueuedAdds, UnsubscribeAdds DEF Operations
  <1>2. Queues(s, unheard, r)
    <2>1. Queues(s, s, r)
      BY QueuesNothing DEF SameQueue
    <2>2. QED
      BY <1>1, <2>1, QueuesRequest DEF Operations
  <1>3. t = [u EXCEPT !.runs[r].finished = TRUE]
    BY DEF Retired
  <1> HIDE DEF unheard
  <1>4. SameQueue(unheard, u) /\ IsState(u) /\ QueueState(unheard)
    BY <1>1, RemoveQueue, RemoveRuns DEF Adds, Unnamed
  <1> HIDE DEF u, t
  <1>5. SameQueue(u, t)
    BY <1>3, <1>4 DEF IsState, SameQueue
  <1>6. /\ t.queue = unheard.queue /\ t.requests = unheard.requests
        /\ t.registered = unheard.registered
    BY <1>4, <1>5 DEF SameQueue
  <1>7. QueueState(t)
    BY <1>4, <1>6 DEF QueueState
  <1>8. Queues(s, t, r)
    BY <1>2, <1>6, <1>7 DEF Queues
  <1>9. QED
    BY <1>8 DEF t

\* u is q without its first k entries.
Dropped(q, u, k) ==
  /\ k \in 0..Len(q) /\ Len(u) = Len(q) - k
  /\ \A i \in 1..Len(u) : u[i] = q[i + k] /\ i + k \in 1..Len(q)

LEMMA TailDropped ==
  ASSUME NEW S, NEW q \in Seq(S), q # <<>>
  PROVE  Tail(q) \in Seq(S) /\ Dropped(q, Tail(q), 1) /\ Head(q) = q[1]
         /\ 1 \in 1..Len(q)
  BY DEF Dropped

LEMMA SubSeqDropped ==
  ASSUME NEW S, NEW q \in Seq(S), NEW k \in 0..Len(q)
  PROVE  /\ SubSeq(q, k + 1, Len(q)) \in Seq(S)
         /\ Dropped(q, SubSeq(q, k + 1, Len(q)), k)
  BY DEF Dropped

\* The response of request n clears the waits for it and nothing else.
LEMMA ClearWaitsShape ==
  ASSUME NEW q \in Seq(AnyEntry), NEW n
  PROVE  LET c == ClearWaits(q, n)
         IN  /\ c \in Seq(AnyEntry) /\ Len(c) = Len(q)
             /\ \A i \in 1..Len(q) :
                  /\ c[i].op = q[i].op /\ c[i].run = q[i].run
                  /\ IF q[i].op = "wait" /\ q[i].n = n THEN c[i].n = 0
                     ELSE c[i] = q[i]
  <1> DEFINE Clear(e) == IF e.op = "wait" /\ e.n = n THEN [e EXCEPT !.n = 0] ELSE e
             c == ClearWaits(q, n)
  <1>1. ASSUME NEW e \in AnyEntry
        PROVE  /\ Clear(e) \in AnyEntry /\ Clear(e).op = e.op /\ Clear(e).run = e.run
               /\ IF e.op = "wait" /\ e.n = n THEN Clear(e).n = 0 ELSE Clear(e) = e
    BY DEF AnyEntry
  <1>2. c = [i \in 1..Len(q) |-> Clear(q[i])]
    BY DEF ClearWaits
  <1> HIDE DEF c, Clear
  <1>3. \A i \in 1..Len(q) : q[i] \in AnyEntry
    OBVIOUS
  <1>4. c \in [1..Len(q) -> AnyEntry] /\ Len(q) \in Nat
    BY <1>1, <1>2, <1>3
  <1>5. c \in Seq(AnyEntry) /\ Len(c) = Len(q)
    BY <1>2, <1>4
  <1>6. \A i \in 1..Len(q) : c[i] = Clear(q[i])
    BY <1>2
  <1>7. QED
    BY <1>1, <1>3, <1>5, <1>6 DEF c
-----------------------------------------------------------------------------
(* Type correctness.                                                        *)

Messages ==
  [kind : {"answer"}, run : Nat, n : Nat]
  \cup [kind : {"update"}, poll : Polls, status : {"active", "expired"}]

\* The queue q, the inbox b and the wire w of k runs and n requests.
QueueFits(q, k, n) == \A i \in 1..Len(q) : Fits(q[i], k, n)

InboxFits(b, k, n) == \A m \in b : m.op # "wait" /\ Fits(m, k, n)

WireFits(w, k, n) ==
  \A i \in 1..Len(w) :
    w[i].kind = "answer" => w[i].run \in 1..k /\ w[i].n \in 1..n

Typed(s, b, w) ==
  /\ QueueState(s) /\ b \subseteq AnyEntry /\ w \in Seq(Messages)
  /\ QueueFits(s.queue, Len(s.runs), s.requests)
  /\ InboxFits(b, Len(s.runs), s.requests)
  /\ WireFits(w, Len(s.runs), s.requests)

ServerTyped(b, t, n) ==
  /\ b \in [Polls -> [run : 0..MaxRuns, status : {"absent", "active", "expired"}]]
  /\ t \subseteq Range(Topic)
  /\ n \in 0..MaxUpdates

TypeInv ==
  /\ Typed(sdk, inbox, wire) /\ Len(sdk.runs) <= MaxRuns
  /\ ServerTyped(poll, subscribed, updates)

LEMMA FitsMore ==
  ASSUME NEW e \in AnyEntry, NEW k \in Nat, NEW n \in Nat, Fits(e, k, n),
         NEW k2 \in Nat, NEW n2 \in Nat, k <= k2, n <= n2
  PROVE  Fits(e, k2, n2)
  <1>1. e.n \in Nat /\ e.run \in Nat
    BY DEF AnyEntry
  <1>2. QED
    BY <1>1 DEF Fits

\* A call of run r keeps the types.
LEMMA TypedGrows ==
  ASSUME NEW s, IsState(s), NEW b, NEW w, Typed(s, b, w), NEW t, IsState(t),
         NEW r, Queues(s, t, r), r \in 1..Len(t.runs), Len(t.runs) >= Len(s.runs)
  PROVE  Typed(t, b, w)
  <1> DEFINE q == s.queue
             u == t.queue
             k == Len(s.runs)
             l == Len(t.runs)
             m == s.requests
             n == t.requests
  <1>1. /\ k \in Nat /\ l \in Nat /\ k <= l /\ m \in Nat /\ n \in Nat /\ m <= n
        /\ q \in Seq(AnyEntry) /\ u \in Seq(AnyEntry)
        /\ Len(q) \in Nat /\ Len(u) \in Nat /\ Len(q) <= Len(u)
        /\ QueueState(t) /\ r \in Nat
    BY DEF IsState, Typed, Queues, QueueState
  <1>2. /\ b \subseteq AnyEntry /\ w \in Seq(Messages)
        /\ QueueFits(q, k, m) /\ InboxFits(b, k, m) /\ WireFits(w, k, m)
    BY DEF Typed
  <1>3. /\ \A i \in 1..Len(q) : u[i] = q[i]
        /\ \A i \in (Len(q) + 1)..Len(u) :
             u[i].op = "wait" => u[i].run = 0 /\ u[i].n <= n
        /\ \A i \in (Len(q) + 1)..Len(u) :
             u[i].op # "wait" => u[i].run = r /\ u[i].n > m /\ u[i].n <= n
    BY DEF Queues
  <1> HIDE DEF q, u, k, l, m, n
  <1>4. ASSUME NEW i \in 1..Len(u) PROVE Fits(u[i], l, n)
    <2>1. u[i] \in AnyEntry /\ u[i].n \in Nat
      <3>1. u[i] \in AnyEntry
        BY <1>1
      <3>2. QED
        BY <3>1 DEF AnyEntry
    <2>2. CASE i \in 1..Len(q)
      BY <1>1, <1>2, <1>3, <2>1, <2>2, FitsMore DEF QueueFits
    <2>3. CASE i \notin 1..Len(q)
      <3>1. i \in (Len(q) + 1)..Len(u)
        BY <1>1, <2>3
      <3>2. u[i].op # "wait" => u[i].run \in 1..l /\ u[i].n \in 1..n
        BY <1>1, <1>3, <2>1, <3>1 DEF l
      <3>3. QED
        BY <1>3, <3>1, <3>2 DEF Fits
    <2>4. QED
      BY <2>2, <2>3
  <1>5. QueueFits(u, l, n)
    BY <1>4 DEF QueueFits
  <1>6. InboxFits(b, l, n)
    BY <1>1, <1>2, FitsMore DEF InboxFits
  <1>7. WireFits(w, l, n)
    BY <1>1, <1>2 DEF WireFits
  <1>8. QED
    BY <1>1, <1>2, <1>5, <1>6, <1>7 DEF Typed, u, l, n

\* So does a step that drops entries of the queue.
LEMMA TypedQueue ==
  ASSUME NEW s, IsState(s), NEW b, NEW w, Typed(s, b, w), NEW q \in Seq(AnyEntry),
         QueueFits(q, Len(s.runs), s.requests)
  PROVE  Typed([s EXCEPT !.queue = q], b, w)
  <1> DEFINE t == [s EXCEPT !.queue = q]
  <1>1. /\ t.queue = q /\ t.requests = s.requests /\ t.registered = s.registered
        /\ t.runs = s.runs
    BY DEF IsState
  <1> HIDE DEF t
  <1>2. QED
    BY <1>1 DEF Typed, QueueState, t

LEMMA DroppedFits ==
  ASSUME NEW q, NEW k, NEW n, QueueFits(q, k, n), NEW u, NEW d, Dropped(q, u, d)
  PROVE  QueueFits(u, k, n)
  BY DEF QueueFits, Dropped

LEMMA ClearedFits ==
  ASSUME NEW q \in Seq(AnyEntry), NEW k \in Nat, NEW n \in Nat, QueueFits(q, k, n),
         NEW x
  PROVE  QueueFits(ClearWaits(q, x), k, n)
  <1> DEFINE c == ClearWaits(q, x)
  <1>1. /\ Len(c) = Len(q)
        /\ \A i \in 1..Len(q) :
             /\ c[i].op = q[i].op /\ c[i].run = q[i].run
             /\ IF q[i].op = "wait" /\ q[i].n = x THEN c[i].n = 0 ELSE c[i] = q[i]
    BY ClearWaitsShape
  <1> HIDE DEF c
  <1>2. \A i \in 1..Len(c) : Fits(c[i], k, n)
    BY <1>1 DEF QueueFits, Fits
  <1>3. QED
    BY <1>2 DEF QueueFits, c

LEMMA TailTyped ==
  ASSUME NEW s, NEW b, NEW w, Typed(s, b, w), w # <<>>
  PROVE  Typed(s, b, Tail(w)) /\ Dropped(w, Tail(w), 1) /\ Head(w) = w[1]
         /\ Head(w) \in Messages
         /\ (Head(w).kind = "answer" => Head(w).n \in 1..s.requests)
  <1>1. /\ Tail(w) \in Seq(Messages) /\ Dropped(w, Tail(w), 1)
        /\ Head(w) = w[1] /\ 1 \in 1..Len(w) /\ w[1] \in Messages
    BY TailDropped DEF Typed
  <1>2. WireFits(Tail(w), Len(s.runs), s.requests)
    BY <1>1 DEF Typed, WireFits, Dropped
  <1>3. Head(w).kind = "answer" => Head(w).n \in 1..s.requests
    BY <1>1 DEF Typed, WireFits
  <1>4. QED
    BY <1>1, <1>2, <1>3 DEF Typed

LEMMA AppendTyped ==
  ASSUME NEW s, NEW b, NEW w, Typed(s, b, w), NEW m \in Messages,
         m.kind = "answer" => m.run \in 1..Len(s.runs) /\ m.n \in 1..s.requests
  PROVE  Typed(s, b, Append(w, m))
  <1>1. /\ Append(w, m) \in Seq(Messages) /\ Len(Append(w, m)) = Len(w) + 1
        /\ Len(w) \in Nat /\ Append(w, m)[Len(w) + 1] = m
        /\ \A i \in 1..Len(w) : Append(w, m)[i] = w[i]
    BY DEF Typed
  <1>2. \A i \in 1..(Len(w) + 1) : i \in 1..Len(w) \/ i = Len(w) + 1
    BY <1>1
  <1>3. WireFits(Append(w, m), Len(s.runs), s.requests)
    BY <1>1, <1>2 DEF Typed, WireFits
  <1>4. QED
    BY <1>1, <1>3 DEF Typed

LEMMA TypeInit == Init => TypeInv
  <1> SUFFICES ASSUME Init PROVE TypeInv
    OBVIOUS
  <1>1. /\ sdk.runs = <<>> /\ sdk.queue = <<>> /\ sdk.requests = 0
        /\ sdk.registered = {} /\ inbox = {} /\ wire = <<>>
    BY DEF Init
  <1>2. <<>> \in Seq(AnyEntry) /\ <<>> \in Seq(Messages)
    OBVIOUS
  <1>3. Typed(sdk, inbox, wire)
    BY <1>1, <1>2 DEF Typed, QueueState, QueueFits, InboxFits, WireFits
  <1>4. ServerTyped(poll, subscribed, updates)
    <2>1. Absent \in [run : 0..MaxRuns, status : {"absent", "active", "expired"}]
      BY PollsAssumption DEF Absent
    <2>2. QED
      BY <2>1, PollsAssumption DEF Init, ServerTyped
  <1>5. QED
    BY <1>1, <1>3, <1>4, PollsAssumption DEF TypeInv

LEMMA StartPollTyped ==
  ASSUME RunsInv, TypeInv, NEW p \in Polls, NEW ok \in BOOLEAN,
         Len(sdk.runs) < MaxRuns
  PROVE  LET t == Run(sdk, p, ok)
         IN  Typed(t, inbox, wire) /\ IsState(t) /\ Len(t.runs) <= MaxRuns
  <1> DEFINE t == Run(sdk, p, ok)
             r == Len(sdk.runs) + 1
  <1>1. NewRun(sdk, t, p, ok)
    BY RunShape DEF RunsInv
  <1>2. Queues(sdk, t, r)
    BY RunQueue DEF RunsInv, TypeInv, Typed
  <1> HIDE DEF t
  <1>3. /\ IsState(t) /\ Len(t.runs) = r /\ Len(sdk.runs) \in Nat
        /\ r \in 1..Len(t.runs) /\ Len(t.runs) >= Len(sdk.runs)
        /\ Len(t.runs) <= MaxRuns
    BY <1>1, PollsAssumption DEF NewRun, RunsInv, IsState
  <1>4. Typed(t, inbox, wire)
    BY <1>2, <1>3, TypedGrows DEF RunsInv, TypeInv
  <1>5. QED
    BY <1>3, <1>4 DEF t

LEMMA RetiredTyped ==
  ASSUME NEW s, IsState(s), NEW b, NEW w, Typed(s, b, w), Len(s.runs) <= MaxRuns,
         NEW r \in DOMAIN s.runs
  PROVE  LET t == Retired(s, r)
         IN  Typed(t, b, w) /\ IsState(t) /\ Len(t.runs) <= MaxRuns
  <1> DEFINE t == Retired(s, r)
  <1>1. IsState(t) /\ Len(t.runs) = Len(s.runs)
    BY RetiredShape
  <1>2. Queues(s, t, r)
    BY RetiredQueue DEF Typed
  <1> HIDE DEF t
  <1>3. r \in 1..Len(t.runs) /\ Len(t.runs) >= Len(s.runs)
    BY <1>1 DEF IsState
  <1>4. Typed(t, b, w)
    BY <1>1, <1>2, <1>3, TypedGrows
  <1>5. QED
    BY <1>1, <1>4 DEF t

LEMMA AnnounceTyped ==
  ASSUME TypeInv, NEW p \in Polls, Announce(p)
  PROVE  TypeInv'
  <1> DEFINE Records == [run : 0..MaxRuns, status : {"absent", "active", "expired"}]
  <1>1. poll \in [Polls -> Records] /\ poll[p].status # "absent"
    BY DEF TypeInv, ServerTyped, Announce
  <1>2. poll' \in [Polls -> Records] /\ poll'[p].status \in {"active", "expired"}
    <2>1. CASE UNCHANGED poll
      <3>1. poll[p] \in Records
        BY <1>1
      <3>2. poll[p].status \in {"active", "expired"}
        BY <1>1, <3>1
      <3>3. QED
        BY <1>1, <2>1, <3>2
    <2>2. CASE poll' = [poll EXCEPT ![p].status = "expired"]
      <3> DEFINE e == [poll[p] EXCEPT !.status = "expired"]
      <3>1. poll[p] \in Records
        BY <1>1
      <3>2. e \in Records /\ e.status = "expired"
        BY <3>1
      <3>3. poll' = [poll EXCEPT ![p] = e]
        BY <2>2
      <3> HIDE DEF e, Records
      <3>4. QED
        BY <1>1, <3>2, <3>3
    <2>3. QED
      BY <2>1, <2>2 DEF Announce
  <1>3. Update(p) \in Messages /\ Update(p).kind # "answer"
    BY <1>2 DEF Update, Messages
  <1>4. Typed(sdk, inbox, wire)' /\ UNCHANGED <<sdk, subscribed>>
    <2>1. Typed(sdk, inbox, Append(wire, Update(p)))
      BY <1>3, AppendTyped DEF TypeInv
    <2>2. /\ wire' = wire \/ wire' = Append(wire, Update(p))
          /\ UNCHANGED <<sdk, inbox, subscribed>>
      BY DEF Announce
    <2>3. QED
      BY <2>1, <2>2 DEF TypeInv
  <1>5. updates' \in 0..MaxUpdates
    BY PollsAssumption DEF Announce, TypeInv, ServerTyped
  <1>6. ServerTyped(poll, subscribed, updates)'
    BY <1>2, <1>4, <1>5 DEF TypeInv, ServerTyped
  <1>7. QED
    BY <1>4, <1>6 DEF TypeInv

LEMMA ServeTyped ==
  ASSUME RunsInv, TypeInv, NEW m \in inbox, Serve(m)
  PROVE  TypeInv'
  <1> DEFINE Records == [run : 0..MaxRuns, status : {"absent", "active", "expired"}]
             answer == [kind |-> "answer", run |-> m.run, n |-> m.n]
             p == sdk.runs[m.run].poll
  <1>1. /\ m.run \in 1..Len(sdk.runs) /\ m.n \in 1..sdk.requests
        /\ m.run \in DOMAIN sdk.runs
    <2>1. m.op # "wait" /\ Fits(m, Len(sdk.runs), sdk.requests)
      BY DEF TypeInv, Typed, InboxFits
    <2>2. QED
      BY <2>1 DEF Fits, RunsInv, IsState
  <1>2. /\ answer \in Messages /\ answer.run = m.run /\ answer.n = m.n
    BY <1>1 DEF Messages
  <1>3. p \in Polls /\ Topic[p] \in Range(Topic)
    BY <1>1, TopicOfRun DEF RunsInv
  <1>4. wire' = Append(wire, answer) /\ inbox' = inbox \ {m} /\ UNCHANGED <<sdk, updates>>
    BY DEF Serve
  <1> HIDE DEF answer
  <1>5. Typed(sdk, inbox, wire)'
    <2>1. Typed(sdk, inbox, Append(wire, answer))
      BY <1>1, <1>2, AppendTyped DEF TypeInv
    <2>2. Typed(sdk, inbox \ {m}, Append(wire, answer))
      BY <2>1 DEF Typed, InboxFits
    <2>3. QED
      BY <1>4, <2>2
  <1>6. poll' \in [Polls -> Records]
    <2>1. poll \in [Polls -> Records]
      BY DEF TypeInv, ServerTyped
    <2>2. Absent \in Records /\ [run |-> m.run, status |-> "active"] \in Records
      BY <1>1, PollsAssumption DEF Absent, TypeInv, RunsInv, IsState
    <2>3. \E e \in Records : poll' = poll \/ poll' = [poll EXCEPT ![p] = e]
      BY <2>2 DEF Serve
    <2> HIDE DEF Records, p
    <2>4. QED
      BY <2>1, <2>3
  <1>7. subscribed' \subseteq Range(Topic)
    BY <1>3 DEF TypeInv, ServerTyped, Serve
  <1>8. QED
    BY <1>4, <1>5, <1>6, <1>7 DEF TypeInv, ServerTyped

LEMMA SendRequestTyped ==
  ASSUME RunsInv, TypeInv, SendRequest
  PROVE  TypeInv'
  <1> DEFINE q == sdk.queue
             k == Len(sdk.runs)
             n == sdk.requests
  <1>1. /\ q \in Seq(AnyEntry) /\ q # <<>> /\ Head(q).op # "wait"
        /\ QueueFits(q, k, n) /\ Typed(sdk, inbox, wire) /\ IsState(sdk)
    BY DEF SendRequest, TypeInv, Typed, QueueState, RunsInv
  <1>2. /\ sdk' = [sdk EXCEPT !.queue = Tail(q)] /\ inbox' = inbox \cup {Head(q)}
        /\ UNCHANGED <<poll, subscribed, wire, updates>>
    BY DEF SendRequest
  <1>3. sdk'.runs = sdk.runs /\ sdk'.requests = n
    BY <1>1, <1>2 DEF IsState
  <1> HIDE DEF q, k, n
  <1>4. Tail(q) \in Seq(AnyEntry) /\ Dropped(q, Tail(q), 1) /\ Head(q) = q[1]
        /\ 1 \in 1..Len(q) /\ Head(q) \in AnyEntry
    BY <1>1, TailDropped
  <1>5. QueueFits(Tail(q), k, n) /\ Fits(Head(q), k, n)
    BY <1>1, <1>4, DroppedFits DEF QueueFits
  <1>6. Typed(sdk', inbox, wire)
    BY <1>1, <1>2, <1>4, <1>5, TypedQueue DEF k, n
  <1>7. Typed(sdk', inbox', wire')
    BY <1>1, <1>2, <1>3, <1>4, <1>5, <1>6 DEF Typed, InboxFits, k, n
  <1>8. QED
    BY <1>2, <1>3, <1>7 DEF TypeInv, ServerTyped

\* A step that only drops or clears entries of the queue.
LEMMA QueueTyped ==
  ASSUME RunsInv, TypeInv, NEW w, Typed(sdk, inbox, w), NEW q \in Seq(AnyEntry),
         QueueFits(q, Len(sdk.runs), sdk.requests),
         sdk' = [sdk EXCEPT !.queue = q], wire' = w,
         UNCHANGED <<inbox, poll, subscribed, updates>>
  PROVE  TypeInv'
  <1>1. Typed(sdk', inbox, w)
    BY TypedQueue DEF RunsInv
  <1>2. sdk'.runs = sdk.runs
    BY DEF RunsInv, IsState
  <1>3. QED
    BY <1>1, <1>2 DEF TypeInv, ServerTyped

LEMMA SkipWaitTyped ==
  ASSUME RunsInv, TypeInv, SkipWait
  PROVE  TypeInv'
  <1> DEFINE q == sdk.queue
  <1>1. q \in Seq(AnyEntry) /\ q # <<>> /\ Typed(sdk, inbox, wire)
        /\ QueueFits(q, Len(sdk.runs), sdk.requests)
    BY DEF SkipWait, TypeInv, Typed, QueueState
  <1>2. sdk' = [sdk EXCEPT !.queue = Tail(q)] /\ UNCHANGED serverVars
    BY DEF SkipWait
  <1> HIDE DEF q
  <1>3. Tail(q) \in Seq(AnyEntry) /\ Dropped(q, Tail(q), 1)
    BY <1>1, TailDropped
  <1>4. QueueFits(Tail(q), Len(sdk.runs), sdk.requests)
    BY <1>1, <1>3, DroppedFits
  <1>5. QED
    BY <1>1, <1>2, <1>3, <1>4, QueueTyped DEF serverVars

\* What the response of a request leaves of the queue.
LEMMA ReceiveAnswerQueue ==
  ASSUME ReceiveAnswer, sdk.queue \in Seq(AnyEntry)
  PROVE  \E k \in Nat, u \in Seq(AnyEntry) :
           LET c == ClearWaits(sdk.queue, Head(wire).n)
           IN  /\ Dropped(c, u, k) /\ \A i \in 1..k : Cleared(c[i])
               /\ sdk' = [sdk EXCEPT !.queue = u]
  <1> DEFINE c == ClearWaits(sdk.queue, Head(wire).n)
  <1>1. c \in Seq(AnyEntry)
    BY ClearWaitsShape
  <1>2. PICK k \in 0..Len(c) :
          /\ \A i \in 1..k : Cleared(c[i])
          /\ sdk' = [sdk EXCEPT !.queue = SubSeq(c, k + 1, Len(c))]
    BY DEF ReceiveAnswer
  <1> HIDE DEF c
  <1>3. /\ SubSeq(c, k + 1, Len(c)) \in Seq(AnyEntry) /\ k \in Nat
        /\ Dropped(c, SubSeq(c, k + 1, Len(c)), k)
    BY <1>1, SubSeqDropped
  <1>4. QED
    BY <1>2, <1>3 DEF c

LEMMA ReceiveAnswerTyped ==
  ASSUME RunsInv, TypeInv, ReceiveAnswer
  PROVE  TypeInv'
  <1> DEFINE c == ClearWaits(sdk.queue, Head(wire).n)
  <1>1. /\ sdk.queue \in Seq(AnyEntry) /\ Typed(sdk, inbox, wire) /\ wire # <<>>
        /\ QueueFits(sdk.queue, Len(sdk.runs), sdk.requests)
        /\ Len(sdk.runs) \in Nat /\ sdk.requests \in Nat
    BY DEF ReceiveAnswer, TypeInv, Typed, QueueState, RunsInv, IsState
  <1>2. PICK k \in Nat, u \in Seq(AnyEntry) :
          Dropped(c, u, k) /\ sdk' = [sdk EXCEPT !.queue = u]
    BY <1>1, ReceiveAnswerQueue
  <1>3. QueueFits(c, Len(sdk.runs), sdk.requests)
    BY <1>1, ClearedFits
  <1> HIDE DEF c
  <1>4. QueueFits(u, Len(sdk.runs), sdk.requests)
    BY <1>2, <1>3, DroppedFits
  <1>5. Typed(sdk, inbox, Tail(wire))
    BY <1>1, TailTyped
  <1>6. wire' = Tail(wire) /\ UNCHANGED <<inbox, poll, subscribed, updates>>
    BY DEF ReceiveAnswer
  <1>7. QED
    BY <1>2, <1>4, <1>5, <1>6, QueueTyped

LEMMA ReceiveFinishTyped ==
  ASSUME RunsInv, TypeInv, ReceiveFinish
  PROVE  TypeInv'
  <1>1. PICK r \in DOMAIN sdk.runs :
          \/ sdk' = Retired(sdk, r)
          \/ /\ Len(sdk.runs) < MaxRuns
             /\ sdk' = Retired(Run(sdk, sdk.runs[r].poll, TRUE), r)
    BY DEF ReceiveFinish, Listening
  <1>2. Typed(sdk', inbox, wire) /\ Len(sdk'.runs) <= MaxRuns
    <2>1. CASE sdk' = Retired(sdk, r)
      BY <2>1, RetiredTyped DEF TypeInv, RunsInv
    <2>2. CASE /\ Len(sdk.runs) < MaxRuns
               /\ sdk' = Retired(Run(sdk, sdk.runs[r].poll, TRUE), r)
      <3> DEFINE p == sdk.runs[r].poll
                 t == Run(sdk, p, TRUE)
      <3>1. p \in Polls
        BY TopicOfRun DEF RunsInv
      <3>2. Typed(t, inbox, wire) /\ IsState(t) /\ Len(t.runs) <= MaxRuns
        BY <2>2, <3>1, StartPollTyped
      <3>3. r \in DOMAIN t.runs
        <4>1. NewRun(sdk, t, p, TRUE)
          BY <3>1, RunShape DEF RunsInv
        <4> HIDE DEF t
        <4>2. QED
          BY <4>1 DEF NewRun, RunsInv, IsState
      <3>4. sdk' = Retired(t, r)
        BY <2>2
      <3> HIDE DEF t
      <3>5. QED
        BY <3>2, <3>3, <3>4, RetiredTyped
    <2>3. QED
      BY <1>1, <2>1, <2>2
  <1>3. /\ wire # <<>> /\ wire' = Tail(wire)
        /\ UNCHANGED <<inbox, poll, subscribed, updates>>
    BY DEF ReceiveFinish
  <1>4. Typed(sdk', inbox', wire')
    BY <1>2, <1>3, TailTyped
  <1>5. QED
    BY <1>2, <1>3, <1>4 DEF TypeInv, ServerTyped

LEMMA TypeStep == RunsInv /\ TypeInv /\ [Next]_vars => TypeInv'
  <1> SUFFICES ASSUME RunsInv, TypeInv, [Next]_vars PROVE TypeInv'
    OBVIOUS
  <1>1. ASSUME NEW p \in Polls, StartPoll(p) PROVE TypeInv'
    <2>1. PICK ok \in BOOLEAN : sdk' = Run(sdk, p, ok)
      BY <1>1 DEF StartPoll
    <2>2. Typed(sdk', inbox, wire) /\ Len(sdk'.runs) <= MaxRuns
      BY <1>1, <2>1, StartPollTyped DEF StartPoll
    <2>3. QED
      BY <1>1, <2>2 DEF StartPoll, serverVars, TypeInv, ServerTyped
  <1>2. ASSUME NEW p \in Polls, Announce(p) PROVE TypeInv'
    BY <1>2, AnnounceTyped
  <1>3. CASE SendRequest
    BY <1>3, SendRequestTyped
  <1>4. CASE SkipWait
    BY <1>4, SkipWaitTyped
  <1>5. ASSUME NEW m \in inbox, Serve(m) PROVE TypeInv'
    BY <1>5, ServeTyped
  <1>6. CASE ReceiveAnswer
    BY <1>6, ReceiveAnswerTyped
  <1>7. CASE ReceiveUnheard \/ ReceiveUpdate
    <2>1. /\ wire # <<>> /\ wire' = Tail(wire)
          /\ UNCHANGED <<sdk, inbox, poll, subscribed, updates>>
      BY <1>7 DEF ReceiveUnheard, ReceiveUpdate
    <2>2. Typed(sdk, inbox, Tail(wire))
      BY <2>1, TailTyped DEF TypeInv
    <2>3. QED
      BY <2>1, <2>2 DEF TypeInv, ServerTyped
  <1>8. CASE ReceiveFinish
    BY <1>8, ReceiveFinishTyped
  <1>9. CASE UNCHANGED vars
    BY <1>9 DEF vars, serverVars, TypeInv, ServerTyped
  <1>10. QED
    BY <1>1, <1>2, <1>3, <1>4, <1>5, <1>6, <1>7, <1>8, <1>9 DEF Next

\* A request in the queue, at the server or answered is of one of the runs and
\* has one of the numbers given out (src/gamelink.cpp:255-270, 316-338).
THEOREM TypeCorrect == Spec => []TypeOK
  <1>1. RunsInv /\ TypeInv => TypeOK
    <2> SUFFICES ASSUME RunsInv, TypeInv PROVE TypeOK
      OBVIOUS
    <2> DEFINE k == Len(sdk.runs)
               n == sdk.requests
    <2>1. /\ k \in Nat /\ n \in Nat /\ k <= MaxRuns /\ MaxRuns \in Nat
          /\ sdk.queue \in Seq(AnyEntry) /\ wire \in Seq(Messages)
          /\ inbox \subseteq AnyEntry /\ sdk.runs \in Seq(RunRecords)
          /\ calls \in Seq(CallRecords)
          /\ QueueFits(sdk.queue, k, n) /\ InboxFits(inbox, k, n)
          /\ WireFits(wire, k, n) /\ DOMAIN sdk.runs = 1..k
      BY PollsAssumption DEF RunsInv, IsState, TypeInv, Typed, QueueState
    <2> HIDE DEF k, n
    <2>2. ASSUME NEW e \in AnyEntry, Fits(e, k, n)
          PROVE  /\ e.op = "wait" => e \in [op : {"wait"}, run : {0}, n : 0..n]
                 /\ e.op # "wait" => e \in [op : Operations, run : 1..MaxRuns, n : 1..n]
      BY <2>1, <2>2 DEF AnyEntry, Fits
    <2>3. Range(sdk.queue) \subseteq
            [op : Operations, run : 1..MaxRuns, n : 1..n]
            \cup [op : {"wait"}, run : {0}, n : 0..n]
      BY <2>1, <2>2, SMTT(30) DEF Range, QueueFits
    <2>4. inbox \subseteq [op : Operations, run : 1..MaxRuns, n : 1..n]
      BY <2>1, <2>2 DEF InboxFits
    <2>5. Range(sdk.runs) \subseteq RunRecords
      BY <2>1 DEF Range
    <2>6. Range(wire) \subseteq
            [kind : {"answer"}, run : 1..MaxRuns, n : 1..n]
            \cup [kind : {"update"}, poll : Polls, status : {"active", "expired"}]
      <3>1. ASSUME NEW i \in DOMAIN wire
            PROVE  wire[i] \in
                     [kind : {"answer"}, run : 1..MaxRuns, n : 1..n]
                     \cup [kind : {"update"}, poll : Polls,
                           status : {"active", "expired"}]
        <4>1. wire[i] \in Messages /\ i \in 1..Len(wire)
          BY <2>1
        <4>2. wire[i].kind = "answer" => wire[i].run \in 1..MaxRuns /\ wire[i].n \in 1..n
          BY <2>1, <4>1 DEF WireFits
        <4>3. QED
          BY <4>1, <4>2 DEF Messages
      <3>2. QED
        BY <3>1 DEF Range
    <2>7. Range(calls) \subseteq [kind : {"update", "finish"}, run : 1..MaxRuns]
      <3>1. ASSUME NEW i \in DOMAIN calls
            PROVE  calls[i] \in [kind : {"update", "finish"}, run : 1..MaxRuns]
        <4>1. calls[i] \in CallRecords /\ calls[i].run \in DOMAIN sdk.runs
          BY <2>1 DEF RunsInv, CallsKnown
        <4>2. QED
          BY <2>1, <4>1 DEF CallRecords
      <3>2. QED
        BY <3>1 DEF Range
    <2>8. QED
      BY <2>3, <2>4, <2>5, <2>6, <2>7
         DEF TypeOK, RunRecords, TypeInv, ServerTyped, Typed, QueueState, n
  <1>2. QED
    BY <1>1, RunsInit, RunsStep, TypeInit, TypeStep, PTL DEF Spec
-----------------------------------------------------------------------------
(* An accepted poll is heard.                                               *)

\* The requests that have not been done: in the queue q or at the server.
Open(q, b) == b \cup {m \in Range(q) : m.op # "wait"}

Pending(q, b, r, op) == \E m \in Open(q, b) : m.op = op /\ m.run = r

\* No two open requests have the same number, nor one of an answered request.
Numbered(q, b, w) ==
  /\ \A i, j \in 1..Len(q) :
       i # j /\ q[i].op # "wait" /\ q[j].op # "wait" => q[i].n # q[j].n
  /\ \A i \in 1..Len(q), m \in b : q[i].op # "wait" => q[i].n # m.n
  /\ \A m1, m2 \in b : m1.n = m2.n => m1 = m2
  /\ \A i \in 1..Len(w), m \in Open(q, b) : w[i].kind = "answer" => w[i].n # m.n

\* What could undo the poll of run r or its subscription is done first: the
\* request that comes after it is in the queue, behind a wait for it.
Guarded(q, b, r) ==
  \A m \in Open(q, b) :
    m.run = r /\ m.op \in {"delete", "unsubscribe"} =>
      /\ Pending(q, b, r, After(m.op))
      /\ \A x \in b : x.run = r => x.op # After(m.op)
      /\ \A j \in 1..Len(q) :
           q[j].run = r /\ q[j].op = After(m.op) => Behind(q, m.n, j)

\* Run r, the last of its poll, was accepted and has not finished.
Awaited(runs, r) ==
  /\ runs[r].created /\ ~runs[r].finished
  /\ \A i \in DOMAIN runs : runs[i].poll = runs[r].poll => i <= r

\* The server has the poll of run r and sends its updates, or will.
Served(runs, q, b, polls, topics, r) ==
  /\ \A m \in Open(q, b) : runs[m.run].poll = runs[r].poll => m.run = r
  /\ Pending(q, b, r, "create") \/ polls[runs[r].poll].run = r
  /\ Pending(q, b, r, "subscribe") \/ Topic[runs[r].poll] \in topics
  /\ Guarded(q, b, r)

HeardInv ==
  /\ Numbered(sdk.queue, inbox, wire)
  /\ \A r \in DOMAIN sdk.runs :
       Awaited(sdk.runs, r) =>
         /\ sdk.runs[r].handler = "live"
         /\ Served(sdk.runs, sdk.queue, inbox, poll, subscribed, r)

\* u is q without waits at its front, and without waits for what is not in O.
Pruned(q, u, k, O) ==
  /\ k \in Nat /\ Len(u) + k = Len(q)
  /\ \A i \in 1..Len(q) : q[i].op # "wait" => i > k
  /\ \A i \in 1..Len(u) : /\ u[i].op = q[i + k].op
                          /\ q[i + k].op # "wait" => u[i] = q[i + k]
  /\ \A i \in 1..Len(q), m \in O :
       q[i].op = "wait" /\ q[i].n = m.n => i > k /\ u[i - k].n = m.n

LEMMA PrunedOpen ==
  ASSUME NEW q \in Seq(AnyEntry), NEW u \in Seq(AnyEntry), NEW k, NEW b,
         Pruned(q, u, k, Open(q, b))
  PROVE  Open(u, b) = Open(q, b)
  <1>1. /\ Len(q) \in Nat /\ Len(u) \in Nat /\ k \in Nat /\ Len(u) + k = Len(q)
        /\ DOMAIN q = 1..Len(q) /\ DOMAIN u = 1..Len(u)
    BY DEF Pruned
  <1>2. ASSUME NEW i \in 1..Len(u), u[i].op # "wait"
        PROVE  i + k \in DOMAIN q /\ q[i + k].op # "wait" /\ u[i] = q[i + k]
    BY <1>1, <1>2 DEF Pruned
  <1>3. ASSUME NEW i \in 1..Len(q), q[i].op # "wait"
        PROVE  i - k \in DOMAIN u /\ u[i - k].op # "wait" /\ u[i - k] = q[i]
    <2>1. i > k
      BY <1>3 DEF Pruned
    <2>2. i - k \in 1..Len(u) /\ (i - k) + k = i
      BY <1>1, <2>1
    <2>3. QED
      BY <1>1, <1>3, <2>2 DEF Pruned
  <1>4. QED
    BY <1>1, <1>2, <1>3, SMTT(30) DEF Open, Range

LEMMA PrunedBehind ==
  ASSUME NEW q \in Seq(AnyEntry), NEW u \in Seq(AnyEntry), NEW k, NEW O,
         Pruned(q, u, k, O), NEW m \in O, NEW j \in 1..Len(u),
         Behind(q, m.n, j + k)
  PROVE  Behind(u, m.n, j)
  <1>1. PICK i \in 1..Len(q) : i < j + k /\ q[i].op = "wait" /\ q[i].n = m.n
    BY DEF Behind
  <1>2. i > k /\ u[i - k].n = m.n
    BY <1>1 DEF Pruned
  <1>3. /\ i - k \in DOMAIN u /\ (i - k) + k = i /\ i - k < j
    BY <1>1, <1>2 DEF Pruned
  <1>4. u[i - k].op = "wait"
    BY <1>1, <1>3 DEF Pruned
  <1>5. QED
    BY <1>2, <1>3, <1>4 DEF Behind

LEMMA PrunedGuarded ==
  ASSUME NEW q \in Seq(AnyEntry), NEW u \in Seq(AnyEntry), NEW k, NEW b,
         Pruned(q, u, k, Open(q, b)), NEW r, Guarded(q, b, r)
  PROVE  Guarded(u, b, r)
  <1>1. Open(u, b) = Open(q, b)
    BY PrunedOpen
  <1>2. ASSUME NEW m \in Open(q, b), m.run = r, m.op \in {"delete", "unsubscribe"},
               NEW j \in 1..Len(u), u[j].run = r, u[j].op = After(m.op)
        PROVE  Behind(u, m.n, j)
    <2>1. u[j].op # "wait"
      BY <1>2 DEF After
    <2>2. j + k \in 1..Len(q) /\ q[j + k] = u[j]
      BY <2>1 DEF Pruned
    <2>3. Behind(q, m.n, j + k)
      BY <1>2, <2>2 DEF Guarded
    <2>4. QED
      BY <2>3, PrunedBehind
  <1>3. QED
    BY <1>1, <1>2 DEF Guarded, Pending

LEMMA PrunedServed ==
  ASSUME NEW q \in Seq(AnyEntry), NEW u \in Seq(AnyEntry), NEW k, NEW b,
         Pruned(q, u, k, Open(q, b)),
         NEW runs, NEW polls, NEW topics, NEW r, Served(runs, q, b, polls, topics, r)
  PROVE  Served(runs, u, b, polls, topics, r)
  BY PrunedOpen, PrunedGuarded DEF Served, Pending

LEMMA PrunedNumbered ==
  ASSUME NEW q \in Seq(AnyEntry), NEW u \in Seq(AnyEntry), NEW k, NEW b,
         Pruned(q, u, k, Open(q, b)), NEW w, Numbered(q, b, w)
  PROVE  Numbered(u, b, w)
  <1>1. Open(u, b) = Open(q, b)
    BY PrunedOpen
  <1>2. ASSUME NEW i \in 1..Len(u), u[i].op # "wait"
        PROVE  i + k \in 1..Len(q) /\ q[i + k].op # "wait" /\ u[i] = q[i + k]
    BY <1>2 DEF Pruned
  <1>3. ASSUME NEW i \in 1..Len(u), NEW j \in 1..Len(u), i # j,
               u[i].op # "wait", u[j].op # "wait"
        PROVE  u[i].n # u[j].n
    <2>1. i + k # j + k
      BY <1>3 DEF Pruned
    <2>2. QED
      BY <1>2, <1>3, <2>1 DEF Numbered
  <1>4. QED
    BY <1>1, <1>2, <1>3 DEF Numbered

LEMMA FewerAnswers ==
  ASSUME NEW q, NEW b, NEW w, Numbered(q, b, w), NEW v, NEW k, Dropped(w, v, k)
  PROVE  Numbered(q, b, v)
  BY DEF Numbered, Dropped

LEMMA OpenFits ==
  ASSUME RunsInv, TypeInv
  PROVE  /\ sdk.queue \in Seq(AnyEntry) /\ Len(sdk.queue) \in Nat
         /\ \A m \in Open(sdk.queue, inbox) :
              /\ m.op \in Operations /\ m.n \in 1..sdk.requests /\ m.n # 0
              /\ m.run \in DOMAIN sdk.runs /\ m.run # 0
         /\ \A i \in 1..Len(sdk.queue) :
              sdk.queue[i].op = "wait" => sdk.queue[i].run = 0
  <1>1. /\ sdk.queue \in Seq(AnyEntry) /\ inbox \subseteq AnyEntry
        /\ QueueFits(sdk.queue, Len(sdk.runs), sdk.requests)
        /\ InboxFits(inbox, Len(sdk.runs), sdk.requests)
        /\ DOMAIN sdk.runs = 1..Len(sdk.runs)
    BY DEF TypeInv, Typed, QueueState, RunsInv, IsState
  <1>2. \A i \in 1..Len(sdk.queue) :
          /\ sdk.queue[i] \in AnyEntry
          /\ Fits(sdk.queue[i], Len(sdk.runs), sdk.requests)
    BY <1>1 DEF QueueFits
  <1>3. \A m \in Open(sdk.queue, inbox) :
          m \in AnyEntry /\ m.op # "wait" /\ Fits(m, Len(sdk.runs), sdk.requests)
    BY <1>1, <1>2 DEF Open, Range, InboxFits
  <1>4. ASSUME NEW m \in AnyEntry, m.op # "wait", Fits(m, Len(sdk.runs), sdk.requests)
        PROVE  /\ m.op \in Operations /\ m.n \in 1..sdk.requests /\ m.n # 0
               /\ m.run \in 1..Len(sdk.runs) /\ m.run # 0
    BY <1>4 DEF AnyEntry, Fits
  <1>5. QED
    BY <1>1, <1>2, <1>3, <1>4 DEF Fits

\* A step that prunes the queue.
LEMMA PruneStep ==
  ASSUME RunsInv, TypeInv, HeardInv, NEW u \in Seq(AnyEntry), NEW k,
         Pruned(sdk.queue, u, k, Open(sdk.queue, inbox)),
         sdk' = [sdk EXCEPT !.queue = u],
         Numbered(sdk.queue, inbox, wire'), UNCHANGED <<inbox, poll, subscribed>>
  PROVE  HeardInv'
  <1>1. sdk'.runs = sdk.runs /\ sdk'.queue = u
    BY DEF RunsInv, IsState
  <1>2. sdk.queue \in Seq(AnyEntry)
    BY OpenFits
  <1>3. Numbered(u, inbox, wire')
    BY <1>2, PrunedNumbered
  <1>4. \A r \in DOMAIN sdk.runs :
          Awaited(sdk.runs, r) =>
            /\ sdk.runs[r].handler = "live"
            /\ Served(sdk.runs, u, inbox, poll, subscribed, r)
    BY <1>2, PrunedServed DEF HeardInv
  <1>5. QED
    BY <1>1, <1>3, <1>4 DEF HeardInv

LEMMA SkipWaitHeard ==
  ASSUME RunsInv, TypeInv, HeardInv, SkipWait
  PROVE  HeardInv'
  <1> DEFINE q == sdk.queue
             u == Tail(q)
             O == Open(q, inbox)
  <1>1. /\ q \in Seq(AnyEntry) /\ q # <<>> /\ \A m \in O : m.n # 0
    BY OpenFits DEF SkipWait
  <1>2. /\ sdk' = [sdk EXCEPT !.queue = u] /\ Cleared(Head(q))
        /\ UNCHANGED serverVars
    BY DEF SkipWait
  <1> HIDE DEF q
  <1>3. /\ u \in Seq(AnyEntry) /\ Dropped(q, u, 1) /\ Head(q) = q[1]
        /\ Len(q) \in Nat
    BY <1>1, TailDropped
  <1> HIDE DEF u, O
  <1>4. \A i \in 1..Len(q) : i > 1 \/ Cleared(q[i])
    BY <1>2, <1>3
  <1>5. ASSUME NEW i \in 1..Len(q), i > 1 PROVE u[i - 1] = q[i]
    <2>1. i - 1 \in 1..Len(u) /\ (i - 1) + 1 = i
      BY <1>3, <1>5 DEF Dropped
    <2>2. QED
      BY <1>3, <2>1 DEF Dropped
  <1>6. Len(u) + 1 = Len(q)
    BY <1>3 DEF Dropped
  <1>7. Pruned(q, u, 1, O)
    BY <1>1, <1>3, <1>4, <1>5, <1>6 DEF Pruned, Dropped, Cleared
  <1>8. Numbered(q, inbox, wire')
    BY <1>2 DEF HeardInv, q, serverVars
  <1>9. QED
    BY <1>2, <1>3, <1>7, <1>8, PruneStep DEF q, O, serverVars

LEMMA ReceiveAnswerHeard ==
  ASSUME RunsInv, TypeInv, HeardInv, ReceiveAnswer
  PROVE  HeardInv'
  <1> DEFINE q == sdk.queue
             x == Head(wire).n
             c == ClearWaits(q, x)
             O == Open(q, inbox)
  <1>1. /\ q \in Seq(AnyEntry) /\ Len(q) \in Nat /\ \A m \in O : m.n # 0
    BY OpenFits
  <1>2. /\ Dropped(wire, Tail(wire), 1) /\ Head(wire) = wire[1]
        /\ 1 \in 1..Len(wire) /\ Head(wire).kind = "answer"
        /\ wire' = Tail(wire) /\ UNCHANGED <<inbox, poll, subscribed>>
    BY TailDropped DEF ReceiveAnswer, TypeInv, Typed
  <1>3. \A m \in O : m.n # x
    BY <1>2 DEF HeardInv, Numbered
  <1>4. PICK k \in Nat, u \in Seq(AnyEntry) :
          /\ Dropped(c, u, k) /\ \A i \in 1..k : Cleared(c[i])
          /\ sdk' = [sdk EXCEPT !.queue = u]
    BY <1>1, ReceiveAnswerQueue
  <1>5. /\ c \in Seq(AnyEntry) /\ Len(c) = Len(q)
        /\ \A i \in 1..Len(q) :
             /\ c[i].op = q[i].op
             /\ ~(q[i].op = "wait" /\ q[i].n = x) => c[i] = q[i]
    BY <1>1, ClearWaitsShape
  <1> HIDE DEF q, x, c, O
  <1>6. Len(u) \in Nat /\ Len(u) + k = Len(q)
    BY <1>1, <1>4, <1>5 DEF Dropped
  <1>7. ASSUME NEW i \in 1..Len(q), ~Cleared(c[i]) PROVE i > k
    BY <1>4, <1>6, <1>7
  <1>8. ASSUME NEW i \in 1..Len(q), i > k PROVE u[i - k] = c[i]
    <2>1. i - k \in 1..Len(u) /\ (i - k) + k = i
      BY <1>1, <1>6, <1>8
    <2>2. QED
      BY <1>4, <2>1 DEF Dropped
  <1>9. ASSUME NEW i \in 1..Len(q), q[i].op # "wait" PROVE i > k
    BY <1>5, <1>7, <1>9 DEF Cleared
  <1>10. ASSUME NEW i \in 1..Len(u)
         PROVE  /\ u[i].op = q[i + k].op
                /\ q[i + k].op # "wait" => u[i] = q[i + k]
    BY <1>4, <1>5 DEF Dropped
  <1>11. ASSUME NEW i \in 1..Len(q), NEW m \in O, q[i].op = "wait", q[i].n = m.n
         PROVE  i > k /\ u[i - k].n = m.n
    BY <1>1, <1>3, <1>5, <1>7, <1>8, <1>11 DEF Cleared
  <1>12. Pruned(q, u, k, O)
    BY <1>6, <1>9, <1>10, <1>11 DEF Pruned
  <1>13. Numbered(q, inbox, wire')
    BY <1>2, FewerAnswers DEF HeardInv, q
  <1>14. QED
    BY <1>2, <1>4, <1>12, <1>13, PruneStep DEF q, O

\* The request at the front of the queue goes to the server.
LEMMA SentOpen ==
  ASSUME NEW q \in Seq(AnyEntry), q # <<>>, Head(q).op # "wait", NEW b
  PROVE  Open(Tail(q), b \cup {Head(q)}) = Open(q, b)
  <1> DEFINE u == Tail(q)
  <1>1. /\ Dropped(q, u, 1) /\ Head(q) = q[1] /\ DOMAIN q = 1..Len(q)
        /\ Len(q) \in Nat /\ 1 \in 1..Len(q) /\ DOMAIN u = 1..Len(u)
        /\ Len(u) + 1 = Len(q)
    BY TailDropped DEF Dropped
  <1> HIDE DEF u
  <1>2. ASSUME NEW i \in DOMAIN q PROVE q[i] = Head(q) \/ \E j \in DOMAIN u : q[i] = u[j]
    <2>1. CASE i = 1
      BY <1>1, <2>1
    <2>2. CASE i # 1
      <3>1. i - 1 \in 1..Len(u) /\ (i - 1) + 1 = i
        BY <1>1, <2>2
      <3>2. QED
        BY <1>1, <3>1 DEF Dropped
    <2>3. QED
      BY <2>1, <2>2
  <1>3. ASSUME NEW j \in DOMAIN u PROVE \E i \in DOMAIN q : u[j] = q[i]
    BY <1>1 DEF Dropped
  <1>4. QED
    BY <1>1, <1>2, <1>3 DEF Open, Range, u

LEMMA SentGuarded ==
  ASSUME NEW q \in Seq(AnyEntry), q # <<>>, Head(q).op # "wait", NEW b,
         NEW r, Guarded(q, b, r)
  PROVE  Guarded(Tail(q), b \cup {Head(q)}, r)
  <1> DEFINE u == Tail(q)
             c == b \cup {Head(q)}
  <1>1. /\ Dropped(q, u, 1) /\ Head(q) = q[1] /\ DOMAIN q = 1..Len(q)
        /\ Len(q) \in Nat /\ 1 \in 1..Len(q) /\ DOMAIN u = 1..Len(u)
        /\ Len(u) + 1 = Len(q)
    BY TailDropped DEF Dropped
  <1>2. Open(u, c) = Open(q, b)
    BY SentOpen
  <1> HIDE DEF u
  <1> SUFFICES ASSUME NEW m \in Open(q, b), m.run = r,
                      m.op \in {"delete", "unsubscribe"}
               PROVE  /\ Pending(u, c, r, After(m.op))
                      /\ \A x \in c : x.run = r => x.op # After(m.op)
                      /\ \A j \in 1..Len(u) :
                           u[j].run = r /\ u[j].op = After(m.op) => Behind(u, m.n, j)
    BY <1>2 DEF Guarded, u
  <1>3. Pending(u, c, r, After(m.op))
    BY <1>2 DEF Guarded, Pending
  <1>4. ASSUME q[1].run = r, q[1].op = After(m.op) PROVE FALSE
    <2>1. Behind(q, m.n, 1)
      BY <1>1, <1>4 DEF Guarded
    <2>2. QED
      BY <1>1, <2>1 DEF Behind
  <1>5. ASSUME NEW x \in c, x.run = r, x.op = After(m.op) PROVE FALSE
    BY <1>1, <1>4, <1>5 DEF Guarded
  <1>6. ASSUME NEW j \in 1..Len(u), u[j].run = r, u[j].op = After(m.op)
        PROVE  Behind(u, m.n, j)
    <2>1. u[j] = q[j + 1] /\ j + 1 \in 1..Len(q)
      BY <1>1 DEF Dropped
    <2>2. Behind(q, m.n, j + 1)
      BY <1>6, <2>1 DEF Guarded
    <2>3. PICK i \in 1..Len(q) : i < j + 1 /\ q[i].op = "wait" /\ q[i].n = m.n
      BY <1>1, <2>2 DEF Behind
    <2>4. i # 1
      BY <1>1, <2>3
    <2>5. i - 1 \in 1..Len(u) /\ (i - 1) + 1 = i /\ i - 1 < j
      BY <1>1, <2>3, <2>4
    <2>6. u[i - 1] = q[i]
      BY <1>1, <2>5 DEF Dropped
    <2>7. QED
      BY <1>1, <2>3, <2>5, <2>6 DEF Behind
  <1>7. QED
    BY <1>3, <1>5, <1>6

LEMMA SentNumbered ==
  ASSUME NEW q \in Seq(AnyEntry), q # <<>>, Head(q).op # "wait", NEW b,
         NEW w, Numbered(q, b, w)
  PROVE  Numbered(Tail(q), b \cup {Head(q)}, w)
  <1> DEFINE u == Tail(q)
             c == b \cup {Head(q)}
  <1>1. /\ Dropped(q, u, 1) /\ Head(q) = q[1] /\ Len(q) \in Nat /\ 1 \in 1..Len(q)
    BY TailDropped
  <1>2. Open(u, c) = Open(q, b)
    BY SentOpen
  <1> HIDE DEF u
  <1>3. ASSUME NEW i \in 1..Len(u)
        PROVE  i + 1 \in 1..Len(q) /\ i + 1 # 1 /\ u[i] = q[i + 1]
    BY <1>1 DEF Dropped
  <1>4. ASSUME NEW i \in 1..Len(u), NEW j \in 1..Len(u), i # j,
               u[i].op # "wait", u[j].op # "wait"
        PROVE  u[i].n # u[j].n
    <2>1. i + 1 # j + 1
      BY <1>4
    <2>2. QED
      BY <1>3, <1>4, <2>1 DEF Numbered
  <1>5. ASSUME NEW i \in 1..Len(u), NEW m \in c, u[i].op # "wait"
        PROVE  u[i].n # m.n
    BY <1>1, <1>3, <1>5 DEF Numbered
  <1>6. ASSUME NEW m1 \in c, NEW m2 \in c, m1.n = m2.n PROVE m1 = m2
    BY <1>1, <1>6 DEF Numbered
  <1>7. QED
    BY <1>2, <1>4, <1>5, <1>6 DEF Numbered, u

LEMMA SendRequestHeard ==
  ASSUME RunsInv, TypeInv, HeardInv, SendRequest
  PROVE  HeardInv'
  <1> DEFINE q == sdk.queue
             c == inbox \cup {Head(q)}
  <1>1. q \in Seq(AnyEntry) /\ q # <<>> /\ Head(q).op # "wait"
    BY OpenFits DEF SendRequest
  <1>2. /\ sdk' = [sdk EXCEPT !.queue = Tail(q)] /\ inbox' = c
        /\ UNCHANGED <<poll, subscribed, wire>>
    BY DEF SendRequest
  <1>3. sdk'.runs = sdk.runs /\ sdk'.queue = Tail(q)
    BY <1>2 DEF RunsInv, IsState
  <1>4. Numbered(Tail(q), c, wire)
    BY <1>1, SentNumbered DEF HeardInv
  <1>5. ASSUME NEW r \in DOMAIN sdk.runs, Awaited(sdk.runs, r)
        PROVE  /\ sdk.runs[r].handler = "live"
               /\ Served(sdk.runs, Tail(q), c, poll, subscribed, r)
    <2>1. sdk.runs[r].handler = "live" /\ Served(sdk.runs, q, inbox, poll, subscribed, r)
      BY <1>5 DEF HeardInv
    <2>2. Open(Tail(q), c) = Open(q, inbox)
      BY <1>1, SentOpen
    <2>3. Guarded(Tail(q), c, r)
      BY <1>1, <2>1, SentGuarded DEF Served
    <2>4. QED
      BY <2>1, <2>2, <2>3 DEF Served, Pending
  <1> HIDE DEF q, c
  <1>6. QED
    BY <1>2, <1>3, <1>4, <1>5 DEF HeardInv

\* The server does request m.
LEMMA DoneOpen ==
  ASSUME NEW q, NEW b, NEW w, Numbered(q, b, w), NEW m \in b,
         DOMAIN q = 1..Len(q)
  PROVE  Open(q, b \ {m}) = Open(q, b) \ {m}
  BY DEF Open, Range, Numbered

LEMMA DoneNumbered ==
  ASSUME NEW q, DOMAIN q = 1..Len(q), NEW b, NEW w \in Seq(Messages),
         Numbered(q, b, w), NEW m \in b, NEW a, a.n = m.n
  PROVE  Numbered(q, b \ {m}, Append(w, a))
  <1> DEFINE v == Append(w, a)
  <1>1. Open(q, b \ {m}) = Open(q, b) \ {m}
    BY DoneOpen
  <1>2. /\ Len(v) = Len(w) + 1 /\ Len(w) \in Nat
        /\ \A i \in 1..Len(w) : v[i] = w[i]
        /\ v[Len(w) + 1] = a
    OBVIOUS
  <1> HIDE DEF v
  <1>3. ASSUME NEW x \in Open(q, b), x # m PROVE x.n # m.n
    BY <1>3 DEF Open, Range, Numbered
  <1>4. ASSUME NEW i \in 1..Len(v), NEW x \in Open(q, b \ {m}), v[i].kind = "answer"
        PROVE  v[i].n # x.n
    <2>1. CASE i \in 1..Len(w)
      <3>1. x \in Open(q, b) /\ v[i] = w[i]
        BY <1>1, <1>2, <2>1
      <3>2. \A k \in 1..Len(w), y \in Open(q, b) :
              w[k].kind = "answer" => w[k].n # y.n
        BY DEF Numbered
      <3>3. QED
        BY <1>4, <2>1, <3>1, <3>2
    <2>2. CASE i = Len(w) + 1
      <3>1. x \in Open(q, b) /\ x # m
        BY <1>1
      <3>2. v[i] = a
        BY <1>2, <2>2
      <3>3. QED
        BY <1>3, <3>1, <3>2
    <2>3. QED
      BY <1>2, <2>1, <2>2
  <1>5. QED
    BY <1>4 DEF Numbered, v

\* A reset that is done leaves the others guarded, as what comes after them is
\* not what the server did.
LEMMA DoneGuarded ==
  ASSUME NEW q, DOMAIN q = 1..Len(q), NEW b, NEW w, Numbered(q, b, w),
         NEW m \in b, NEW r, Guarded(q, b, r)
  PROVE  Guarded(q, b \ {m}, r)
  <1>1. Open(q, b \ {m}) = Open(q, b) \ {m}
    BY DoneOpen
  <1>2. ASSUME NEW x \in Open(q, b), x.run = r, x.op \in {"delete", "unsubscribe"}
        PROVE  Pending(q, b \ {m}, r, After(x.op))
    <2>1. PICK y \in Open(q, b) : y.op = After(x.op) /\ y.run = r
      BY <1>2 DEF Guarded, Pending
    <2>2. y # m
      BY <1>2, <2>1 DEF Guarded
    <2>3. QED
      BY <1>1, <2>1, <2>2 DEF Pending
  <1>3. QED
    BY <1>1, <1>2 DEF Guarded

LEMMA DonePending ==
  ASSUME NEW q, DOMAIN q = 1..Len(q), NEW b, NEW w, Numbered(q, b, w),
         NEW m \in b, NEW r, NEW op, Pending(q, b, r, op), m.op # op \/ m.run # r
  PROVE  Pending(q, b \ {m}, r, op)
  BY DoneOpen DEF Pending

LEMMA ServeServed ==
  ASSUME IsInjective(Topic), RunsInv, TypeInv, HeardInv, NEW m \in inbox, Serve(m),
         NEW r \in DOMAIN sdk.runs,
         Served(sdk.runs, sdk.queue, inbox, poll, subscribed, r)
  PROVE  Served(sdk.runs, sdk.queue, inbox', poll', subscribed', r)
  <1> DEFINE q == sdk.queue
             p == sdk.runs[r].poll
             o == sdk.runs[m.run].poll
             b == inbox \ {m}
  <1>1. /\ DOMAIN q = 1..Len(q) /\ m \in Open(q, inbox) /\ m.run \in DOMAIN sdk.runs
        /\ m.op \in Operations
    <2>1. q \in Seq(AnyEntry) /\ m \in Open(q, inbox)
      BY OpenFits DEF Open
    <2>2. QED
      BY <2>1, OpenFits
  <1>2. p \in Polls /\ o \in Polls
    BY <1>1, TopicOfRun DEF RunsInv
  <1>3. /\ inbox' = b
        /\ poll' = CASE m.op = "delete" -> [poll EXCEPT ![o] = Absent]
                     [] m.op = "create" ->
                          [poll EXCEPT ![o] = [run |-> m.run, status |-> "active"]]
                     [] OTHER -> poll
        /\ subscribed' = CASE m.op = "subscribe" -> subscribed \cup {Topic[o]}
                           [] m.op = "unsubscribe" -> subscribed \ {Topic[o]}
                           [] OTHER -> subscribed
    BY DEF Serve
  <1>4. DOMAIN poll = Polls
    BY DEF TypeInv, ServerTyped
  <1>5. /\ \A x \in Open(q, inbox) : sdk.runs[x.run].poll = p => x.run = r
        /\ Pending(q, inbox, r, "create") \/ poll[p].run = r
        /\ Pending(q, inbox, r, "subscribe") \/ Topic[p] \in subscribed
        /\ Guarded(q, inbox, r) /\ Numbered(q, inbox, wire)
    BY DEF Served, HeardInv
  <1>6. o = p => m.run = r
    BY <1>1, <1>5
  <1>7. o # p => Topic[o] # Topic[p]
    BY <1>2, PollsAssumption DEF IsInjective
  <1>8. Guarded(q, b, r)
    BY <1>1, <1>5, DoneGuarded
  <1>9. \A x \in Open(q, b) : sdk.runs[x.run].poll = p => x.run = r
    BY <1>1, <1>5, DoneOpen
  <1>10. o # p => m.run # r
    OBVIOUS
  <1>11. \A op : m.op # op \/ m.run # r =>
           (Pending(q, inbox, r, op) => Pending(q, b, r, op))
    BY <1>1, <1>5, DonePending
  <1>12. m.run = r /\ m.op = "delete" => Pending(q, inbox, r, "create")
    BY <1>1, <1>5 DEF Guarded, After
  <1>13. m.run = r /\ m.op = "unsubscribe" => Pending(q, inbox, r, "subscribe")
    BY <1>1, <1>5 DEF Guarded, After
  <1> HIDE DEF q, p, o, b
  <1>14. Pending(q, b, r, "create") \/ poll'[p].run = r
    <2>1. CASE o # p
      <3>1. poll'[p] = poll[p]
        BY <1>2, <1>3, <1>4, <2>1
      <3>2. QED
        BY <1>5, <1>10, <1>11, <2>1, <3>1
    <2>2. CASE o = p /\ m.op = "create"
      BY <1>2, <1>3, <1>4, <1>6, <2>2
    <2>3. CASE o = p /\ m.op = "delete"
      BY <1>6, <1>11, <1>12, <2>3
    <2>4. CASE m.op # "create" /\ m.op # "delete"
      BY <1>3, <1>5, <1>11, <2>4
    <2>5. QED
      BY <2>1, <2>2, <2>3, <2>4
  <1>15. Pending(q, b, r, "subscribe") \/ Topic[p] \in subscribed'
    <2>1. CASE o # p
      <3>1. Topic[p] \in subscribed => Topic[p] \in subscribed'
        BY <1>3, <1>7, <2>1
      <3>2. QED
        BY <1>5, <1>10, <1>11, <2>1, <3>1
    <2>2. CASE o = p /\ m.op = "subscribe"
      BY <1>3, <2>2
    <2>3. CASE o = p /\ m.op = "unsubscribe"
      BY <1>6, <1>11, <1>13, <2>3
    <2>4. CASE m.op # "subscribe" /\ m.op # "unsubscribe"
      BY <1>3, <1>5, <1>11, <2>4
    <2>5. QED
      BY <2>1, <2>2, <2>3, <2>4
  <1>16. QED
    BY <1>3, <1>8, <1>9, <1>14, <1>15 DEF Served, q, p

LEMMA ServeHeard ==
  ASSUME IsInjective(Topic), RunsInv, TypeInv, HeardInv, NEW m \in inbox, Serve(m)
  PROVE  HeardInv'
  <1> DEFINE a == [kind |-> "answer", run |-> m.run, n |-> m.n]
  <1>1. UNCHANGED sdk /\ inbox' = inbox \ {m} /\ wire' = Append(wire, a)
    BY DEF Serve
  <1>2. Numbered(sdk.queue, inbox \ {m}, Append(wire, a))
    <2>1. a.n = m.n
      OBVIOUS
    <2> HIDE DEF a
    <2>2. DOMAIN sdk.queue = 1..Len(sdk.queue) /\ wire \in Seq(Messages)
      BY OpenFits DEF TypeInv, Typed
    <2>3. QED
      BY <2>1, <2>2, DoneNumbered DEF HeardInv
  <1> HIDE DEF a
  <1>3. \A r \in DOMAIN sdk.runs :
          Awaited(sdk.runs, r) =>
            /\ sdk.runs[r].handler = "live"
            /\ Served(sdk.runs, sdk.queue, inbox', poll', subscribed', r)
    BY ServeServed DEF HeardInv
  <1>4. QED
    BY <1>1, <1>2, <1>3 DEF HeardInv

LEMMA AnnounceHeard ==
  ASSUME RunsInv, TypeInv, HeardInv, NEW p \in Polls, Announce(p)
  PROVE  HeardInv'
  <1> DEFINE v == Append(wire, Update(p))
  <1>1. /\ UNCHANGED <<sdk, inbox, subscribed>>
        /\ wire' = wire \/ wire' = v
        /\ poll' = poll \/ poll' = [poll EXCEPT ![p].status = "expired"]
    BY DEF Announce
  <1>2. \A o \in Polls : poll'[o].run = poll[o].run
    <2>1. CASE UNCHANGED poll
      BY <2>1
    <2>2. CASE poll' = [poll EXCEPT ![p].status = "expired"]
      <3> DEFINE e == [poll[p] EXCEPT !.status = "expired"]
      <3>1. e.run = poll[p].run
        BY DEF TypeInv, ServerTyped
      <3>2. DOMAIN poll = Polls /\ poll' = [poll EXCEPT ![p] = e]
        BY <2>2 DEF TypeInv, ServerTyped
      <3> HIDE DEF e
      <3>3. QED
        BY <3>1, <3>2
    <2>3. QED
      BY <1>1, <2>1, <2>2
  <1>3. Numbered(sdk.queue, inbox, v)
    <2>1. wire \in Seq(Messages) /\ Update(p).kind # "answer"
      BY DEF TypeInv, Typed, Update
    <2>2. /\ Len(v) = Len(wire) + 1 /\ Len(wire) \in Nat
          /\ \A i \in 1..Len(wire) : v[i] = wire[i]
          /\ v[Len(wire) + 1] = Update(p)
      BY <2>1
    <2> HIDE DEF v
    <2>3. \A i \in 1..Len(v) : v[i].kind = "answer" => i \in 1..Len(wire) /\ v[i] = wire[i]
      BY <2>1, <2>2
    <2>4. QED
      BY <2>3 DEF HeardInv, Numbered
  <1>4. Numbered(sdk.queue, inbox, wire')
    BY <1>1, <1>3 DEF HeardInv
  <1>5. \A r \in DOMAIN sdk.runs : sdk.runs[r].poll \in Polls
    BY TopicOfRun DEF RunsInv
  <1>6. \A r \in DOMAIN sdk.runs :
          Awaited(sdk.runs, r) =>
            /\ sdk.runs[r].handler = "live"
            /\ Served(sdk.runs, sdk.queue, inbox, poll', subscribed, r)
    BY <1>2, <1>5 DEF HeardInv, Served
  <1>7. QED
    BY <1>1, <1>4, <1>6 DEF HeardInv

\* What a call of run o of another poll queues leaves an awaited run served.
LEMMA OthersServed ==
  ASSUME NEW s, NEW t, NEW o, o # 0, QueueState(s), Queues(s, t, o),
         NEW runs, NEW b, NEW r, r # 0, r # o, NEW polls, NEW topics,
         Served(s.runs, s.queue, b, polls, topics, r),
         \A m \in Open(s.queue, b) : runs[m.run].poll = s.runs[m.run].poll,
         runs[r].poll = s.runs[r].poll, runs[o].poll # runs[r].poll
  PROVE  Served(runs, t.queue, b, polls, topics, r)
  <1> DEFINE q == s.queue
             u == t.queue
  <1>1. /\ q \in Seq(AnyEntry) /\ u \in Seq(AnyEntry) /\ Len(q) \in Nat
        /\ Len(u) \in Nat /\ Len(u) >= Len(q)
        /\ DOMAIN q = 1..Len(q) /\ DOMAIN u = 1..Len(u)
    BY DEF QueueState, Queues
  <1>2. /\ \A i \in 1..Len(q) : u[i] = q[i]
        /\ \A i \in (Len(q) + 1)..Len(u) : u[i].op = "wait" => u[i].run = 0
        /\ \A i \in (Len(q) + 1)..Len(u) : u[i].op # "wait" => u[i].run = o
    BY DEF Queues
  <1>3. /\ \A m \in Open(q, b) : s.runs[m.run].poll = s.runs[r].poll => m.run = r
        /\ Pending(q, b, r, "create") \/ polls[s.runs[r].poll].run = r
        /\ Pending(q, b, r, "subscribe") \/ Topic[s.runs[r].poll] \in topics
        /\ Guarded(q, b, r)
    BY DEF Served
  <1> HIDE DEF q, u
  <1>4. Open(q, b) \subseteq Open(u, b)
    BY <1>1, <1>2 DEF Open, Range
  <1>5. ASSUME NEW i \in 1..Len(u) PROVE i \in 1..Len(q) \/ i \in (Len(q) + 1)..Len(u)
    BY <1>1
  <1>6. \A m \in Open(u, b) : m \in Open(q, b) \/ m.run = o
    BY <1>1, <1>2, <1>5 DEF Open, Range
  <1>7. ASSUME NEW i \in 1..Len(u), u[i].run = r PROVE i \in 1..Len(q) /\ u[i] = q[i]
    BY <1>2, <1>5, <1>7
  <1>8. \A op : Pending(q, b, r, op) => Pending(u, b, r, op)
    BY <1>4 DEF Pending
  <1>9. ASSUME NEW j \in 1..Len(q), NEW n, Behind(q, n, j) PROVE Behind(u, n, j)
    <2>1. PICK i \in 1..Len(q) : i < j /\ q[i].op = "wait" /\ q[i].n = n
      BY <1>1, <1>9 DEF Behind
    <2>2. i \in 1..Len(u) /\ u[i] = q[i]
      BY <1>1, <1>2
    <2>3. QED
      BY <1>1, <2>1, <2>2 DEF Behind
  <1>10. Guarded(u, b, r)
    <2> SUFFICES ASSUME NEW m \in Open(u, b), m.run = r,
                        m.op \in {"delete", "unsubscribe"}
                 PROVE  /\ Pending(u, b, r, After(m.op))
                        /\ \A x \in b : x.run = r => x.op # After(m.op)
                        /\ \A j \in 1..Len(u) :
                             u[j].run = r /\ u[j].op = After(m.op) => Behind(u, m.n, j)
      BY DEF Guarded
    <2>1. m \in Open(q, b)
      BY <1>6
    <2>2. /\ Pending(q, b, r, After(m.op))
          /\ \A x \in b : x.run = r => x.op # After(m.op)
          /\ \A j \in 1..Len(q) :
               q[j].run = r /\ q[j].op = After(m.op) => Behind(q, m.n, j)
      BY <1>3, <2>1 DEF Guarded
    <2>3. QED
      BY <1>7, <1>8, <1>9, <2>2
  <1>11. \A m \in Open(u, b) : runs[m.run].poll = runs[r].poll => m.run = r
    BY <1>3, <1>6 DEF q
  <1>12. QED
    BY <1>3, <1>8, <1>10, <1>11 DEF Served, u

LEMMA QueuesNumbered ==
  ASSUME RunsInv, TypeInv, HeardInv, NEW t, NEW r, Queues(sdk, t, r),
         NEW w, NEW k, w = wire \/ Dropped(wire, w, k)
  PROVE  Numbered(t.queue, inbox, w)
  <1> DEFINE q == sdk.queue
             u == t.queue
             N == sdk.requests
             O == Open(q, inbox)
  <1>1. /\ q \in Seq(AnyEntry) /\ u \in Seq(AnyEntry) /\ Len(q) \in Nat
        /\ Len(u) \in Nat /\ Len(u) >= Len(q) /\ N \in Nat
        /\ DOMAIN q = 1..Len(q) /\ DOMAIN u = 1..Len(u)
        /\ \A m \in O : m.n \in 1..N
    BY OpenFits DEF Queues, QueueState, TypeInv, Typed
  <1>2. /\ \A i \in 1..Len(q) : u[i] = q[i]
        /\ \A i \in (Len(q) + 1)..Len(u) : u[i].op # "wait" => u[i].n > N
        /\ \A i, j \in (Len(q) + 1)..Len(u) :
             i # j /\ u[i].op # "wait" /\ u[j].op # "wait" => u[i].n # u[j].n
    BY DEF Queues
  <1>3. Numbered(q, inbox, w)
    BY FewerAnswers DEF HeardInv
  <1>4. WireFits(w, Len(sdk.runs), N)
    BY DEF TypeInv, Typed, WireFits, Dropped
  <1>5. \A i \in 1..Len(q) : q[i].op # "wait" => q[i] \in O
    BY <1>1 DEF Open, Range
  <1>6. inbox \subseteq O
    BY DEF Open
  <1>7. \A m \in Open(u, inbox) :
          m \in O \/ \E i \in (Len(q) + 1)..Len(u) : m = u[i] /\ m.op # "wait"
    <2>1. \A i \in 1..Len(u) : i \in 1..Len(q) \/ i \in (Len(q) + 1)..Len(u)
      BY <1>1
    <2>2. QED
      BY <1>1, <1>2, <1>5, <2>1 DEF Open, Range
  <1> HIDE DEF q, u, N, O
  <1>8. \A i \in 1..Len(u) : i \in 1..Len(q) \/ i \in (Len(q) + 1)..Len(u)
    BY <1>1
  <1>9. \A n \in 1..N, l \in AnyEntry : l.n > N => n # l.n
    BY <1>1 DEF AnyEntry
  <1>10. \A i \in (Len(q) + 1)..Len(u) : u[i] \in AnyEntry
    BY <1>1
  <1>11. ASSUME NEW m \in O, NEW i \in (Len(q) + 1)..Len(u), u[i].op # "wait"
         PROVE  m.n # u[i].n
    BY <1>1, <1>2, <1>9, <1>10, <1>11
  <1>12. ASSUME NEW i \in 1..Len(u), NEW j \in 1..Len(u), i # j,
                u[i].op # "wait", u[j].op # "wait"
         PROVE  u[i].n # u[j].n
    <2>1. CASE i \in 1..Len(q) /\ j \in 1..Len(q)
      BY <1>2, <1>3, <1>12, <2>1 DEF Numbered
    <2>2. CASE i \in 1..Len(q) /\ j \in (Len(q) + 1)..Len(u)
      BY <1>2, <1>5, <1>11, <1>12, <2>2
    <2>3. CASE j \in 1..Len(q) /\ i \in (Len(q) + 1)..Len(u)
      BY <1>2, <1>5, <1>11, <1>12, <2>3
    <2>4. CASE i \in (Len(q) + 1)..Len(u) /\ j \in (Len(q) + 1)..Len(u)
      BY <1>2, <1>12, <2>4
    <2>5. QED
      BY <1>8, <2>1, <2>2, <2>3, <2>4
  <1>13. ASSUME NEW i \in 1..Len(u), NEW m \in inbox, u[i].op # "wait"
         PROVE  u[i].n # m.n
    <2>1. CASE i \in 1..Len(q)
      BY <1>2, <1>3, <1>13, <2>1 DEF Numbered
    <2>2. CASE i \in (Len(q) + 1)..Len(u)
      BY <1>6, <1>11, <1>13, <2>2
    <2>3. QED
      BY <1>8, <2>1, <2>2
  <1>14. ASSUME NEW i \in 1..Len(w), NEW m \in Open(u, inbox), w[i].kind = "answer"
         PROVE  w[i].n # m.n
    <2>1. CASE m \in O
      BY <1>3, <1>14, <2>1 DEF Numbered, O
    <2>2. CASE m \notin O
      <3>1. PICK j \in (Len(q) + 1)..Len(u) : m = u[j] /\ m.op # "wait"
        BY <1>7, <2>2
      <3>2. w[i].n \in 1..N
        BY <1>4, <1>14 DEF WireFits
      <3>3. QED
        BY <1>2, <1>9, <1>10, <3>1, <3>2
    <2>3. QED
      BY <2>1, <2>2
  <1>15. \A m1, m2 \in inbox : m1.n = m2.n => m1 = m2
    BY <1>3 DEF Numbered
  <1>16. QED
    BY <1>12, <1>13, <1>14, <1>15 DEF Numbered, u

\* An accepted call of a poll that nothing is open for will be served.
LEMMA NewServed ==
  ASSUME NEW s, NEW t, NEW r, r # 0, QueueState(s), Queues(s, t, r),
         MakesAfterReset(s, t), NEW runs, NEW b,
         \A m \in Open(s.queue, b) :
           m.run # r /\ runs[m.run].poll # runs[r].poll,
         NEW polls, NEW topics
  PROVE  Served(runs, t.queue, b, polls, topics, r)
  <1> DEFINE q == s.queue
             u == t.queue
             new == (Len(q) + 1)..Len(u)
  <1>1. /\ q \in Seq(AnyEntry) /\ u \in Seq(AnyEntry) /\ Len(q) \in Nat
        /\ Len(u) \in Nat /\ Len(u) >= Len(q)
        /\ DOMAIN q = 1..Len(q) /\ DOMAIN u = 1..Len(u)
    BY DEF QueueState, Queues
  <1>2. /\ \A i \in 1..Len(q) : u[i] = q[i]
        /\ \A i \in new : u[i].op # "wait" => u[i].run = r
    BY DEF Queues
  <1>3. /\ \E i \in new : u[i].op = "create"
        /\ \E i \in new : u[i].op = "subscribe"
        /\ \A i, j \in new :
             u[i].op \in {"delete", "unsubscribe"} /\ u[j].op = After(u[i].op)
               => Behind(u, u[i].n, j)
    BY DEF MakesAfterReset
  <1>4. \A i \in 1..Len(u) : i \in 1..Len(q) \/ i \in new
    BY <1>1
  <1>5. \A i \in new : i \in DOMAIN u
    BY <1>1
  <1> HIDE DEF q, u, new
  <1>6. \A m \in Open(u, b) :
          m \in Open(q, b) \/ \E i \in new : m = u[i] /\ m.op # "wait"
    BY <1>1, <1>2, <1>4 DEF Open, Range
  <1>7. b \subseteq Open(q, b)
    BY DEF Open
  <1>8. \A i \in 1..Len(q) : q[i].op # "wait" => q[i].run # r
    BY <1>1 DEF Open, Range, q
  <1>9. Pending(u, b, r, "create") /\ Pending(u, b, r, "subscribe")
    BY <1>2, <1>3, <1>5 DEF Pending, Open, Range
  <1>10. \A m \in Open(u, b) : runs[m.run].poll = runs[r].poll => m.run = r
    BY <1>2, <1>6 DEF q
  <1>11. Guarded(u, b, r)
    <2> SUFFICES ASSUME NEW m \in Open(u, b), m.run = r,
                        m.op \in {"delete", "unsubscribe"}
                 PROVE  /\ Pending(u, b, r, After(m.op))
                        /\ \A x \in b : x.run = r => x.op # After(m.op)
                        /\ \A j \in 1..Len(u) :
                             u[j].run = r /\ u[j].op = After(m.op) => Behind(u, m.n, j)
      BY DEF Guarded
    <2>1. PICK i \in new : m = u[i]
      BY <1>6 DEF q
    <2>2. Pending(u, b, r, After(m.op))
      BY <1>9 DEF After
    <2>3. \A x \in b : x.run # r
      BY <1>7 DEF q
    <2>4. ASSUME NEW j \in 1..Len(u), u[j].run = r, u[j].op = After(m.op)
          PROVE  Behind(u, m.n, j)
      <3>1. u[j].op # "wait"
        BY <2>4 DEF After
      <3>2. j \in new
        BY <1>2, <1>4, <1>8, <2>4, <3>1
      <3>3. QED
        BY <1>3, <2>1, <2>4, <3>2
    <2>5. QED
      BY <2>2, <2>3, <2>4
  <1>12. QED
    BY <1>9, <1>10, <1>11 DEF Served, u

LEMMA StartPollHeard ==
  ASSUME IsInjective(CallbackName), RunsInv, TypeInv, HeardInv,
         NEW p \in Polls, StartPoll(p)
  PROVE  HeardInv'
  <1>1. PICK ok \in BOOLEAN : sdk' = Run(sdk, p, ok)
    BY DEF StartPoll
  <1> DEFINE t == Run(sdk, p, ok)
             r == Len(sdk.runs) + 1
  <1>2. /\ NewRun(sdk, t, p, ok) /\ Queues(sdk, t, r)
        /\ (ok => MakesAfterReset(sdk, t)) /\ QueueState(sdk)
    BY RunShape, RunQueue DEF RunsInv, TypeInv, Typed
  <1> HIDE DEF t
  <1>3. /\ DOMAIN sdk.runs = 1..Len(sdk.runs) /\ Len(sdk.runs) \in Nat
        /\ DOMAIN t.runs = 1..r /\ r # 0 /\ r \notin DOMAIN sdk.runs
    BY <1>2 DEF RunsInv, IsState, NewRun
  <1>4. /\ \A i \in DOMAIN sdk.runs :
             /\ t.runs[i].poll = sdk.runs[i].poll
             /\ t.runs[i].created = sdk.runs[i].created
             /\ t.runs[i].finished = sdk.runs[i].finished
             /\ CallbackName[sdk.runs[i].poll] # CallbackName[p]
                  => t.runs[i].handler = sdk.runs[i].handler
        /\ t.runs[r].poll = p
    BY <1>2 DEF NewRun
  <1>5. /\ t.runs[r].created = ok
        /\ ok => t.runs[r].handler = "live"
    BY <1>2 DEF NewRun
  <1>6. \A m \in Open(sdk.queue, inbox) :
          /\ m.run \in DOMAIN sdk.runs /\ m.run # 0 /\ m.run # r
          /\ sdk.runs[m.run].poll # p
    <2>1. \A m \in Open(sdk.queue, inbox) : m.run \in DOMAIN sdk.runs /\ m.run # 0
      BY OpenFits
    <2>2. Unanswered(p) = {}
      BY DEF StartPoll
    <2>3. QED
      BY <1>3, <2>1, <2>2 DEF Unanswered, Open
  <1>7. UNCHANGED <<inbox, poll, subscribed, wire>> /\ sdk' = t
    BY <1>1 DEF StartPoll, serverVars, t
  <1>8. Numbered(t.queue, inbox, wire)
    BY <1>2, QueuesNumbered
  <1>9. ASSUME Awaited(t.runs, r)
        PROVE  /\ t.runs[r].handler = "live"
               /\ Served(t.runs, t.queue, inbox, poll, subscribed, r)
    <2>1. t.runs[r].created
      BY <1>9 DEF Awaited
    <2>2. ok
      BY <1>5, <2>1
    <2>3. \A m \in Open(sdk.queue, inbox) :
            m.run # r /\ t.runs[m.run].poll # t.runs[r].poll
      BY <1>4, <1>6
    <2>4. QED
      BY <1>2, <1>3, <1>5, <2>2, <2>3, NewServed
  <1>10. ASSUME NEW i \in DOMAIN sdk.runs, Awaited(t.runs, i)
         PROVE  /\ t.runs[i].handler = "live"
                /\ Served(t.runs, t.queue, inbox, poll, subscribed, i)
    <2>1. t.runs[i].poll # p
      <3>1. r \in DOMAIN t.runs /\ ~(r <= i)
        BY <1>3
      <3>2. QED
        BY <1>4, <1>10, <3>1 DEF Awaited
    <2>2. Awaited(sdk.runs, i)
      <3>1. \A j \in DOMAIN sdk.runs : j \in DOMAIN t.runs
        BY <1>3
      <3>2. sdk.runs[i].created /\ ~sdk.runs[i].finished
        BY <1>4, <1>10 DEF Awaited
      <3>3. \A j \in DOMAIN sdk.runs : sdk.runs[j].poll = sdk.runs[i].poll => j <= i
        BY <1>4, <1>10, <3>1 DEF Awaited
      <3>4. QED
        BY <3>2, <3>3 DEF Awaited
    <2>3. /\ sdk.runs[i].handler = "live"
          /\ Served(sdk.runs, sdk.queue, inbox, poll, subscribed, i)
      BY <2>2 DEF HeardInv
    <2>4. CallbackName[sdk.runs[i].poll] # CallbackName[p]
      <3>1. sdk.runs[i].poll \in Polls
        BY TopicOfRun DEF RunsInv
      <3>2. QED
        BY <1>4, <2>1, <3>1, PollsAssumption DEF IsInjective
    <2>5. t.runs[i].handler = "live"
      BY <1>4, <2>3, <2>4
    <2>6. i # 0 /\ i # r
      BY <1>3
    <2>7. /\ t.runs[i].poll = sdk.runs[i].poll /\ t.runs[r].poll # t.runs[i].poll
          /\ \A m \in Open(sdk.queue, inbox) :
               t.runs[m.run].poll = sdk.runs[m.run].poll
      BY <1>4, <1>6, <2>1
    <2> HIDE DEF r
    <2>8. Served(t.runs, t.queue, inbox, poll, subscribed, i)
      BY <1>2, <1>3, <2>3, <2>6, <2>7, OthersServed
    <2>9. QED
      BY <2>5, <2>8
  <1>11. \A i \in DOMAIN t.runs : i = r \/ i \in DOMAIN sdk.runs
    BY <1>3
  <1> HIDE DEF r
  <1>12. QED
    BY <1>7, <1>8, <1>9, <1>10, <1>11 DEF HeardInv

\* A callback that sees the end of its poll is not that of an awaited run of
\* the same poll, but for its own.
LEMMA ReceiveFinishHeard ==
  ASSUME Restarts = FALSE, IsInjective(CallbackName), RunsInv, TypeInv, HeardInv,
         ReceiveFinish
  PROVE  HeardInv'
  <1>1. PICK o \in DOMAIN sdk.runs :
          sdk.runs[o].handler = "live" /\ sdk' = Retired(sdk, o)
    BY DEF ReceiveFinish, Listening
  <1> DEFINE t == Retired(sdk, o)
             p == sdk.runs[o].poll
  <1>2. /\ IsState(t) /\ Len(t.runs) = Len(sdk.runs)
        /\ \A i \in DOMAIN sdk.runs :
             /\ t.runs[i].poll = sdk.runs[i].poll
             /\ t.runs[i].created = sdk.runs[i].created
             /\ i # o => t.runs[i].finished = sdk.runs[i].finished
             /\ CallbackName[sdk.runs[i].poll] # CallbackName[p]
                  => t.runs[i].handler = sdk.runs[i].handler
        /\ t.runs[o].finished
    BY RetiredShape DEF RunsInv
  <1>3. Queues(sdk, t, o) /\ QueueState(sdk)
    BY RetiredQueue DEF RunsInv, TypeInv, Typed
  <1> HIDE DEF t
  <1>4. /\ DOMAIN t.runs = DOMAIN sdk.runs
        /\ \A i \in DOMAIN sdk.runs : i \in Nat /\ i # 0
    BY <1>2 DEF RunsInv, IsState
  <1>5. /\ sdk' = t /\ wire' = Tail(wire) /\ Dropped(wire, Tail(wire), 1)
        /\ UNCHANGED <<inbox, poll, subscribed>>
    BY <1>1, TailTyped DEF t, ReceiveFinish, TypeInv
  <1>6. Numbered(t.queue, inbox, wire')
    BY <1>3, <1>5, QueuesNumbered
  <1>7. ASSUME NEW i \in DOMAIN sdk.runs, Awaited(t.runs, i)
        PROVE  /\ t.runs[i].handler = "live"
               /\ Served(t.runs, t.queue, inbox, poll, subscribed, i)
    <2>1. i # o
      BY <1>2, <1>7 DEF Awaited
    <2>2. Awaited(sdk.runs, i)
      <3>1. sdk.runs[i].created /\ ~sdk.runs[i].finished
        BY <1>2, <1>7, <2>1 DEF Awaited
      <3>2. \A j \in DOMAIN sdk.runs : sdk.runs[j].poll = sdk.runs[i].poll => j <= i
        BY <1>2, <1>4, <1>7 DEF Awaited
      <3>3. QED
        BY <3>1, <3>2 DEF Awaited
    <2>3. /\ sdk.runs[i].handler = "live"
          /\ Served(sdk.runs, sdk.queue, inbox, poll, subscribed, i)
      BY <2>2 DEF HeardInv
    <2>4. sdk.runs[i].poll # p
      <3>1. SUFFICES ASSUME sdk.runs[i].poll = p PROVE FALSE
        OBVIOUS
      <3>2. i > o
        BY <1>4, <2>1, <2>2, <3>1 DEF Awaited
      <3>3. sdk.runs[i].handler = "none"
        BY <1>1, <3>1, <3>2 DEF RunsInv, LastListens
      <3>4. QED
        BY <2>3, <3>3
    <2>5. CallbackName[sdk.runs[i].poll] # CallbackName[p]
      <3>1. sdk.runs[i].poll \in Polls /\ p \in Polls
        BY TopicOfRun DEF RunsInv
      <3>2. QED
        BY <2>4, <3>1, PollsAssumption DEF IsInjective
    <2>6. t.runs[i].handler = "live"
      BY <1>2, <2>3, <2>5
    <2>7. \A m \in Open(sdk.queue, inbox) : t.runs[m.run].poll = sdk.runs[m.run].poll
      BY <1>2, OpenFits
    <2>8. /\ t.runs[i].poll = sdk.runs[i].poll /\ t.runs[o].poll # t.runs[i].poll
          /\ i # 0 /\ o # 0
      BY <1>2, <1>4, <2>4
    <2>9. Served(t.runs, t.queue, inbox, poll, subscribed, i)
      BY <1>3, <2>1, <2>3, <2>7, <2>8, OthersServed
    <2>10. QED
      BY <2>6, <2>9
  <1>8. QED
    BY <1>4, <1>5, <1>6, <1>7 DEF HeardInv

LEMMA HeardInit == Init => HeardInv
  <1> SUFFICES ASSUME Init PROVE HeardInv
    OBVIOUS
  <1>1. sdk.runs = <<>> /\ sdk.queue = <<>> /\ inbox = {} /\ wire = <<>>
    BY DEF Init
  <1>2. QED
    BY <1>1 DEF HeardInv, Numbered

LEMMA HeardStep ==
  ASSUME Restarts = FALSE, IsInjective(CallbackName), IsInjective(Topic)
  PROVE  RunsInv /\ TypeInv /\ HeardInv /\ [Next]_vars => HeardInv'
  <1> SUFFICES ASSUME RunsInv, TypeInv, HeardInv, [Next]_vars PROVE HeardInv'
    OBVIOUS
  <1>1. ASSUME NEW p \in Polls, StartPoll(p) PROVE HeardInv'
    BY <1>1, StartPollHeard
  <1>2. ASSUME NEW p \in Polls, Announce(p) PROVE HeardInv'
    BY <1>2, AnnounceHeard
  <1>3. CASE SendRequest
    BY <1>3, SendRequestHeard
  <1>4. CASE SkipWait
    BY <1>4, SkipWaitHeard
  <1>5. ASSUME NEW m \in inbox, Serve(m) PROVE HeardInv'
    BY <1>5, ServeHeard
  <1>6. CASE ReceiveAnswer
    BY <1>6, ReceiveAnswerHeard
  <1>7. CASE ReceiveUnheard \/ ReceiveUpdate
    <2>1. /\ wire # <<>> /\ wire' = Tail(wire)
          /\ UNCHANGED <<sdk, inbox, poll, subscribed>>
      BY <1>7 DEF ReceiveUnheard, ReceiveUpdate
    <2>2. Numbered(sdk.queue, inbox, Tail(wire))
      BY <2>1, TailTyped, FewerAnswers DEF TypeInv, HeardInv
    <2>3. QED
      BY <2>1, <2>2 DEF HeardInv
  <1>8. CASE ReceiveFinish
    BY <1>8, ReceiveFinishHeard
  <1>9. CASE UNCHANGED vars
    BY <1>9 DEF vars, serverVars, HeardInv
  <1>10. QED
    BY <1>1, <1>2, <1>3, <1>4, <1>5, <1>6, <1>7, <1>8, <1>9 DEF Next

\* Whatever the order in which the server works on the resets, the creates and
\* the subscriptions of any number of runs, a poll that was accepted is there and
\* its updates come once its requests are answered: the two waits of RunPoll
\* (src/gamelink_poll.cpp:128-140) and that of RunMatchPoll
\* (src/gamelink_matches.cpp:56-66) are enough, if no two polls share a callback
\* name or a topic and no finish callback runs its poll again.
THEOREM HeardHolds ==
  ASSUME Restarts = FALSE, IsInjective(CallbackName), IsInjective(Topic)
  PROVE  Spec => []Heard
  <1>1. RunsInv /\ TypeInv /\ HeardInv => Heard
    <2> SUFFICES ASSUME RunsInv, TypeInv, HeardInv,
                        NEW p \in Polls, NEW r \in LastRun(p),
                        sdk.runs[r].created, ~sdk.runs[r].finished
                 PROVE  /\ sdk.runs[r].handler = "live"
                        /\ Unanswered(p) = {} =>
                             poll[p].run = r /\ Topic[p] \in subscribed
      BY DEF Heard
    <2>1. r \in DOMAIN sdk.runs /\ sdk.runs[r].poll = p /\ Awaited(sdk.runs, r)
      BY DEF LastRun, Awaited
    <2>2. /\ sdk.runs[r].handler = "live"
          /\ Served(sdk.runs, sdk.queue, inbox, poll, subscribed, r)
      BY <2>1 DEF HeardInv
    <2>3. \A op : Pending(sdk.queue, inbox, r, op) => Unanswered(p) # {}
      <3>1. \A m \in Open(sdk.queue, inbox) : m.run # 0
        BY OpenFits
      <3>2. QED
        BY <2>1, <3>1 DEF Pending, Open, Unanswered
    <2>4. QED
      BY <2>1, <2>2, <2>3 DEF Served
  <1>2. QED
    BY <1>1, RunsInit, RunsStep, TypeInit, TypeStep, HeardInit, HeardStep, PTL
       DEF Spec
=============================================================================
