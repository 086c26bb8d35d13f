------------------------- MODULE SerializedRequests -------------------------
(***************************************************************************)
(* What the SDK's queue promises a caller (the comment of WaitForResponse, *)
(* include/gamelink.h:694-706): requests are handed to the network in the  *)
(* order they were queued, and a request queued after a wait for request n *)
(* is not handed over before the response of n itself has been received.   *)
(*                                                                         *)
(* There are no request ids here: a wait names the request it waits for.   *)
(* A wait that has been resolved may go at any time, and holds nothing     *)
(* back once it is gone.  Only the authentication of a reconnect goes      *)
(* ahead of what is pending.                                               *)
(***************************************************************************)
EXTENDS Integers, Sequences

CONSTANT Requests   \* the requests callers may make, numbered in any way

VARIABLES pending,      \* what is to be handed over, and waits, in their order
          handedOver,   \* what has been given to the network, in that order
          responded     \* requests whose response has been received

vars == <<pending, handedOver, responded>>

Request(n)     == [kind |-> "request", n |-> n]
Wait(n)        == [kind |-> "wait", n |-> n]
Authentication == [kind |-> "auth", n |-> 0]

Init == pending = <<>> /\ handedOver = <<>> /\ responded = {}

Among(s, e) == \E i \in DOMAIN s : s[i] = e

\* A request is queued once.
Queue(n) ==
  /\ ~Among(pending, Request(n)) /\ ~Among(handedOver, Request(n))
  /\ pending' = Append(pending, Request(n))
  /\ UNCHANGED <<handedOver, responded>>

WaitFor(n) ==
  /\ pending' = Append(pending, Wait(n))
  /\ UNCHANGED <<handedOver, responded>>

Authenticate ==
  /\ pending' = <<Authentication>> \o pending
  /\ UNCHANGED <<handedOver, responded>>

Send ==
  /\ pending # <<>> /\ pending[1].kind # "wait"
  /\ handedOver' = Append(handedOver, pending[1])
  /\ pending' = Tail(pending)
  /\ UNCHANGED responded

\* Some waits that stand together go, each for one of the requests in done.
Forget(done) ==
  \E from, count \in 0..Len(pending) :
    /\ from + count <= Len(pending)
    /\ \A i \in 1..count : \E n \in done : pending[from + i] = Wait(n)
    /\ pending' = [i \in 1..(Len(pending) - count) |->
                     IF i <= from THEN pending[i] ELSE pending[i + count]]

Respond(n) ==
  /\ Among(handedOver, Request(n))
  /\ responded' = responded \cup {n}
  /\ Forget(responded')
  /\ UNCHANGED handedOver

Skip == Forget(responded) /\ UNCHANGED <<handedOver, responded>>

Next ==
  \/ \E n \in Requests : Queue(n) \/ WaitFor(n) \/ Respond(n)
  \/ Authenticate \/ Send \/ Skip

Spec == Init /\ [][Next]_vars
=============================================================================
