----------------------- MODULE RequestQueueRefinement -----------------------
(***************************************************************************)
(* RequestQueue implements SerializedRequests.                             *)
(*                                                                         *)
(* A payload leaves the queue when it is popped and reaches the network    *)
(* when SendPayload hands it over, so what the drainer holds is still      *)
(* pending, ahead of the queue.  Clearing a wait changes nothing pending:  *)
(* a wait is resolved there when its request has been answered, and is     *)
(* forgotten when ReceiveMessage drops it or the drainer skips it.  With   *)
(* several drainers two held payloads have no order, so the mapping is for *)
(* the one that also re-opens the connection.                              *)
(***************************************************************************)
EXTENDS RequestQueue

\* What the drainer holds, then the queue.
Unsent ==
  IF pc[Reconnector] = "send" THEN <<held[Reconnector]>> \o queuedPayloads
  ELSE queuedPayloads

AbstractPayload(p) ==
  [kind |-> IF p.data = "none" THEN "wait" ELSE p.data, n |-> p.n]

AbstractPayloads(s) == [i \in 1..Len(s) |-> AbstractPayload(s[i])]

Pending == AbstractPayloads(Unsent)
HandedOver == AbstractPayloads(sent)

\* The abstract queue, of which every step of RequestQueue is a step or a
\* stutter: requests reach the network in the order they were queued, each
\* behind the answers to the very requests its callers had waited for
\* (src/gamelink.cpp:226-345, include/gamelink.h:694-706).
Serialized == INSTANCE SerializedRequests WITH
  Requests <- RequestIds,
  pending <- Pending, handedOver <- HandedOver, responded <- answered

Serializes == Serialized!Spec
=============================================================================
