---------------------------- MODULE ReceiveBuffer ----------------------------
(***************************************************************************)
(* The first half of SDK::ReceiveMessage (src/gamelink.cpp:272-351): a     *)
(* message that does not parse is taken for a fragment, and put together   *)
(* with those before it in _receiveBuffer.                                 *)
(*                                                                         *)
(* Abstracted: bytes.  A message is cut in numbered pieces, and what the   *)
(* function is given is a sequence of pieces.  It parses when it is one    *)
(* whole message; that no part of a message is JSON of its own is assumed. *)
(* What ReceiveMessage does to the queue is in RequestQueue.               *)
(***************************************************************************)
EXTENDS Integers, Sequences

CONSTANT BufferLimit  \* pieces that fit in the buffer: 4 MB

ASSUME BufferLimitAssumption == BufferLimit \in Nat

VARIABLES
  receiveBuffer,  \* _receiveBuffer
  dispatched      \* history: messages given to the events of the SDK

bufferVars == <<receiveBuffer, dispatched>>

\* ParseEnvelope succeeds: these are all pieces of one message, in order.
Parses(bytes) ==
  /\ bytes # <<>>
  /\ Len(bytes) = bytes[1].of
  /\ \A k \in DOMAIN bytes : bytes[k] = [bytes[1] EXCEPT !.part = k]

BufferInit == receiveBuffer = <<>> /\ dispatched = <<>>

\* Lines 352-527: the event of the message's action and target is invoked.
Dispatch(bytes) == dispatched' = Append(dispatched, bytes[1].msg)

\* Mutant: the size of what has just come is left out.
FitsBefore(bytes) == Len(receiveBuffer) <= BufferLimit

\* The buffer with these bytes is within its limit.
Fits(bytes) == Len(receiveBuffer) + Len(bytes) <= BufferLimit

\* Mutant: fragments stay when a whole message comes in between.
ReceiveWholeKeepingFragments(bytes) ==
  /\ Parses(bytes)
  /\ Dispatch(bytes)
  /\ UNCHANGED receiveBuffer

\* It parses by itself; fragments that wait for more are given up.
ReceiveWhole(bytes) ==
  /\ Parses(bytes)
  /\ Dispatch(bytes)
  /\ receiveBuffer' = <<>>

\* The buffer would grow beyond its limit: it is emptied, and this is dropped.
ReceiveTooMuch(bytes) ==
  /\ ~Parses(bytes)
  /\ ~Fits(bytes)
  /\ receiveBuffer' = <<>>
  /\ UNCHANGED dispatched

\* The last fragment.
ReceiveRest(bytes) ==
  /\ ~Parses(bytes)
  /\ Fits(bytes)
  /\ Parses(receiveBuffer \o bytes)
  /\ Dispatch(receiveBuffer \o bytes)
  /\ receiveBuffer' = <<>>

\* A fragment that needs more.
ReceiveFragment(bytes) ==
  /\ ~Parses(bytes)
  /\ Fits(bytes)
  /\ ~Parses(receiveBuffer \o bytes)
  /\ receiveBuffer' = receiveBuffer \o bytes
  /\ UNCHANGED dispatched

ReceiveMessage(bytes) ==
  \/ ReceiveWhole(bytes) \/ ReceiveTooMuch(bytes)
  \/ ReceiveRest(bytes) \/ ReceiveFragment(bytes)
=============================================================================
