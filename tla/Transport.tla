------------------------------ MODULE Transport ------------------------------
(***************************************************************************)
(* What is between the SDK and the server: WebsocketConnection calls       *)
(* SDK::ReceiveMessage with each frame (its onMessage, as the examples and *)
(* test/integration_utils.cpp set it), and takes what ForeachPayload gives *)
(* out.  The connection may end at any byte and be replaced; the SDK, and  *)
(* its receive buffer, stay.                                               *)
(*                                                                         *)
(* External: the server, which cuts a message in frames; the network,      *)
(* which cuts a frame in pieces and keeps their order; and libcurl, of     *)
(* which is known only how many messages it takes in one run at least.     *)
(***************************************************************************)
EXTENDS ReceiveBuffer, WebsocketConnection, Functions

CONSTANTS
  RunTakes,       \* external: messages that one run gets through, if it does well
  MaxPieces,      \* bound: pieces of a message
  MaxIncoming,    \* bound: messages of the server
  MaxSends,       \* bound: messages given to send or terminate
  MaxConnections  \* bound: connections

ASSUME BoundsAssumption ==
  /\ MaxPieces \in Nat \ {0} /\ MaxIncoming \in Nat
  /\ MaxSends \in Nat /\ MaxConnections \in Nat

ASSUME RunTakesAssumption == RunTakes \in Nat \ {0}

VARIABLES
  wire,         \* external: pieces on their way to this connection
  incoming,     \* external: number of messages the server has sent
  connections,  \* number of connections so far
  linkStart,    \* history: value of sends when this connection was made
  heard         \* history: the pieces ReceiveMessage has been given, in order

linkVars == <<wire, incoming, connections, linkStart, heard>>
vars == <<bufferVars, socketVars, linkVars>>

Init ==
  /\ BufferInit /\ SocketInit
  /\ wire = <<>> /\ incoming = 0 /\ connections = 1 /\ linkStart = 0
  /\ heard = <<>>
-----------------------------------------------------------------------------
SendMessage ==
  /\ sends < MaxSends
  /\ Send \/ Terminate
  /\ UNCHANGED <<bufferVars, linkVars>>

ReadHeader == WriteHeader /\ UNCHANGED <<bufferVars, linkVars>>

FlushMessages ==
  /\ \E k \in 0..Len(messages) : Flush(k)
  /\ UNCHANGED <<bufferVars, linkVars>>

\* A flush of the first RunTakes messages, or of all when there are no more.
FlushFirst ==
  /\ messages # <<>>
  /\ Flush(IF Len(messages) < RunTakes THEN Len(messages) ELSE RunTakes)
  /\ UNCHANGED <<bufferVars, linkVars>>

EndConnection ==
  /\ RunDone
  /\ wire' = <<>>
  /\ UNCHANGED <<bufferVars, incoming, connections, linkStart, heard>>

ReplaceConnection ==
  /\ connections < MaxConnections
  /\ NewConnection
  /\ wire' = <<>> /\ connections' = connections + 1 /\ linkStart' = sends
  /\ UNCHANGED <<bufferVars, incoming, heard>>

\* Piece k of message n, which is cut in `of` pieces.
Piece(n, k, of) == [msg |-> n, part |-> k, of |-> of]

\* External.  A message of `of` pieces, in frames that end with pieces `ends`.
ServerSends ==
  /\ connection /\ connected /\ incoming < MaxIncoming
  /\ \E of \in 1..MaxPieces : \E ends \in SUBSET (1..(of - 1)) :
       wire' = wire \o [k \in 1..of |->
                 [piece |-> Piece(incoming + 1, k, of),
                  bytesleft |-> k \notin ends \cup {of}]]
  /\ incoming' = incoming + 1
  /\ UNCHANGED <<bufferVars, socketVars, connections, linkStart, heard>>

\* writeResponse: the SDK gets a frame when all of it is there.
WriteResponse ==
  LET bytes == Append(messageFragment, Head(wire).piece)
  IN  /\ connection /\ wire # <<>>
      /\ wire' = Tail(wire)
      /\ \/ /\ Head(wire).bytesleft
            /\ messageFragment' = bytes
            /\ UNCHANGED <<bufferVars, heard>>
         \/ /\ ~Head(wire).bytesleft
            /\ messageFragment' = <<>>
            /\ ReceiveMessage(bytes)
            /\ heard' = heard \o [k \in 1..Len(bytes) |->
                                   [piece |-> bytes[k], last |-> k = Len(bytes)]]
      /\ UNCHANGED <<outVars, connected, connection, incoming, connections,
                     linkStart>>

Next ==
  \/ SendMessage \/ ReadHeader \/ FlushMessages
  \/ EndConnection \/ ReplaceConnection
  \/ ServerSends \/ WriteResponse

Spec == Init /\ [][Next]_vars

\* The application keeps calling run, and libcurl, which is given the list from
\* its beginning over and over, gets through RunTakes messages at some time.
\* That it gets to the end of a longer list is not assumed: it may take the
\* first ones again in each run, and never those behind them.
FairSpec == Spec /\ WF_vars(ReadHeader) /\ WF_vars(FlushFirst)
-----------------------------------------------------------------------------
Pieces == [msg : 1..MaxIncoming, part : 1..MaxPieces, of : 1..MaxPieces]

\* Every variable has its type; a buffer never holds more than its limit.
TypeOK ==
  /\ receiveBuffer \in Seq(Pieces) /\ Len(receiveBuffer) <= BufferLimit
  /\ dispatched \in Seq(1..MaxIncoming)
  /\ messages \in Seq([n : 1..sends, disconnect : BOOLEAN])
  /\ messageFragment \in Seq(Pieces) /\ Len(messageFragment) < MaxPieces
  /\ connected \in BOOLEAN /\ connection \in BOOLEAN
  /\ sends \in 0..MaxSends /\ transmitted \subseteq 1..sends
  /\ wire \in Seq([piece : Pieces, bytesleft : BOOLEAN])
  /\ incoming \in 0..MaxIncoming /\ connections \in Nat
  /\ linkStart \in 0..sends
  /\ heard \in Seq([piece : Pieces, last : BOOLEAN])

\* All pieces of the message that begins at p have come, one after the other.
HeardWhole(p) ==
  LET m == heard[p].piece
  IN  /\ p + m.of - 1 <= Len(heard)
      /\ \A k \in 1..m.of : heard[p + k - 1].piece = Piece(m.msg, k, m.of)

\* They came in one frame, and nothing else with them.
InOneFrame(p) ==
  /\ p = 1 \/ heard[p - 1].last
  /\ \A k \in 1..(heard[p].piece.of - 1) : ~heard[p + k - 1].last

\* Nothing came before p, or the end of a message that reached its event.
Follows(p) ==
  \/ p = 1
  \/ /\ heard[p - 1].piece.part = heard[p - 1].piece.of
     /\ heard[p - 1].piece.msg \in Range(dispatched)

\* A message all of whose bytes have come in, one after the other, reaches its
\* event if it came in one frame; or if it fits in the buffer and came right
\* after a message that did.  So a connection that ends within a message, or a
\* message that is too long, costs those up to the next whole frame, and no
\* more ("Fragments in error will recover after successful parse",
\* test/receive_message.cpp:56).
Reassembled ==
  \A p \in DOMAIN heard :
    HeardWhole(p)
    /\ (InOneFrame(p) \/ (Follows(p) /\ heard[p].piece.of <= BufferLimit))
      => heard[p].piece.msg \in Range(dispatched)

\* Whatever libcurl refuses and however often run starts again, no message of
\* a connection goes out before all that were given to it earlier have.
NothingSkipped ==
  \A n \in transmitted : n > linkStart =>
    \A i \in (linkStart + 1)..n : i \in transmitted

\* A message that is among the first RunTakes of the list goes out, or the
\* connection ends or is replaced: a run that is refused half way must not cost
\* it, also when messages are given to the connection between two runs.  For
\* those further back the code has no such promise to keep (run starts with the
\* first message each time, websocket_network/websocket.cpp:177-207).
FirstTransmitted ==
  \A n \in 1..MaxSends :
    (connection /\ \E i \in DOMAIN messages : i <= RunTakes /\ messages[i].n = n)
      ~> (n \in transmitted \/ ~connection \/ n <= linkStart)
=============================================================================
