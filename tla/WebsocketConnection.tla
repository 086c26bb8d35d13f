------------------------- MODULE WebsocketConnection -------------------------
(***************************************************************************)
(* WebsocketConnection (websocket_network/websocket.cpp): the outgoing     *)
(* list that `send` and `terminate` fill from any thread and `run` empties *)
(* on one, and the frame that `run` is receiving.  `run` is three steps    *)
(* here, with the lock taken for the last only: what libcurl calls back    *)
(* (writeHeader, writeResponse), the end of the connection, and the flush. *)
(*                                                                         *)
(* Abstracted: text; a message is its number.  External: libcurl.          *)
(***************************************************************************)
EXTENDS Integers, Sequences

VARIABLES
  messages,         \* Impl::messages, guarded by Impl::lock
  messageFragment,  \* Impl::messageFragment
  connected,        \* Impl::connected: the HTTP headers have been read
  connection,       \* whether Impl::connection is not null
  sends,            \* history: messages given to the SDK's connections so far
  transmitted       \* history: those libcurl has taken

outVars == <<messages, sends, transmitted>>
socketVars == <<outVars, messageFragment, connected, connection>>

SocketInit ==
  /\ messages = <<>> /\ messageFragment = <<>>
  /\ connected = FALSE /\ connection = TRUE
  /\ sends = 0 /\ transmitted = {}

\* Push of a message; a disconnect is the CLOSE of terminate.
Push(disconnect) ==
  /\ messages' = Append(messages, [n |-> sends + 1, disconnect |-> disconnect])
  /\ sends' = sends + 1
  /\ UNCHANGED <<transmitted, messageFragment, connected, connection>>

Send == Push(FALSE)

Terminate == Push(TRUE)

\* The end of the HTTP headers: the handshake is done.
WriteHeader ==
  /\ connection /\ ~connected
  /\ connected' = TRUE
  /\ UNCHANGED <<outVars, messageFragment, connection>>

\* Numbers of the first k messages of the list.
FirstOf(k) == {messages[i].n : i \in 1..k}

\* Mutant: when a message cannot be sent, those before it leave the list, and
\* it does with them.
FlushDroppingFailed(k) ==
  /\ connection /\ connected
  /\ transmitted' = transmitted \cup FirstOf(k)
  /\ messages' = IF k = Len(messages) THEN <<>>
                 ELSE SubSeq(messages, k + 2, Len(messages))
  /\ UNCHANGED <<sends, messageFragment, connected, connection>>

\* libcurl takes k messages.  If it takes all, the list is emptied; if it
\* refuses the next one (CURLE_AGAIN, say), run returns and leaves the list as
\* it is, so that the k go out again.
Flush(k) ==
  /\ connection /\ connected
  /\ transmitted' = transmitted \cup FirstOf(k)
  /\ messages' = IF k = Len(messages) THEN <<>> ELSE messages
  /\ UNCHANGED <<sends, messageFragment, connected, connection>>

\* CURLMSG_DONE: the connection is gone, and with it what was not sent.
RunDone ==
  /\ connection
  /\ connection' = FALSE
  /\ UNCHANGED <<outVars, messageFragment, connected>>

\* The application replaces its connection by a new object.
NewConnection ==
  /\ messages' = <<>> /\ messageFragment' = <<>>
  /\ connected' = FALSE /\ connection' = TRUE
  /\ UNCHANGED <<sends, transmitted>>
=============================================================================
