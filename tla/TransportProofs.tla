--------------------------- MODULE TransportProofs ---------------------------
(***************************************************************************)
(* Proofs about Transport, for any number of messages and connections,     *)
(* whatever libcurl refuses and however messages are cut: what goes out of *)
(* a connection is a beginning of what was given to it; the pieces that    *)
(* come in keep their order and the buffer its limit; and what came in     *)
(* whole reaches its event.                                                *)
(***************************************************************************)
EXTENDS Transport, TLAPS

\* The list holds the last messages given to this connection, by number.
ListOfLast ==
  /\ sends \in Nat /\ linkStart \in Nat
  /\ messages \in Seq([n : Nat, disconnect : BOOLEAN])
  /\ Len(messages) <= sends - linkStart
  /\ \A i \in 1..Len(messages) : messages[i].n = (sends - Len(messages)) + i

\* What has left the list has been sent.
OthersSent ==
  /\ transmitted \subseteq 1..sends
  /\ \A n \in (linkStart + 1)..(sends - Len(messages)) : n \in transmitted

\* Flush may fail after any message and start again with the first: only what
\* it knows of the list shows that it never goes past a message.
SentInv == ListOfLast /\ OthersSent /\ NothingSkipped

\* The variables of SentInv.
sentVars == <<messages, sends, transmitted, linkStart>>
-----------------------------------------------------------------------------
LEMMA SentInit == Init => SentInv
  BY DEF Init, SocketInit, SentInv, ListOfLast, OthersSent, NothingSkipped

\* A message is pushed at the end, by send or terminate.
LEMMA SentPush ==
  ASSUME SentInv, NEW d \in BOOLEAN, Push(d), UNCHANGED linkStart
  PROVE  SentInv'
  <1> DEFINE m == [n |-> sends + 1, disconnect |-> d]
  <1>1. /\ messages' = Append(messages, m) /\ sends' = sends + 1
        /\ transmitted' = transmitted /\ linkStart' = linkStart
    BY DEF Push
  <1>2. /\ sends \in Nat /\ linkStart \in Nat
        /\ messages \in Seq([n : Nat, disconnect : BOOLEAN])
        /\ m \in [n : Nat, disconnect : BOOLEAN]
    BY DEF SentInv, ListOfLast
  <1>3. /\ messages' \in Seq([n : Nat, disconnect : BOOLEAN])
        /\ Len(messages') = Len(messages) + 1
        /\ \A i \in 1..Len(messages') :
             messages'[i] = IF i <= Len(messages) THEN messages[i] ELSE m
    BY <1>1, <1>2
  <1>4. ListOfLast'
    <2>1. \A i \in 1..Len(messages') :
            messages'[i].n = (sends' - Len(messages')) + i
      BY <1>1, <1>2, <1>3 DEF SentInv, ListOfLast
    <2>2. QED
      BY <1>1, <1>2, <1>3, <2>1 DEF SentInv, ListOfLast
  <1>5. OthersSent'
    BY <1>1, <1>2, <1>3 DEF SentInv, OthersSent, ListOfLast
  <1>6. NothingSkipped'
    BY <1>1 DEF SentInv, NothingSkipped
  <1>7. QED
    BY <1>4, <1>5, <1>6 DEF SentInv

\* libcurl takes the first k messages of the list, and the list stays, or is
\* emptied when that was all of it.
LEMMA SentFlush ==
  ASSUME SentInv, NEW k \in 0..Len(messages), Flush(k), UNCHANGED linkStart
  PROVE  SentInv'
  <1> DEFINE first == sends - Len(messages)
  <1>1. /\ sends' = sends /\ linkStart' = linkStart
        /\ transmitted' = transmitted \cup FirstOf(k)
        /\ messages' = IF k = Len(messages) THEN <<>> ELSE messages
    BY DEF Flush
  <1>2. /\ sends \in Nat /\ linkStart \in Nat /\ Len(messages) \in Nat
        /\ first \in Nat /\ first >= linkStart /\ k <= Len(messages)
    BY DEF SentInv, ListOfLast
  <1>3. FirstOf(k) = (first + 1)..(first + k)
    <2>1. \A i \in 1..k : messages[i].n = first + i
      BY <1>2 DEF SentInv, ListOfLast
    <2>2. FirstOf(k) = {first + i : i \in 1..k}
      BY <2>1 DEF FirstOf
    <2>3. ASSUME NEW j \in (first + 1)..(first + k)
          PROVE  \E i \in 1..k : j = first + i
      <3>1. j - first \in 1..k /\ j = first + (j - first)
        BY <1>2
      <3>2. QED
        BY <3>1
    <2>4. \A i \in 1..k : first + i \in (first + 1)..(first + k)
      BY <1>2
    <2>5. QED
      BY <2>2, <2>3, <2>4
  <1>4. ListOfLast'
    <2>1. CASE k = Len(messages)
      BY <1>1, <1>2, <2>1 DEF ListOfLast
    <2>2. CASE k # Len(messages)
      BY <1>1, <2>2 DEF SentInv, ListOfLast
    <2>3. QED
      BY <2>1, <2>2
  <1>5. OthersSent'
    <2>1. transmitted' \subseteq 1..sends
      <3>1. \A n \in (first + 1)..(first + k) : n \in 1..sends
        BY <1>2
      <3>2. QED
        BY <1>1, <1>3, <3>1 DEF SentInv, OthersSent
    <2>2. CASE k = Len(messages)
      <3>1. ASSUME NEW n \in (linkStart + 1)..sends PROVE n \in transmitted'
        <4>1. n \in (linkStart + 1)..first \/ n \in (first + 1)..(first + k)
          BY <1>2, <2>2
        <4>2. QED
          BY <1>1, <1>3, <4>1 DEF SentInv, OthersSent
      <3>2. sends' - Len(messages') = sends
        BY <1>1, <1>2, <2>2
      <3>3. QED
        BY <1>1, <2>1, <3>1, <3>2 DEF OthersSent
    <2>3. CASE k # Len(messages)
      BY <1>1, <2>1, <2>3 DEF SentInv, OthersSent
    <2>4. QED
      BY <2>2, <2>3
  <1>6. NothingSkipped'
    <2>1. SUFFICES ASSUME NEW n \in transmitted', n > linkStart,
                          NEW i \in (linkStart + 1)..n
                   PROVE  i \in transmitted'
      BY <1>1 DEF NothingSkipped
    <2>2. CASE n \in transmitted
      BY <1>1, <2>1, <2>2 DEF SentInv, NothingSkipped
    <2>3. CASE n \in (first + 1)..(first + k)
      <3>1. i \in (linkStart + 1)..first \/ i \in (first + 1)..(first + k)
        BY <1>2, <2>1, <2>3
      <3>2. QED
        BY <1>1, <1>3, <3>1 DEF SentInv, OthersSent
    <2>4. QED
      BY <1>1, <1>3, <2>1, <2>2, <2>3
  <1>7. QED
    BY <1>4, <1>5, <1>6 DEF SentInv

\* The connection is replaced: its list starts empty, and what was given to the
\* former one does not count.
LEMMA SentReplace ==
  ASSUME SentInv, ReplaceConnection
  PROVE  SentInv'
  <1>1. /\ messages' = <<>> /\ sends' = sends /\ linkStart' = sends
        /\ transmitted' = transmitted
    BY DEF ReplaceConnection, NewConnection
  <1>2. sends \in Nat /\ transmitted \subseteq 1..sends
    BY DEF SentInv, ListOfLast, OthersSent
  <1>3. QED
    BY <1>1, <1>2 DEF SentInv, ListOfLast, OthersSent, NothingSkipped

LEMMA SentUnchanged ==
  ASSUME SentInv, UNCHANGED sentVars
  PROVE  SentInv'
  BY DEF SentInv, ListOfLast, OthersSent, NothingSkipped, sentVars

LEMMA SentStep == SentInv /\ [Next]_vars => SentInv'
  <1> SUFFICES ASSUME SentInv, [Next]_vars
               PROVE  SentInv'
    OBVIOUS
  <1>1. CASE SendMessage
    <2>1. PICK d \in BOOLEAN : Push(d)
      BY <1>1 DEF SendMessage, Send, Terminate
    <2>2. QED
      BY <1>1, <2>1, SentPush DEF SendMessage, linkVars
  <1>2. CASE FlushMessages
    BY <1>2, SentFlush DEF FlushMessages, linkVars
  <1>3. CASE ReplaceConnection
    BY <1>3, SentReplace
  <1>4. CASE ReadHeader
    BY <1>4, SentUnchanged DEF ReadHeader, WriteHeader, outVars, linkVars, sentVars
  <1>5. CASE EndConnection
    BY <1>5, SentUnchanged DEF EndConnection, RunDone, outVars, sentVars
  <1>6. CASE ServerSends
    BY <1>6, SentUnchanged DEF ServerSends, socketVars, outVars, sentVars
  <1>7. CASE WriteResponse
    BY <1>7, SentUnchanged DEF WriteResponse, outVars, sentVars
  <1>8. CASE UNCHANGED vars
    BY <1>8, SentUnchanged DEF vars, socketVars, outVars, linkVars, sentVars
  <1>9. QED
    BY <1>1, <1>2, <1>3, <1>4, <1>5, <1>6, <1>7, <1>8 DEF Next

\* No message of a connection goes out before all that were given to it earlier
\* have: for any number of messages, failed flushes and connections
\* (websocket_network/websocket.cpp:171-208).
THEOREM OrderKept == Spec => []NothingSkipped
  <1>1. SentInv => NothingSkipped
    BY DEF SentInv
  <1>2. QED
    BY SentInit, SentStep, <1>1, PTL DEF Spec
-----------------------------------------------------------------------------
(* What comes in.  All pieces, those heard, those of the frame that is being *)
(* received and those on the wire, make one sequence: receiving moves its    *)
(* parts, the server appends to it, and a lost connection cuts its end off.  *)

\* Pieces heard, then those of a frame that is not complete, then the wire.
StreamOf(h, f, w) ==
  [i \in 1..(Len(h) + Len(f) + Len(w)) |->
     IF i <= Len(h) THEN h[i].piece
     ELSE IF i <= Len(h) + Len(f) THEN f[i - Len(h)]
     ELSE w[i - Len(h) - Len(f)].piece]

Stream == StreamOf(heard, messageFragment, wire)

Heard == [piece : Pieces, last : BOOLEAN]
OnWire == [piece : Pieces, bytesleft : BOOLEAN]

\* The stream is as long as its parts, and each of them is found in it.
LEMMA StreamParts ==
  ASSUME NEW h \in Seq(Heard), NEW f \in Seq(Pieces), NEW w \in Seq(OnWire)
  PROVE  /\ StreamOf(h, f, w) \in Seq(Pieces)
         /\ Len(StreamOf(h, f, w)) = Len(h) + Len(f) + Len(w)
         /\ \A i \in 1..Len(h) : StreamOf(h, f, w)[i] = h[i].piece
         /\ \A i \in 1..Len(f) : StreamOf(h, f, w)[Len(h) + i] = f[i]
         /\ \A i \in 1..Len(w) :
              StreamOf(h, f, w)[Len(h) + Len(f) + i] = w[i].piece
  <1> DEFINE n == Len(h) + Len(f) + Len(w)
  <1>1. /\ Len(h) \in Nat /\ Len(f) \in Nat /\ Len(w) \in Nat
        /\ \A i \in 1..Len(h) : h[i].piece \in Pieces
        /\ \A i \in 1..Len(f) : f[i] \in Pieces
        /\ \A i \in 1..Len(w) : w[i].piece \in Pieces
    <2>1. \A i \in 1..Len(h) : h[i] \in Heard
      OBVIOUS
    <2>2. \A i \in 1..Len(w) : w[i] \in OnWire
      OBVIOUS
    <2>3. QED
      BY <2>1, <2>2 DEF Heard, OnWire
  <1>2. \A i \in 1..n : StreamOf(h, f, w)[i] \in Pieces
    <2> SUFFICES ASSUME NEW i \in 1..n PROVE StreamOf(h, f, w)[i] \in Pieces
      OBVIOUS
    <2>1. CASE i <= Len(h)
      BY <1>1, <2>1 DEF StreamOf
    <2>2. CASE Len(h) < i /\ i <= Len(h) + Len(f)
      <3>1. i - Len(h) \in 1..Len(f)
        BY <1>1, <2>2
      <3>2. QED
        BY <1>1, <2>2, <3>1 DEF StreamOf
    <2>3. CASE Len(h) + Len(f) < i
      <3>1. i - Len(h) - Len(f) \in 1..Len(w)
        BY <1>1, <2>3
      <3>2. QED
        BY <1>1, <2>3, <3>1 DEF StreamOf
    <2>4. QED
      BY <1>1, <2>1, <2>2, <2>3
  <1>3. StreamOf(h, f, w) \in Seq(Pieces) /\ Len(StreamOf(h, f, w)) = n
    <2>1. StreamOf(h, f, w) = [i \in 1..n |-> StreamOf(h, f, w)[i]]
      BY DEF StreamOf
    <2>2. n \in Nat
      BY <1>1
    <2>3. QED
      BY <1>2, <2>1, <2>2
  <1>4. \A i \in 1..Len(h) : StreamOf(h, f, w)[i] = h[i].piece
    BY <1>1 DEF StreamOf
  <1>5. \A i \in 1..Len(f) : StreamOf(h, f, w)[Len(h) + i] = f[i]
    <2> SUFFICES ASSUME NEW i \in 1..Len(f)
                 PROVE  StreamOf(h, f, w)[Len(h) + i] = f[i]
      OBVIOUS
    <2>1. /\ Len(h) + i \in 1..n /\ ~(Len(h) + i <= Len(h))
          /\ Len(h) + i <= Len(h) + Len(f) /\ (Len(h) + i) - Len(h) = i
      BY <1>1
    <2>2. QED
      BY <2>1 DEF StreamOf
  <1>6. \A i \in 1..Len(w) : StreamOf(h, f, w)[Len(h) + Len(f) + i] = w[i].piece
    <2> SUFFICES ASSUME NEW i \in 1..Len(w)
                 PROVE  StreamOf(h, f, w)[Len(h) + Len(f) + i] = w[i].piece
      OBVIOUS
    <2>1. /\ Len(h) + Len(f) + i \in 1..n
          /\ ~(Len(h) + Len(f) + i <= Len(h))
          /\ ~(Len(h) + Len(f) + i <= Len(h) + Len(f))
          /\ (Len(h) + Len(f) + i) - Len(h) - Len(f) = i
      BY <1>1
    <2>2. QED
      BY <2>1 DEF StreamOf
  <1>7. QED
    BY <1>3, <1>4, <1>5, <1>6

\* Two sequences are the same when they agree everywhere.
LEMMA SameSeq ==
  ASSUME NEW S, NEW s \in Seq(S), NEW t \in Seq(S), Len(s) = Len(t),
         \A i \in 1..Len(s) : s[i] = t[i]
  PROVE  s = t
  <1>1. s = [i \in 1..Len(s) |-> s[i]] /\ t = [i \in 1..Len(t) |-> t[i]]
    OBVIOUS
  <1>2. QED
    BY <1>1

\* The sequence ReceiveMessage is given, and what has been heard with it.
FrameOf(f, w) == Append(f, Head(w).piece)
HeardWith(h, b) ==
  h \o [k \in 1..Len(b) |-> [piece |-> b[k], last |-> k = Len(b)]]

LEMMA HeardFrame ==
  ASSUME NEW h \in Seq(Heard), NEW b \in Seq(Pieces)
  PROVE  /\ HeardWith(h, b) \in Seq(Heard)
         /\ Len(HeardWith(h, b)) = Len(h) + Len(b)
         /\ \A i \in 1..Len(h) : HeardWith(h, b)[i] = h[i]
         /\ \A k \in 1..Len(b) :
              /\ HeardWith(h, b)[Len(h) + k].piece = b[k]
              /\ HeardWith(h, b)[Len(h) + k].last <=> k = Len(b)
  <1> DEFINE new == [k \in 1..Len(b) |-> [piece |-> b[k], last |-> k = Len(b)]]
  <1>1. \A k \in 1..Len(b) : [piece |-> b[k], last |-> k = Len(b)] \in Heard
    <2> SUFFICES ASSUME NEW k \in 1..Len(b), NEW z \in BOOLEAN
                 PROVE  [piece |-> b[k], last |-> z] \in Heard
      OBVIOUS
    <2>1. b[k] \in Pieces
      OBVIOUS
    <2>2. QED
      BY <2>1 DEF Heard
  <1>2. new \in Seq(Heard) /\ Len(new) = Len(b)
    BY <1>1
  <1>3. \A k \in 1..Len(b) : new[k].piece = b[k] /\ (new[k].last <=> k = Len(b))
    <2> SUFFICES ASSUME NEW k \in 1..Len(b)
                 PROVE  new[k].piece = b[k] /\ (new[k].last <=> k = Len(b))
      OBVIOUS
    <2>1. new[k] = [piece |-> b[k], last |-> k = Len(b)]
      OBVIOUS
    <2>2. ASSUME NEW z
          PROVE  [piece |-> b[k], last |-> z].piece = b[k]
                 /\ [piece |-> b[k], last |-> z].last = z
      OBVIOUS
    <2> HIDE DEF new
    <2>3. QED
      BY <2>1, <2>2, Zenon
  <1> HIDE DEF new
  <1>4. /\ h \o new \in Seq(Heard) /\ Len(h \o new) = Len(h) + Len(new)
        /\ \A i \in 1..Len(h) : (h \o new)[i] = h[i]
        /\ \A k \in 1..Len(new) : (h \o new)[Len(h) + k] = new[k]
    BY <1>2
  <1>5. HeardWith(h, b) = h \o new
    BY DEF HeardWith, new
  <1>6. QED
    BY <1>2, <1>3, <1>4, <1>5

\* A piece that is received, or the frame it completes, moves along the stream.
LEMMA StreamReceive ==
  ASSUME NEW h \in Seq(Heard), NEW f \in Seq(Pieces), NEW w \in Seq(OnWire),
         w # <<>>
  PROVE  /\ FrameOf(f, w) \in Seq(Pieces) /\ Len(FrameOf(f, w)) = Len(f) + 1
         /\ \A k \in 1..Len(f) : FrameOf(f, w)[k] = f[k]
         /\ FrameOf(f, w)[Len(f) + 1] = w[1].piece
         /\ StreamOf(h, FrameOf(f, w), Tail(w)) = StreamOf(h, f, w)
         /\ StreamOf(HeardWith(h, FrameOf(f, w)), <<>>, Tail(w))
              = StreamOf(h, f, w)
  <1> DEFINE b == FrameOf(f, w)
             t == Tail(w)
             g == HeardWith(h, b)
             s == StreamOf(h, f, w)
  <1>1. /\ w[1] \in OnWire /\ t \in Seq(OnWire) /\ Len(t) = Len(w) - 1
        /\ \A i \in 1..Len(t) : t[i] = w[i + 1]
        /\ Len(h) \in Nat /\ Len(f) \in Nat /\ Len(w) \in Nat /\ Len(w) > 0
    OBVIOUS
  <1>2. w[1].piece \in Pieces
    BY <1>1 DEF OnWire
  <1>3. /\ b \in Seq(Pieces) /\ Len(b) = Len(f) + 1
        /\ \A k \in 1..Len(f) : b[k] = f[k]
        /\ b[Len(f) + 1] = w[1].piece
    BY <1>1, <1>2 DEF FrameOf
  <1>4. /\ g \in Seq(Heard) /\ Len(g) = Len(h) + Len(b)
        /\ \A i \in 1..Len(h) : g[i].piece = h[i].piece
        /\ \A k \in 1..Len(b) : g[Len(h) + k].piece = b[k]
    <2> HIDE DEF b
    <2>1. /\ g \in Seq(Heard) /\ Len(g) = Len(h) + Len(b)
          /\ \A i \in 1..Len(h) : g[i] = h[i]
          /\ \A k \in 1..Len(b) : g[Len(h) + k].piece = b[k]
      <3>1. ASSUME NEW c \in Seq(Pieces)
            PROVE  /\ HeardWith(h, c) \in Seq(Heard)
                   /\ Len(HeardWith(h, c)) = Len(h) + Len(c)
                   /\ \A i \in 1..Len(h) : HeardWith(h, c)[i] = h[i]
                   /\ \A k \in 1..Len(c) : HeardWith(h, c)[Len(h) + k].piece = c[k]
        BY HeardFrame, ZenonT(30)
      <3>2. QED
        BY <1>3, <3>1
    <2> HIDE DEF g
    <2>2. QED
      BY <2>1
  <1>5. PICK e \in Seq(Pieces) : e = <<>> /\ Len(e) = 0
    <2>1. <<>> \in Seq(Pieces) /\ Len(<<>>) = 0
      OBVIOUS
    <2>2. QED
      BY <2>1
  <1>6. /\ s \in Seq(Pieces) /\ Len(s) = Len(h) + Len(f) + Len(w)
        /\ \A i \in 1..Len(h) : s[i] = h[i].piece
        /\ \A i \in 1..Len(f) : s[Len(h) + i] = f[i]
        /\ \A i \in 1..Len(w) : s[Len(h) + Len(f) + i] = w[i].piece
    BY StreamParts
  <1>7. /\ \A i \in 1..Len(b) : s[Len(h) + i] = b[i]
        /\ \A i \in 1..Len(t) : s[Len(h) + Len(b) + i] = t[i].piece
    <2>1. ASSUME NEW i \in 1..Len(b) PROVE s[Len(h) + i] = b[i]
      <3>1. CASE i \in 1..Len(f)
        BY <1>3, <1>6, <3>1
      <3>2. CASE i = Len(f) + 1
        <4>1. 1 \in 1..Len(w) /\ Len(h) + i = Len(h) + Len(f) + 1
          BY <1>1, <3>2
        <4>2. QED
          BY <1>3, <1>6, <3>2, <4>1
      <3>3. QED
        BY <1>1, <1>3, <3>1, <3>2
    <2>2. ASSUME NEW i \in 1..Len(t) PROVE s[Len(h) + Len(b) + i] = t[i].piece
      <3>1. /\ i + 1 \in 1..Len(w)
            /\ Len(h) + Len(b) + i = Len(h) + Len(f) + (i + 1)
        BY <1>1, <1>3
      <3>2. QED
        BY <1>1, <1>6, <3>1
    <2>3. QED
      BY <2>1, <2>2
  <1> HIDE DEF b, t, g, s
  <1>8. StreamOf(h, b, t) = s
    <2> DEFINE u == StreamOf(h, b, t)
    <2>1. /\ u \in Seq(Pieces) /\ Len(u) = Len(h) + Len(b) + Len(t)
          /\ \A i \in 1..Len(h) : u[i] = h[i].piece
          /\ \A i \in 1..Len(b) : u[Len(h) + i] = b[i]
          /\ \A i \in 1..Len(t) : u[Len(h) + Len(b) + i] = t[i].piece
      BY <1>1, <1>3, StreamParts, ZenonT(30)
    <2> HIDE DEF u
    <2>2. ASSUME NEW i \in 1..Len(u) PROVE u[i] = s[i]
      <3>1. CASE i <= Len(h)
        BY <1>1, <1>6, <2>1, <3>1
      <3>2. CASE Len(h) < i /\ i <= Len(h) + Len(b)
        <4>1. i - Len(h) \in 1..Len(b) /\ Len(h) + (i - Len(h)) = i
          BY <1>1, <1>3, <2>1, <3>2
        <4>2. u[Len(h) + (i - Len(h))] = b[i - Len(h)]
              /\ s[Len(h) + (i - Len(h))] = b[i - Len(h)]
          BY <1>7, <2>1, <4>1
        <4>3. QED
          BY <4>1, <4>2
      <3>3. CASE Len(h) + Len(b) < i
        <4> DEFINE j == i - Len(h) - Len(b)
        <4>1. j \in 1..Len(t) /\ Len(h) + Len(b) + j = i
          BY <1>1, <1>3, <2>1, <3>3
        <4>2. u[Len(h) + Len(b) + j] = t[j].piece
              /\ s[Len(h) + Len(b) + j] = t[j].piece
          BY <1>7, <2>1, <4>1
        <4>3. QED
          BY <4>1, <4>2
      <3>4. QED
        BY <1>1, <1>3, <2>1, <3>1, <3>2, <3>3
    <2>3. Len(u) = Len(s)
      BY <1>1, <1>3, <1>6, <2>1
    <2>4. QED
      BY <1>6, <2>1, <2>2, <2>3, SameSeq DEF u
  <1>9. StreamOf(g, <<>>, t) = s
    <2> DEFINE u == StreamOf(g, e, t)
    <2>1. /\ u \in Seq(Pieces) /\ Len(u) = Len(g) + Len(e) + Len(t)
          /\ \A i \in 1..Len(g) : u[i] = g[i].piece
          /\ \A i \in 1..Len(t) : u[Len(g) + Len(e) + i] = t[i].piece
      BY <1>1, <1>4, StreamParts
    <2> HIDE DEF u
    <2>2. ASSUME NEW i \in 1..Len(u) PROVE u[i] = s[i]
      <3>1. CASE i <= Len(h)
        BY <1>1, <1>3, <1>4, <1>6, <2>1, <3>1
      <3>2. CASE Len(h) < i /\ i <= Len(h) + Len(b)
        <4>1. i - Len(h) \in 1..Len(b) /\ Len(h) + (i - Len(h)) = i
              /\ i \in 1..Len(g)
          BY <1>1, <1>3, <1>4, <1>5, <2>1, <3>2
        <4>2. g[Len(h) + (i - Len(h))].piece = b[i - Len(h)]
              /\ s[Len(h) + (i - Len(h))] = b[i - Len(h)]
          BY <1>4, <1>7, <4>1
        <4>3. QED
          BY <2>1, <4>1, <4>2
      <3>3. CASE Len(h) + Len(b) < i
        <4> DEFINE j == i - Len(h) - Len(b)
        <4>1. /\ j \in 1..Len(t) /\ Len(h) + Len(b) + j = i
              /\ Len(g) + Len(e) + j = i
          BY <1>1, <1>3, <1>4, <1>5, <2>1, <3>3
        <4>2. u[Len(g) + Len(e) + j] = t[j].piece
              /\ s[Len(h) + Len(b) + j] = t[j].piece
          BY <1>7, <2>1, <4>1
        <4>3. QED
          BY <4>1, <4>2
      <3>4. QED
        BY <1>1, <1>3, <1>4, <1>5, <2>1, <3>1, <3>2, <3>3
    <2>3. Len(u) = Len(s)
      BY <1>1, <1>3, <1>4, <1>5, <1>6, <2>1
    <2>4. QED
      BY <1>5, <1>6, <2>1, <2>2, <2>3, SameSeq DEF u
  <1>10. QED
    BY <1>3, <1>8, <1>9 DEF b, t, g, s

\* u is a beginning of s.
Beginning(u, s) == Len(u) <= Len(s) /\ \A i \in 1..Len(u) : u[i] = s[i]

\* A connection that ends takes what is on the wire with it, and its
\* replacement the frame that was not complete.
LEMMA StreamCut ==
  ASSUME NEW h \in Seq(Heard), NEW f \in Seq(Pieces), NEW w \in Seq(OnWire),
         NEW f2 \in Seq(Pieces), f2 = f \/ f2 = <<>>,
         NEW w2 \in Seq(OnWire), w2 = <<>>
  PROVE  Beginning(StreamOf(h, f2, w2), StreamOf(h, f, w))
  <1> DEFINE s == StreamOf(h, f, w)
             u == StreamOf(h, f2, w2)
  <1>1. /\ Len(s) = Len(h) + Len(f) + Len(w)
        /\ \A i \in 1..Len(h) : s[i] = h[i].piece
        /\ \A i \in 1..Len(f) : s[Len(h) + i] = f[i]
    BY StreamParts
  <1>2. /\ Len(u) = Len(h) + Len(f2) + Len(w2)
        /\ \A i \in 1..Len(h) : u[i] = h[i].piece
        /\ \A i \in 1..Len(f2) : u[Len(h) + i] = f2[i]
    BY StreamParts
  <1>3. /\ Len(h) \in Nat /\ Len(f) \in Nat /\ Len(w) \in Nat
        /\ Len(f2) \in Nat /\ Len(w2) = 0
        /\ Len(f2) = 0 \/ (Len(f2) = Len(f) /\ f2 = f)
    OBVIOUS
  <1> HIDE DEF s, u
  <1>4. Len(u) <= Len(s)
    BY <1>1, <1>2, <1>3
  <1>5. ASSUME NEW i \in 1..Len(u) PROVE u[i] = s[i]
    <2>1. CASE i <= Len(h)
      BY <1>1, <1>2, <1>3, <2>1
    <2>2. CASE Len(h) < i
      <3>1. i - Len(h) \in 1..Len(f2) /\ Len(h) + (i - Len(h)) = i
        BY <1>2, <1>3, <2>2
      <3>2. f2 = f
        BY <1>3, <3>1
      <3>3. u[Len(h) + (i - Len(h))] = s[Len(h) + (i - Len(h))]
        BY <1>1, <1>2, <3>1, <3>2
      <3>4. QED
        BY <3>1, <3>3
    <2>3. QED
      BY <1>2, <1>3, <2>1, <2>2
  <1>6. QED
    BY <1>4, <1>5 DEF s, u, Beginning

\* What the server sends comes behind everything else.
LEMMA StreamAppend ==
  ASSUME NEW h \in Seq(Heard), NEW f \in Seq(Pieces), NEW w \in Seq(OnWire),
         NEW x \in Seq(OnWire)
  PROVE  LET s == StreamOf(h, f, w)
             u == StreamOf(h, f, w \o x)
         IN  /\ Len(u) = Len(s) + Len(x)
             /\ \A i \in 1..Len(s) : u[i] = s[i]
             /\ \A i \in (Len(s) + 1)..Len(u) : u[i] = x[i - Len(s)].piece
  <1> DEFINE s == StreamOf(h, f, w)
             y == w \o x
             u == StreamOf(h, f, y)
  <1>1. /\ y \in Seq(OnWire) /\ Len(y) = Len(w) + Len(x)
        /\ \A i \in 1..Len(w) : y[i] = w[i]
        /\ \A k \in 1..Len(x) : y[Len(w) + k] = x[k]
        /\ Len(h) \in Nat /\ Len(f) \in Nat /\ Len(w) \in Nat /\ Len(x) \in Nat
    OBVIOUS
  <1> HIDE DEF y
  <1>2. /\ Len(s) = Len(h) + Len(f) + Len(w)
        /\ \A i \in 1..Len(h) : s[i] = h[i].piece
        /\ \A i \in 1..Len(f) : s[Len(h) + i] = f[i]
        /\ \A i \in 1..Len(w) : s[Len(h) + Len(f) + i] = w[i].piece
    BY StreamParts
  <1>3. /\ Len(u) = Len(h) + Len(f) + Len(y)
        /\ \A i \in 1..Len(h) : u[i] = h[i].piece
        /\ \A i \in 1..Len(f) : u[Len(h) + i] = f[i]
        /\ \A i \in 1..Len(y) : u[Len(h) + Len(f) + i] = y[i].piece
    BY <1>1, StreamParts
  <1> HIDE DEF s, u
  <1>4. Len(u) = Len(s) + Len(x)
    BY <1>1, <1>2, <1>3
  <1>5. ASSUME NEW i \in 1..Len(s) PROVE u[i] = s[i]
    <2>1. CASE i <= Len(h)
      BY <1>1, <1>2, <1>3, <2>1
    <2>2. CASE Len(h) < i /\ i <= Len(h) + Len(f)
      <3>1. i - Len(h) \in 1..Len(f) /\ Len(h) + (i - Len(h)) = i
        BY <1>1, <1>2, <2>2
      <3>2. u[Len(h) + (i - Len(h))] = s[Len(h) + (i - Len(h))]
        BY <1>2, <1>3, <3>1
      <3>3. QED
        BY <3>1, <3>2
    <2>3. CASE Len(h) + Len(f) < i
      <3> DEFINE j == i - Len(h) - Len(f)
      <3>1. /\ j \in 1..Len(w) /\ j \in 1..Len(y)
            /\ Len(h) + Len(f) + j = i
        BY <1>1, <1>2, <2>3
      <3> HIDE DEF j
      <3>2. /\ u[Len(h) + Len(f) + j] = y[j].piece /\ y[j] = w[j]
            /\ s[Len(h) + Len(f) + j] = w[j].piece
        BY <1>1, <1>2, <1>3, <3>1
      <3>3. QED
        BY <3>1, <3>2
    <2>4. QED
      BY <1>1, <1>2, <2>1, <2>2, <2>3
  <1>6. ASSUME NEW i \in (Len(s) + 1)..Len(u) PROVE u[i] = x[i - Len(s)].piece
    <2> DEFINE k == i - Len(s)
    <2>0. k \in 1..Len(x) /\ Len(s) + k = i
      BY <1>1, <1>2, <1>4
    <2> HIDE DEF k
    <2>1. /\ Len(w) + k \in 1..Len(y)
          /\ Len(h) + Len(f) + (Len(w) + k) = i
      BY <1>1, <1>2, <2>0
    <2>2. u[Len(h) + Len(f) + (Len(w) + k)] = y[Len(w) + k].piece
      BY <1>3, <2>1
    <2>3. y[Len(w) + k] = x[k]
      BY <1>1, <2>0
    <2>4. QED
      BY <2>1, <2>2, <2>3 DEF k
  <1>7. QED
    BY <1>4, <1>5, <1>6 DEF s, u, y

-----------------------------------------------------------------------------
(* The order of the stream.                                                  *)

\* Piece b comes after piece a: of a later message, or later in the same.
Later(a, b) ==
  \/ a.msg < b.msg
  \/ a.msg = b.msg /\ a.of = b.of /\ a.part < b.part

Ordered(s, n) ==
  /\ \A i, j \in 1..Len(s) : i < j => Later(s[i], s[j])
  /\ \A i \in 1..Len(s) : s[i].msg <= n /\ s[i].part <= s[i].of

\* Behind the first k pieces, the rest of each message follows it.
Consecutive(s, k) ==
  \A i \in (k + 1)..(Len(s) - 1) :
    s[i].part # s[i].of => s[i + 1] = Piece(s[i].msg, s[i].part + 1, s[i].of)

EndsMessage(p) == p.part = p.of

\* A message's last piece ends a frame, and what was heard ended one.
Framed ==
  /\ \A i \in 1..Len(wire) : wire[i].bytesleft => ~EndsMessage(wire[i].piece)
  /\ \A i \in 1..Len(messageFragment) : ~EndsMessage(messageFragment[i])
  /\ \A i \in 1..Len(heard) : ~heard[i].last => ~EndsMessage(heard[i].piece)
  /\ heard # <<>> => heard[Len(heard)].last

\* While there is a connection, the server has sent whole messages.
WholeSent ==
  connection /\ Len(Stream) > Len(heard) => EndsMessage(Stream[Len(Stream)])

StreamInv ==
  /\ Ordered(Stream, incoming) /\ Consecutive(Stream, Len(heard))
  /\ Framed /\ WholeSent

\* What the stream is made of.
StreamTyped ==
  /\ heard \in Seq(Heard) /\ messageFragment \in Seq(Pieces)
  /\ wire \in Seq(OnWire) /\ incoming \in 0..MaxIncoming
  /\ connection \in BOOLEAN

streamVars == <<heard, messageFragment, wire, incoming, connection>>

\* A sequence behind another.
LEMMA ConcatFacts ==
  ASSUME NEW S, NEW s \in Seq(S), NEW t \in Seq(S)
  PROVE  /\ s \o t \in Seq(S) /\ Len(s) \in Nat /\ Len(t) \in Nat
         /\ Len(s \o t) = Len(s) + Len(t)
         /\ \A i \in 1..Len(s) : (s \o t)[i] = s[i]
         /\ \A k \in 1..Len(t) : (s \o t)[Len(s) + k] = t[k]
  OBVIOUS

\* A piece has a message, a number and a count.
LEMMA PieceFacts ==
  \A p \in Pieces : /\ p.msg \in Nat /\ p.part \in Nat /\ p.of \in Nat
                    /\ p = Piece(p.msg, p.part, p.of)
  BY BoundsAssumption DEF Pieces, Piece, BoundsAssumption

\* The stream of the state, and where its parts are.
LEMMA StreamFacts ==
  ASSUME StreamTyped
  PROVE  /\ Stream \in Seq(Pieces) /\ Len(Stream) \in Nat
         /\ Len(heard) \in Nat /\ Len(messageFragment) \in Nat
         /\ Len(wire) \in Nat /\ incoming \in Nat
         /\ Len(Stream) = Len(heard) + Len(messageFragment) + Len(wire)
         /\ \A i \in 1..Len(Stream) :
              /\ Stream[i].msg \in Nat /\ Stream[i].part \in Nat
              /\ Stream[i].of \in Nat
              /\ Stream[i] = Piece(Stream[i].msg, Stream[i].part, Stream[i].of)
         /\ \A i \in 1..Len(heard) : Stream[i] = heard[i].piece
         /\ \A i \in 1..Len(messageFragment) :
              Stream[Len(heard) + i] = messageFragment[i]
  <1>1. /\ Stream \in Seq(Pieces)
        /\ Len(Stream) = Len(heard) + Len(messageFragment) + Len(wire)
        /\ \A i \in 1..Len(heard) : Stream[i] = heard[i].piece
        /\ \A i \in 1..Len(messageFragment) :
             Stream[Len(heard) + i] = messageFragment[i]
    BY StreamParts DEF StreamTyped, Stream
  <1>2. \A i \in 1..Len(Stream) : Stream[i] \in Pieces
    BY <1>1
  <1>3. QED
    BY <1>1, <1>2, PieceFacts, BoundsAssumption DEF StreamTyped, BoundsAssumption

LEMMA StreamUnchanged ==
  ASSUME StreamTyped, StreamInv, UNCHANGED streamVars
  PROVE  StreamTyped' /\ StreamInv'
  BY DEF streamVars, StreamTyped, StreamInv, Stream, Framed, WholeSent

\* A whole message of a new number behind an ordered stream.
LEMMA OrderedExtend ==
  ASSUME NEW s \in Seq(Pieces), NEW u \in Seq(Pieces), NEW n \in Nat,
         NEW c \in Nat \ {0}, NEW k \in 0..Len(s),
         Len(u) = Len(s) + c,
         \A i \in 1..Len(s) : u[i] = s[i],
         \A i \in (Len(s) + 1)..Len(u) : u[i] = Piece(n + 1, i - Len(s), c),
         Ordered(s, n), Consecutive(s, k),
         Len(s) > k => EndsMessage(s[Len(s)])
  PROVE  Ordered(u, n + 1) /\ Consecutive(u, k) /\ EndsMessage(u[Len(u)])
  <1>0. /\ Len(s) \in Nat /\ Len(u) \in Nat
        /\ \A i \in (Len(s) + 1)..Len(u) :
             u[i].msg = n + 1 /\ u[i].part = i - Len(s) /\ u[i].of = c
        /\ \A i \in 1..Len(s) : s[i].msg \in Nat
    <2>1. \A i \in 1..Len(s) : s[i] \in Pieces
      OBVIOUS
    <2>2. \A i \in 1..Len(s) : s[i].msg \in Nat
      BY <2>1, PieceFacts
    <2>3. \A i : /\ Piece(n + 1, i - Len(s), c).msg = n + 1
                /\ Piece(n + 1, i - Len(s), c).part = i - Len(s)
                /\ Piece(n + 1, i - Len(s), c).of = c
      BY DEF Piece
    <2>4. Len(s) \in Nat /\ Len(u) \in Nat
      OBVIOUS
    <2>5. QED
      BY <2>2, <2>3, <2>4
  <1>1. ASSUME NEW i \in 1..Len(u), NEW j \in 1..Len(u), i < j
        PROVE  Later(u[i], u[j])
    <2>1. CASE j <= Len(s)
      <3>1. i \in 1..Len(s) /\ j \in 1..Len(s)
        BY <1>0, <1>1, <2>1
      <3>2. QED
        BY <1>1, <3>1 DEF Ordered
    <2>2. CASE ~(j <= Len(s)) /\ i <= Len(s)
      <3>1. i \in 1..Len(s) /\ j \in (Len(s) + 1)..Len(u)
        BY <1>0, <2>2
      <3>2. u[i].msg <= n /\ u[i].msg \in Nat /\ u[j].msg = n + 1
        BY <1>0, <3>1 DEF Ordered
      <3>3. QED
        BY <3>2 DEF Later
    <2>3. CASE ~(j <= Len(s)) /\ ~(i <= Len(s))
      <3>1. i \in (Len(s) + 1)..Len(u) /\ j \in (Len(s) + 1)..Len(u)
        BY <1>0, <2>3
      <3>2. i - Len(s) < j - Len(s)
        BY <1>0, <1>1, <3>1
      <3>3. QED
        BY <1>0, <3>1, <3>2 DEF Later
    <2>4. QED
      BY <2>1, <2>2, <2>3
  <1>2. ASSUME NEW i \in 1..Len(u)
        PROVE  u[i].msg <= n + 1 /\ u[i].part <= u[i].of
    <2>1. CASE i <= Len(s)
      <3>1. i \in 1..Len(s)
        BY <1>0, <2>1
      <3>2. QED
        BY <1>0, <3>1 DEF Ordered
    <2>2. CASE ~(i <= Len(s))
      <3>1. i \in (Len(s) + 1)..Len(u)
        BY <1>0, <2>2
      <3>2. QED
        BY <1>0, <3>1
    <2>3. QED
      BY <2>1, <2>2
  <1>3. ASSUME NEW i \in (k + 1)..(Len(u) - 1), u[i].part # u[i].of
        PROVE  u[i + 1] = Piece(u[i].msg, u[i].part + 1, u[i].of)
    <2>1. CASE i < Len(s)
      <3>1. /\ i \in (k + 1)..(Len(s) - 1) /\ i \in 1..Len(s)
            /\ i + 1 \in 1..Len(s)
        BY <1>0, <2>1
      <3>2. QED
        BY <1>3, <3>1 DEF Consecutive
    <2>2. CASE i = Len(s)
      <3>1. i \in 1..Len(s) /\ Len(s) > k
        BY <1>0, <2>2
      <3>2. QED
        BY <1>3, <2>2, <3>1 DEF EndsMessage
    <2>3. CASE i > Len(s)
      <3>1. /\ i \in (Len(s) + 1)..Len(u) /\ i + 1 \in (Len(s) + 1)..Len(u)
            /\ (i + 1) - Len(s) = (i - Len(s)) + 1
        BY <1>0, <2>3, SMTT(30)
      <3>2. u[i + 1] = Piece(n + 1, (i - Len(s)) + 1, c)
        BY <3>1
      <3>3. QED
        BY <1>0, <3>1, <3>2
    <2>4. QED
      BY <1>0, <2>1, <2>2, <2>3
  <1>4. EndsMessage(u[Len(u)])
    <2>1. Len(u) \in (Len(s) + 1)..Len(u) /\ Len(u) - Len(s) = c
      BY <1>0
    <2>2. QED
      BY <1>0, <2>1 DEF EndsMessage
  <1>5. QED
    BY <1>1, <1>2, <1>3, <1>4 DEF Ordered, Consecutive

\* What the server sends is a whole message of a number not used before.
LEMMA StreamSends ==
  ASSUME StreamTyped, StreamInv, ServerSends
  PROVE  StreamTyped' /\ StreamInv'
  <1>1. PICK c \in 1..MaxPieces : \E ends \in SUBSET (1..(c - 1)) :
          wire' = wire \o [k \in 1..c |->
                    [piece |-> Piece(incoming + 1, k, c),
                     bytesleft |-> k \notin ends \cup {c}]]
    BY DEF ServerSends
  <1>2. /\ connection /\ incoming' = incoming + 1 /\ incoming + 1 \in 1..MaxIncoming
        /\ UNCHANGED <<heard, messageFragment, connection>>
        /\ c \in Nat \ {0} /\ incoming \in Nat
    BY BoundsAssumption
    DEF ServerSends, StreamTyped, BoundsAssumption, socketVars
  <1>3. PICK x \in Seq(OnWire) :
          /\ Len(x) = c /\ wire' = wire \o x
          /\ \A k \in 1..c : x[k].piece = Piece(incoming + 1, k, c)
          /\ \A k \in 1..c : x[k].bytesleft => k # c
    <2>1. PICK ends \in SUBSET (1..(c - 1)) :
            wire' = wire \o [k \in 1..c |->
                      [piece |-> Piece(incoming + 1, k, c),
                       bytesleft |-> k \notin ends \cup {c}]]
      BY <1>1
    <2> DEFINE x == [k \in 1..c |-> [piece |-> Piece(incoming + 1, k, c),
                                    bytesleft |-> k \notin ends \cup {c}]]
    <2>2. ASSUME NEW k \in 1..c
          PROVE  /\ x[k] \in OnWire /\ x[k].piece = Piece(incoming + 1, k, c)
                 /\ x[k].bytesleft => k # c
      <3>1. Piece(incoming + 1, k, c) \in Pieces
        BY <1>2, BoundsAssumption DEF Piece, Pieces, BoundsAssumption
      <3>2. ASSUME NEW z \in BOOLEAN, NEW q \in Pieces
            PROVE  /\ [piece |-> q, bytesleft |-> z] \in OnWire
                   /\ [piece |-> q, bytesleft |-> z].piece = q
                   /\ [piece |-> q, bytesleft |-> z].bytesleft = z
        BY DEF OnWire
      <3>3. PICK z \in BOOLEAN : z = (k \notin ends \cup {c})
        OBVIOUS
      <3>4. x[k] = [piece |-> Piece(incoming + 1, k, c), bytesleft |-> z]
        BY <3>3, Zenon
      <3>5. z => k # c
        BY <3>3
      <3> HIDE DEF x
      <3>6. QED
        BY <3>1, <3>2, <3>4, <3>5
    <2>3. x = [k \in 1..c |-> x[k]]
      OBVIOUS
    <2>4. wire' = wire \o x
      BY <2>1
    <2> HIDE DEF x
    <2>5. x \in Seq(OnWire) /\ Len(x) = c
      BY <1>2, <2>2, <2>3
    <2>6. QED
      BY <2>2, <2>4, <2>5
  <1>4. StreamTyped'
    <2>1. wire' \in Seq(OnWire)
      BY <1>3 DEF StreamTyped
    <2>2. QED
      BY <1>2, <2>1, BoundsAssumption DEF StreamTyped, BoundsAssumption
  <1> DEFINE s == Stream
             u == Stream'
  <1>5. /\ Len(u) = Len(s) + c
        /\ \A i \in 1..Len(s) : u[i] = s[i]
        /\ \A i \in (Len(s) + 1)..Len(u) : u[i] = x[i - Len(s)].piece
    <2>1. u = StreamOf(heard, messageFragment, wire \o x)
      BY <1>2, <1>3 DEF Stream
    <2>2. /\ heard \in Seq(Heard) /\ messageFragment \in Seq(Pieces)
          /\ wire \in Seq(OnWire) /\ x \in Seq(OnWire)
      BY DEF StreamTyped
    <2>3. s = StreamOf(heard, messageFragment, wire)
      BY DEF Stream
    <2> HIDE DEF s, u
    <2>4. QED
      BY <1>3, <2>1, <2>2, <2>3, StreamAppend
  <1>6. /\ s \in Seq(Pieces) /\ u \in Seq(Pieces) /\ Len(s) \in Nat
        /\ Len(heard) \in 0..Len(s)
    <2>1. u \in Seq(Pieces)
      BY <1>4, StreamParts DEF StreamTyped, Stream
    <2>2. QED
      BY <2>1, StreamFacts
  <1>7. /\ Ordered(s, incoming) /\ Consecutive(s, Len(heard))
        /\ Len(s) > Len(heard) => EndsMessage(s[Len(s)])
    BY <1>2 DEF StreamInv, WholeSent
  <1> HIDE DEF s, u
  <1>8. \A i \in (Len(s) + 1)..Len(u) : u[i] = Piece(incoming + 1, i - Len(s), c)
    <2>1. ASSUME NEW i \in (Len(s) + 1)..Len(u)
          PROVE  u[i] = Piece(incoming + 1, i - Len(s), c)
      <3>1. i - Len(s) \in 1..c
        BY <1>2, <1>5, <1>6
      <3>2. QED
        BY <1>3, <1>5, <3>1
    <2>2. QED
      BY <2>1
  <1>9. /\ Ordered(u, incoming + 1) /\ Consecutive(u, Len(heard))
        /\ EndsMessage(u[Len(u)])
    BY <1>2, <1>5, <1>6, <1>7, <1>8, OrderedExtend
  <1>10. Framed'
    <2>1. ASSUME NEW i \in 1..Len(wire'), wire'[i].bytesleft
          PROVE  ~EndsMessage(wire'[i].piece)
      <3>1. /\ wire \in Seq(OnWire) /\ Len(wire') = Len(wire) + c
            /\ \A j \in 1..Len(wire) : wire'[j] = wire[j]
            /\ \A k \in 1..c : wire'[Len(wire) + k] = x[k]
            /\ Len(wire) \in Nat
        <4>1. wire \in Seq(OnWire) /\ x \in Seq(OnWire)
          BY DEF StreamTyped
        <4>2. /\ Len(wire \o x) = Len(wire) + Len(x) /\ Len(wire) \in Nat
              /\ \A j \in 1..Len(wire) : (wire \o x)[j] = wire[j]
              /\ \A k \in 1..Len(x) : (wire \o x)[Len(wire) + k] = x[k]
          BY <4>1, ConcatFacts
        <4>3. Len(x) = c /\ wire' = wire \o x
          BY <1>3
        <4>4. QED
          BY <4>1, <4>2, <4>3
      <3>2. CASE i <= Len(wire)
        <4>1. i \in 1..Len(wire)
          BY <1>2, <3>1, <3>2
        <4>2. QED
          BY <2>1, <3>1, <4>1 DEF StreamInv, Framed
      <3>3. CASE ~(i <= Len(wire))
        <4>1. PICK k \in 1..c : i = Len(wire) + k
          <5>1. i - Len(wire) \in 1..c /\ Len(wire) + (i - Len(wire)) = i
            BY <1>2, <3>1, <3>3
          <5>2. QED
            BY <5>1
        <4>2. wire'[i] = x[k]
          BY <3>1, <4>1
        <4>3. x[k].piece = Piece(incoming + 1, k, c) /\ k # c
          BY <1>3, <2>1, <4>2
        <4>4. QED
          BY <4>2, <4>3 DEF EndsMessage, Piece
      <3>4. QED
        BY <3>2, <3>3
    <2>2. QED
      BY <1>2, <2>1 DEF StreamInv, Framed
  <1>11. WholeSent'
    BY <1>9 DEF WholeSent, u
  <1>12. QED
    BY <1>2, <1>4, <1>9, <1>10, <1>11 DEF StreamInv, u

\* A piece that does not end its frame is kept with those before it; one that
\* does takes the frame to ReceiveMessage.
LEMMA WriteShape ==
  ASSUME WriteResponse
  PROVE  /\ wire # <<>> /\ wire' = Tail(wire)
         /\ UNCHANGED <<incoming, connection>>
         /\ \/ /\ wire[1].bytesleft
               /\ messageFragment' = FrameOf(messageFragment, wire)
               /\ UNCHANGED <<heard, bufferVars>>
            \/ /\ messageFragment' = <<>>
               /\ heard' = HeardWith(heard, FrameOf(messageFragment, wire))
               /\ ReceiveMessage(FrameOf(messageFragment, wire))
  <1>1. Head(wire) = wire[1]
    BY DEF WriteResponse
  <1>2. QED
    BY <1>1 DEF WriteResponse, FrameOf, HeardWith

LEMMA StreamWrites ==
  ASSUME StreamTyped, StreamInv, WriteResponse
  PROVE  StreamTyped' /\ StreamInv'
  <1> DEFINE b == FrameOf(messageFragment, wire)
  <1>1. /\ wire # <<>> /\ wire' = Tail(wire)
        /\ UNCHANGED <<incoming, connection>>
        /\ \/ /\ wire[1].bytesleft
              /\ messageFragment' = b /\ heard' = heard
           \/ /\ messageFragment' = <<>>
              /\ heard' = HeardWith(heard, b)
    BY WriteShape
  <1>2. /\ heard \in Seq(Heard) /\ messageFragment \in Seq(Pieces)
        /\ wire \in Seq(OnWire) /\ incoming \in 0..MaxIncoming
        /\ connection \in BOOLEAN
    BY DEF StreamTyped
  <1>3. /\ b \in Seq(Pieces) /\ Len(b) = Len(messageFragment) + 1
        /\ \A k \in 1..Len(messageFragment) : b[k] = messageFragment[k]
        /\ b[Len(messageFragment) + 1] = wire[1].piece
        /\ StreamOf(heard, b, Tail(wire)) = Stream
        /\ StreamOf(HeardWith(heard, b), <<>>, Tail(wire)) = Stream
    BY <1>1, <1>2, StreamReceive DEF Stream
  <1>4. /\ Tail(wire) \in Seq(OnWire) /\ Len(Tail(wire)) = Len(wire) - 1
        /\ \A i \in 1..Len(Tail(wire)) : Tail(wire)[i] = wire[i + 1]
        /\ Len(wire) \in Nat /\ Len(wire) > 0 /\ Len(heard) \in Nat
        /\ Len(messageFragment) \in Nat
    BY <1>1, <1>2
  <1>5. /\ HeardWith(heard, b) \in Seq(Heard)
        /\ Len(HeardWith(heard, b)) = Len(heard) + Len(b)
        /\ \A i \in 1..Len(heard) : HeardWith(heard, b)[i] = heard[i]
        /\ \A k \in 1..Len(b) :
             /\ HeardWith(heard, b)[Len(heard) + k].piece = b[k]
             /\ HeardWith(heard, b)[Len(heard) + k].last <=> k = Len(b)
    <2>1. b \in Seq(Pieces) /\ heard \in Seq(Heard)
      BY <1>2, <1>3
    <2> HIDE DEF b
    <2>2. QED
      BY <2>1, HeardFrame
  <1> HIDE DEF b
  <1>6. StreamTyped'
    <2>1. <<>> \in Seq(Pieces)
      OBVIOUS
    <2>2. messageFragment' \in Seq(Pieces) /\ heard' \in Seq(Heard)
      BY <1>1, <1>2, <1>3, <1>5, <2>1
    <2>3. wire' \in Seq(OnWire)
      BY <1>1, <1>4
    <2>4. QED
      BY <1>1, <1>2, <2>2, <2>3 DEF StreamTyped
  <1>7. Stream' = Stream
    BY <1>1, <1>3 DEF Stream
  <1>8. Len(heard') \in Nat /\ Len(heard') >= Len(heard)
    BY <1>1, <1>3, <1>4, <1>5
  <1>9. Ordered(Stream', incoming') /\ Consecutive(Stream', Len(heard'))
    <2>1. \A i \in (Len(heard') + 1)..(Len(Stream) - 1) :
            i \in (Len(heard) + 1)..(Len(Stream) - 1)
      BY <1>4, <1>8, StreamFacts
    <2>2. Ordered(Stream, incoming) /\ Consecutive(Stream, Len(heard))
      BY DEF StreamInv
    <2>3. QED
      BY <1>1, <1>7, <2>1, <2>2 DEF Consecutive
  <1>10. WholeSent'
    BY <1>1, <1>4, <1>7, <1>8, StreamFacts DEF StreamInv, WholeSent
  <1>11. /\ \A i \in 1..Len(wire) :
              wire[i].bytesleft => ~EndsMessage(wire[i].piece)
         /\ \A i \in 1..Len(messageFragment) : ~EndsMessage(messageFragment[i])
         /\ \A i \in 1..Len(heard) : ~heard[i].last => ~EndsMessage(heard[i].piece)
         /\ heard # <<>> => heard[Len(heard)].last
    BY DEF StreamInv, Framed
  <1>12. \A i \in 1..Len(wire') : wire'[i].bytesleft => ~EndsMessage(wire'[i].piece)
    <2>1. \A i \in 1..Len(Tail(wire)) : i + 1 \in 1..Len(wire)
      BY <1>4
    <2>2. QED
      BY <1>1, <1>4, <1>11, <2>1
  <1>13. CASE wire[1].bytesleft /\ messageFragment' = b /\ heard' = heard
    <2>1. \A i \in 1..Len(b) : ~EndsMessage(b[i])
      <3>1. 1 \in 1..Len(wire)
        BY <1>4
      <3>2. ~EndsMessage(wire[1].piece)
        BY <1>11, <1>13, <3>1
      <3>3. \A i \in 1..Len(b) : i \in 1..Len(messageFragment)
                                 \/ i = Len(messageFragment) + 1
        BY <1>3, <1>4
      <3>4. QED
        BY <1>3, <1>11, <3>2, <3>3
    <2>2. QED
      BY <1>6, <1>9, <1>10, <1>11, <1>12, <1>13, <2>1 DEF StreamInv, Framed
  <1>14. CASE messageFragment' = <<>> /\ heard' = HeardWith(heard, b)
    <2> DEFINE g == HeardWith(heard, b)
    <2>1. \A i \in 1..Len(g) : ~g[i].last => ~EndsMessage(g[i].piece)
      <3> SUFFICES ASSUME NEW i \in 1..Len(g), ~g[i].last
                   PROVE  ~EndsMessage(g[i].piece)
        OBVIOUS
      <3>1. CASE i <= Len(heard)
        <4>1. i \in 1..Len(heard)
          BY <1>4, <3>1
        <4>2. QED
          BY <1>5, <1>11, <4>1
      <3>2. CASE ~(i <= Len(heard))
        <4>1. PICK k \in 1..Len(b) : i = Len(heard) + k
          <5>1. i - Len(heard) \in 1..Len(b) /\ Len(heard) + (i - Len(heard)) = i
            BY <1>3, <1>4, <1>5, <3>2
          <5>2. QED
            BY <5>1
        <4>2. g[i].piece = b[k] /\ k # Len(b)
          BY <1>5, <4>1
        <4>3. k \in 1..Len(messageFragment)
          BY <1>3, <1>4, <4>2
        <4>4. QED
          BY <1>3, <1>11, <4>2, <4>3
      <3>3. QED
        BY <3>1, <3>2
    <2>2. g[Len(g)].last
      <3>1. Len(b) \in 1..Len(b) /\ Len(g) = Len(heard) + Len(b)
        BY <1>3, <1>4, <1>5
      <3>2. QED
        BY <1>5, <3>1
    <2>3. \A i \in 1..Len(messageFragment') : ~EndsMessage(messageFragment'[i])
      BY <1>14
    <2> HIDE DEF g
    <2>4. heard' = g
      BY <1>14 DEF g
    <2>5. QED
      BY <1>6, <1>9, <1>10, <1>12, <2>1, <2>2, <2>3, <2>4 DEF StreamInv, Framed
  <1>15. QED
    BY <1>1, <1>13, <1>14

\* The connection ends or is replaced: the stream ends where it is, and the
\* next connection starts with a whole message.
LEMMA StreamLost ==
  ASSUME StreamTyped, StreamInv, EndConnection \/ ReplaceConnection
  PROVE  StreamTyped' /\ StreamInv'
  <1>1. /\ wire' = <<>> /\ UNCHANGED <<heard, incoming>>
        /\ \/ messageFragment' = messageFragment /\ connection' = FALSE
           \/ messageFragment' = <<>> /\ connection' = TRUE
    BY DEF EndConnection, ReplaceConnection, RunDone, NewConnection
  <1>2. /\ heard \in Seq(Heard) /\ messageFragment \in Seq(Pieces)
        /\ wire \in Seq(OnWire) /\ incoming \in 0..MaxIncoming
    BY DEF StreamTyped
  <1>3. wire' \in Seq(OnWire) /\ messageFragment' \in Seq(Pieces)
    <2>1. <<>> \in Seq(OnWire) /\ <<>> \in Seq(Pieces)
      OBVIOUS
    <2>2. QED
      BY <1>1, <1>2, <2>1
  <1>4. StreamTyped'
    BY <1>1, <1>2, <1>3 DEF StreamTyped
  <1>5. /\ Len(Stream') <= Len(Stream)
        /\ \A i \in 1..Len(Stream') : Stream'[i] = Stream[i]
    <2>1. messageFragment' = messageFragment \/ messageFragment' = <<>>
      BY <1>1
    <2>2. Stream' = StreamOf(heard, messageFragment', wire')
      BY <1>1 DEF Stream
    <2>3. Beginning(StreamOf(heard, messageFragment', wire'), Stream)
      BY <1>1, <1>2, <1>3, <2>1, StreamCut DEF Stream
    <2>4. QED
      BY <2>2, <2>3 DEF Beginning
  <1>6. /\ Len(Stream) \in Nat /\ Len(Stream') \in Nat /\ Len(heard) \in Nat
    <2>1. Stream' \in Seq(Pieces)
      BY <1>4, StreamParts DEF StreamTyped, Stream
    <2>2. QED
      BY <2>1, StreamFacts
  <1> DEFINE u == Stream'
             s == Stream
  <1>7. Ordered(s, incoming) /\ Consecutive(s, Len(heard))
    BY DEF StreamInv
  <1> HIDE DEF u, s
  <1>8. Ordered(u, incoming) /\ Consecutive(u, Len(heard))
    <2>1. \A i \in 1..Len(u) : i \in 1..Len(s) /\ u[i] = s[i]
      BY <1>5, <1>6 DEF u, s
    <2>2. Ordered(u, incoming)
      BY <1>7, <2>1 DEF Ordered
    <2>3. \A i \in (Len(heard) + 1)..(Len(u) - 1) :
            /\ i \in (Len(heard) + 1)..(Len(s) - 1)
            /\ i \in 1..Len(u) /\ i + 1 \in 1..Len(u)
      BY <1>5, <1>6 DEF u, s
    <2>4. Consecutive(u, Len(heard))
      BY <1>7, <2>1, <2>3 DEF Consecutive
    <2>5. QED
      BY <2>2, <2>4
  <1>9. Framed'
    BY <1>1 DEF StreamInv, Framed
  <1>10. WholeSent'
    <2>1. CASE connection' = FALSE
      BY <2>1 DEF WholeSent
    <2>2. CASE messageFragment' = <<>>
      <3>1. /\ Len(Stream') = Len(heard') + Len(messageFragment') + Len(wire')
            /\ Len(heard') \in Nat
        BY <1>4, StreamParts DEF StreamTyped, Stream
      <3>2. Len(messageFragment') = 0 /\ Len(wire') = 0
        BY <1>1, <2>2
      <3>3. QED
        BY <3>1, <3>2 DEF WholeSent
    <2>3. QED
      BY <1>1, <2>1, <2>2
  <1>11. QED
    BY <1>1, <1>4, <1>8, <1>9, <1>10 DEF StreamInv, u

\* The order of the stream is inductive by itself.
LEMMA StreamStep ==
  ASSUME StreamTyped, StreamInv, [Next]_vars
  PROVE  StreamTyped' /\ StreamInv'
  <1>1. CASE SendMessage \/ ReadHeader \/ FlushMessages \/ UNCHANGED vars
    <2>1. UNCHANGED streamVars
      BY <1>1 DEF SendMessage, ReadHeader, FlushMessages, Send, Terminate, Push,
           WriteHeader, Flush, vars, linkVars, socketVars, streamVars
    <2>2. QED
      BY <2>1, StreamUnchanged
  <1>2. QED
    BY <1>1, StreamSends, StreamWrites, StreamLost DEF Next
-----------------------------------------------------------------------------
(* Type correctness.                                                         *)

\* A frame that is not complete has no more pieces than the number of its last.
FragmentNumbered ==
  \A k \in 1..Len(messageFragment) : messageFragment[k].part >= k

BufferTyped ==
  /\ receiveBuffer \in Seq(Pieces) /\ Len(receiveBuffer) <= BufferLimit
  /\ dispatched \in Seq(1..MaxIncoming)

CountsTyped ==
  connected \in BOOLEAN /\ sends \in 0..MaxSends /\ connections \in Nat

TypeInv ==
  /\ StreamTyped /\ StreamInv /\ FragmentNumbered
  /\ BufferTyped /\ CountsTyped /\ SentInv

\* The numbers of a frame follow each other, because it is part of a message.
LEMMA FragmentStep ==
  ASSUME StreamTyped, StreamInv, FragmentNumbered, [Next]_vars
  PROVE  FragmentNumbered'
  <1>1. CASE messageFragment' = messageFragment
    BY <1>1 DEF FragmentNumbered
  <1>2. CASE messageFragment' = <<>>
    BY <1>2 DEF FragmentNumbered
  <1>3. ASSUME WriteResponse, messageFragment' = FrameOf(messageFragment, wire)
        PROVE  FragmentNumbered'
    <2> DEFINE b == FrameOf(messageFragment, wire)
               n == Len(messageFragment)
    <2>1. /\ heard \in Seq(Heard) /\ messageFragment \in Seq(Pieces)
          /\ wire \in Seq(OnWire) /\ wire # <<>>
      BY <1>3, WriteShape DEF StreamTyped
    <2>2. /\ Len(b) = n + 1 /\ n \in Nat
          /\ \A k \in 1..n : b[k] = messageFragment[k]
          /\ b[n + 1] = wire[1].piece
      BY <2>1, StreamReceive
    <2>3. wire[1].piece.part >= n + 1
      <3>1. /\ Len(wire) \in Nat /\ Len(wire) > 0 /\ 1 \in 1..Len(wire)
            /\ Len(heard) \in Nat /\ wire[1] \in OnWire
        BY <2>1
      <3>2. Stream[Len(heard) + n + 1] = wire[1].piece
        BY <2>1, <3>1, StreamParts DEF Stream
      <3>3. CASE n = 0
        <4>1. wire[1].piece \in Pieces
          BY <3>1 DEF OnWire
        <4>2. wire[1].piece.part \in 1..MaxPieces
          BY <4>1 DEF Pieces
        <4>3. QED
          BY <3>3, <4>2, BoundsAssumption DEF BoundsAssumption
      <3>4. CASE n > 0
        <4>1. /\ Len(heard) + n \in (Len(heard) + 1)..(Len(Stream) - 1)
              /\ n \in 1..Len(messageFragment) /\ Len(heard) + n \in 1..Len(Stream)
          BY <2>2, <3>1, <3>4, StreamFacts
        <4>2. /\ Stream[Len(heard) + n] = messageFragment[n]
              /\ messageFragment[n].part >= n
              /\ ~EndsMessage(messageFragment[n])
          BY <4>1, StreamFacts DEF FragmentNumbered, StreamInv, Framed
        <4>3. Stream[Len(heard) + n + 1].part = messageFragment[n].part + 1
          <5> DEFINE i == Len(heard) + n
          <5>1. Stream[i].part # Stream[i].of
            BY <4>2 DEF EndsMessage
          <5>2. Stream[i].part # Stream[i].of =>
                  Stream[i + 1] = Piece(Stream[i].msg, Stream[i].part + 1,
                                        Stream[i].of)
            BY <4>1 DEF StreamInv, Consecutive
          <5>3. QED
            BY <4>2, <5>1, <5>2 DEF Piece
        <4>4. messageFragment[n].part \in Nat
          BY <4>1, <4>2, StreamFacts
        <4>5. QED
          BY <2>2, <3>2, <4>2, <4>3, <4>4
      <3>5. QED
        BY <2>2, <3>3, <3>4
    <2>4. ASSUME NEW k \in 1..Len(b) PROVE b[k].part >= k
      <3>1. k \in 1..n \/ k = n + 1
        BY <2>2
      <3>2. QED
        BY <2>2, <2>3, <3>1 DEF FragmentNumbered
    <2> HIDE DEF b
    <2>5. messageFragment' = b
      BY <1>3 DEF b
    <2>6. QED
      BY <2>4, <2>5 DEF FragmentNumbered
  <1>4. CASE WriteResponse
    BY <1>1, <1>2, <1>3, <1>4, WriteShape
  <1>5. CASE ~WriteResponse
    BY <1>1, <1>2, <1>5
    DEF Next, SendMessage, ReadHeader, FlushMessages, EndConnection,
        ReplaceConnection, ServerSends, Send, Terminate, Push, WriteHeader,
        Flush, RunDone, NewConnection, vars, socketVars
  <1>6. QED
    BY <1>4, <1>5

\* A frame that is not complete is part of one message, without its end.
LEMMA FragmentShort ==
  ASSUME StreamTyped, StreamInv, FragmentNumbered
  PROVE  Len(messageFragment) < MaxPieces
  <1> DEFINE n == Len(messageFragment)
  <1>1. n \in Nat /\ MaxPieces \in Nat \ {0}
    BY StreamFacts, BoundsAssumption DEF BoundsAssumption
  <1>2. CASE n = 0
    BY <1>1, <1>2
  <1>3. CASE n > 0
    <2>1. /\ n \in 1..Len(messageFragment) /\ Len(heard) + n \in 1..Len(Stream)
      BY <1>1, <1>3, StreamFacts
    <2>2. /\ Stream[Len(heard) + n] = messageFragment[n]
          /\ messageFragment[n].part >= n /\ ~EndsMessage(messageFragment[n])
          /\ messageFragment[n].part <= messageFragment[n].of
      BY <2>1, StreamFacts DEF FragmentNumbered, StreamInv, Framed, Ordered
    <2>3. /\ messageFragment[n].part \in 1..MaxPieces
          /\ messageFragment[n].of \in 1..MaxPieces
      <3>1. messageFragment[n] \in Pieces
        BY <2>1 DEF StreamTyped
      <3>2. QED
        BY <3>1 DEF Pieces
    <2>4. QED
      BY <1>1, <2>2, <2>3 DEF EndsMessage
  <1>4. QED
    BY <1>1, <1>2, <1>3

\* What ReceiveMessage keeps is within its limit, and what it dispatches is a
\* message.
LEMMA BufferStep ==
  ASSUME BufferTyped, NEW b \in Seq(Pieces), ReceiveMessage(b)
  PROVE  BufferTyped'
  <1>1. /\ receiveBuffer \in Seq(Pieces) /\ Len(receiveBuffer) <= BufferLimit
        /\ dispatched \in Seq(1..MaxIncoming) /\ BufferLimit \in Nat
        /\ <<>> \in Seq(Pieces) /\ Len(<<>>) = 0
    BY BufferLimitAssumption DEF BufferTyped, BufferLimitAssumption
  <1> DEFINE r == receiveBuffer \o b
  <1>2. r \in Seq(Pieces) /\ Len(r) = Len(receiveBuffer) + Len(b)
    BY <1>1
  <1>3. ASSUME NEW s \in Seq(Pieces), s # <<>>
        PROVE  Append(dispatched, s[1].msg) \in Seq(1..MaxIncoming)
    <2>1. s[1] \in Pieces
      BY <1>3
    <2>2. s[1].msg \in 1..MaxIncoming
      BY <2>1 DEF Pieces
    <2>3. QED
      BY <1>1, <2>2
  <1> HIDE DEF r
  <1>4. receiveBuffer' \in Seq(Pieces) /\ Len(receiveBuffer') <= BufferLimit
    <2>1. receiveBuffer' = <<>> \/ (Fits(b) /\ receiveBuffer' = r)
      BY DEF ReceiveMessage, ReceiveWhole, ReceiveTooMuch, ReceiveRest,
             ReceiveFragment, r
    <2>2. CASE receiveBuffer' = <<>>
      <3>1. Len(receiveBuffer') = 0
        BY <2>2
      <3>2. QED
        BY <1>1, <2>2, <3>1
    <2>3. CASE Fits(b) /\ receiveBuffer' = r
      BY <1>2, <2>3 DEF Fits
    <2>4. QED
      BY <2>1, <2>2, <2>3
  <1>5. dispatched' \in Seq(1..MaxIncoming)
    <2>1. \/ dispatched' = dispatched
          \/ b # <<>> /\ dispatched' = Append(dispatched, b[1].msg)
          \/ r # <<>> /\ dispatched' = Append(dispatched, r[1].msg)
      BY DEF ReceiveMessage, ReceiveWhole, ReceiveTooMuch, ReceiveRest,
             ReceiveFragment, Dispatch, Parses, r
    <2>2. QED
      BY <1>1, <1>2, <1>3, <2>1
  <1>6. QED
    BY <1>4, <1>5 DEF BufferTyped

LEMMA TypeStep ==
  ASSUME TypeInv, [Next]_vars
  PROVE  TypeInv'
  <1>1. /\ StreamTyped /\ StreamInv /\ FragmentNumbered
        /\ BufferTyped /\ CountsTyped /\ SentInv
    BY DEF TypeInv
  <1>2. StreamTyped' /\ StreamInv' /\ FragmentNumbered' /\ SentInv'
    BY <1>1, StreamStep, FragmentStep, SentStep
  <1>3. BufferTyped'
    <2>1. CASE UNCHANGED bufferVars
      BY <1>1, <2>1 DEF BufferTyped, bufferVars
    <2>2. CASE WriteResponse
      <3>1. FrameOf(messageFragment, wire) \in Seq(Pieces)
        <4>1. /\ heard \in Seq(Heard) /\ messageFragment \in Seq(Pieces)
              /\ wire \in Seq(OnWire) /\ wire # <<>>
          BY <1>1, <2>2, WriteShape DEF StreamTyped
        <4>2. QED
          BY <4>1, StreamReceive
      <3>2. QED
        BY <1>1, <2>1, <2>2, <3>1, WriteShape, BufferStep
    <2>3. CASE ~WriteResponse
      BY <2>1, <2>3 DEF Next, SendMessage, ReadHeader, FlushMessages,
         EndConnection, ReplaceConnection, ServerSends, vars
    <2>4. QED
      BY <2>2, <2>3
  <1>4. CountsTyped'
    <2>1. connected' \in BOOLEAN /\ connections' \in Nat
      <3>1. connected' = connected \/ connected' = TRUE \/ connected' = FALSE
        BY DEF Next, SendMessage, ReadHeader, FlushMessages, EndConnection,
           ReplaceConnection, ServerSends, WriteResponse, Send, Terminate, Push,
           WriteHeader, Flush, RunDone, NewConnection, vars, socketVars
      <3>2. connections' = connections \/ connections' = connections + 1
        BY DEF Next, SendMessage, ReadHeader, FlushMessages, EndConnection,
           ReplaceConnection, ServerSends, WriteResponse, vars, linkVars
      <3>3. connections' \in Nat
        BY <1>1, <3>2 DEF CountsTyped
      <3>4. connected' \in BOOLEAN
        BY <1>1, <3>1, Zenon DEF CountsTyped
      <3>5. QED
        BY <3>3, <3>4
    <2>2. sends' = sends \/ (sends < MaxSends /\ sends' = sends + 1)
      BY DEF Next, SendMessage, ReadHeader, FlushMessages, EndConnection,
         ReplaceConnection, ServerSends, WriteResponse, Send, Terminate, Push,
         WriteHeader, Flush, RunDone, NewConnection, vars, socketVars, outVars
    <2>3. QED
      BY <1>1, <2>1, <2>2, BoundsAssumption DEF CountsTyped, BoundsAssumption
  <1>5. QED
    BY <1>2, <1>3, <1>4 DEF TypeInv

LEMMA TypeInit == Init => TypeInv
  <1> SUFFICES ASSUME Init PROVE TypeInv
    OBVIOUS
  <1>1. /\ heard = <<>> /\ messageFragment = <<>> /\ wire = <<>>
        /\ incoming = 0 /\ connection = TRUE /\ receiveBuffer = <<>>
        /\ dispatched = <<>> /\ connected = FALSE /\ sends = 0 /\ connections = 1
    BY DEF Init, BufferInit, SocketInit
  <1>2. StreamTyped /\ BufferTyped /\ CountsTyped /\ FragmentNumbered
    <2>1. <<>> \in Seq(Heard) /\ <<>> \in Seq(Pieces) /\ <<>> \in Seq(OnWire)
      OBVIOUS
    <2>2. StreamTyped
      BY <1>1, <2>1, BoundsAssumption DEF StreamTyped, BoundsAssumption
    <2>3. BufferTyped
      <3>1. <<>> \in Seq(1..MaxIncoming) /\ Len(<<>>) = 0
        OBVIOUS
      <3>2. QED
        BY <1>1, <2>1, <3>1, BufferLimitAssumption
        DEF BufferTyped, BufferLimitAssumption
    <2>4. CountsTyped
      <3>1. connected \in BOOLEAN
        BY <1>1, Zenon
      <3>2. sends \in 0..MaxSends /\ connections \in Nat
        BY <1>1, BoundsAssumption DEF BoundsAssumption
      <3>3. QED
        BY <3>1, <3>2 DEF CountsTyped
    <2>5. FragmentNumbered
      BY <1>1 DEF FragmentNumbered
    <2>6. QED
      BY <2>2, <2>3, <2>4, <2>5
  <1>3. Len(Stream) = 0 /\ Len(heard) = 0
    BY <1>1, <1>2, StreamFacts
  <1>4. StreamInv
    BY <1>1, <1>3 DEF StreamInv, Ordered, Consecutive, Framed, WholeSent
  <1>5. QED
    BY <1>2, <1>4, SentInit DEF TypeInv

LEMMA TypeInvImplies == TypeInv => TypeOK
  <1> SUFFICES ASSUME TypeInv PROVE TypeOK
    OBVIOUS
  <1>1. /\ StreamTyped /\ BufferTyped /\ CountsTyped /\ SentInv
        /\ Len(messageFragment) < MaxPieces
    BY FragmentShort DEF TypeInv
  <1>2. messages \in Seq([n : 1..sends, disconnect : BOOLEAN])
    <2>1. /\ sends \in Nat /\ linkStart \in Nat /\ Len(messages) \in Nat
          /\ messages \in Seq([n : Nat, disconnect : BOOLEAN])
          /\ Len(messages) <= sends - linkStart
          /\ \A i \in 1..Len(messages) : messages[i].n = (sends - Len(messages)) + i
      BY <1>1 DEF SentInv, ListOfLast
    <2>2. ASSUME NEW i \in 1..Len(messages)
          PROVE  messages[i] \in [n : 1..sends, disconnect : BOOLEAN]
      <3>1. messages[i] \in [n : Nat, disconnect : BOOLEAN]
        <4> DEFINE S == [n : Nat, disconnect : BOOLEAN]
        <4>1. messages \in Seq(S)
          BY <2>1
        <4> HIDE DEF S
        <4>2. messages[i] \in S
          BY <4>1
        <4>3. QED
          BY <4>2 DEF S
      <3>2. messages[i].n \in 1..sends
        BY <2>1
      <3>3. QED
        BY <3>1, <3>2
    <2>3. QED
      <3> DEFINE S == [n : Nat, disconnect : BOOLEAN]
                 T == [n : 1..sends, disconnect : BOOLEAN]
      <3>1. messages \in Seq(S) /\ \A i \in 1..Len(messages) : messages[i] \in T
        BY <2>1, <2>2
      <3> HIDE DEF S, T
      <3>2. messages \in Seq(T)
        BY <3>1
      <3>3. QED
        BY <3>2 DEF T
  <1>3. transmitted \subseteq 1..sends /\ linkStart \in 0..sends
    BY <1>1 DEF SentInv, ListOfLast, OthersSent
  <1>4. QED
    BY <1>1, <1>2, <1>3
    DEF TypeOK, StreamTyped, BufferTyped, CountsTyped, Heard, OnWire

\* Every variable has its type, a frame that is being received has fewer pieces
\* than a message, and the receive buffer never grows beyond its limit: for any
\* messages and frames, wherever connections end.
THEOREM TypeCorrect == Spec => []TypeOK
  BY TypeInit, TypeStep, TypeInvImplies, PTL DEF Spec
-----------------------------------------------------------------------------
(* What the receive buffer makes of the pieces heard.                        *)

\* Pieces of message n, which is cut in c, from the one behind the first j on.
RunOf(s, j, n, c) == \A k \in 1..Len(s) : s[k] = Piece(n, j + k, c)

\* From p on, all that was heard, h, is of message n, which begins there.
HeardRun(h, p, n, c) ==
  \A i \in p..Len(h) : h[i].piece = Piece(n, (i - p) + 1, c)

\* A message that reached its event was heard to its end.
Accounted ==
  \A d \in Range(dispatched) : \E j \in 1..Len(heard) :
    heard[j].piece.msg = d /\ EndsMessage(heard[j].piece)

\* When the last thing heard reached its event, the buffer is empty.
Emptied == Follows(Len(heard) + 1) => receiveBuffer = <<>>

\* When a message that fits has begun right after one that reached its event,
\* the buffer holds what has come of it, and nothing else.
Begun ==
  \A p \in 1..Len(heard) :
    Follows(p) /\ HeardRun(heard, p, heard[p].piece.msg, heard[p].piece.of)
    /\ heard[p].piece.of <= BufferLimit
    /\ (Len(heard) - p) + 1 < heard[p].piece.of
      => /\ Len(receiveBuffer) = (Len(heard) - p) + 1
         /\ RunOf(receiveBuffer, 0, heard[p].piece.msg, heard[p].piece.of)

ReassemblyInv == Accounted /\ Emptied /\ Begun /\ Reassembled

\* What the buffer and the pieces heard are, to the lemmas below.
ReassemblyTyped == StreamTyped /\ StreamInv /\ BufferTyped

LEMMA RangeAppend ==
  ASSUME NEW s \in Seq(1..MaxIncoming), NEW e \in 1..MaxIncoming
  PROVE  Range(Append(s, e)) = Range(s) \cup {e}
  <1> DEFINE t == Append(s, e)
  <1>1. /\ Len(s) \in Nat /\ DOMAIN s = 1..Len(s) /\ DOMAIN t = 1..(Len(s) + 1)
        /\ \A i \in 1..Len(s) : t[i] = s[i]
        /\ t[Len(s) + 1] = e
    OBVIOUS
  <1>2. \A i \in 1..(Len(s) + 1) : i \in 1..Len(s) \/ i = Len(s) + 1
    BY <1>1
  <1>3. \A i \in 1..Len(s) : i \in 1..(Len(s) + 1)
    BY <1>1
  <1>4. Len(s) + 1 \in 1..(Len(s) + 1)
    BY <1>1
  <1> HIDE DEF t
  <1>5. Range(t) = Range(s) \cup {e}
    BY <1>1, <1>2, <1>3, <1>4 DEF Range
  <1>6. QED
    BY <1>5 DEF t

\* What parses is one message from its first piece to its last.
LEMMA ParsesFacts ==
  ASSUME NEW s \in Seq(Pieces), Parses(s)
  PROVE  /\ Len(s) \in Nat /\ Len(s) > 0 /\ Len(s) = s[1].of
         /\ \A k \in 1..Len(s) : s[k] = Piece(s[1].msg, k, s[1].of)
         /\ s[Len(s)].msg = s[1].msg /\ EndsMessage(s[Len(s)])
  <1>1. /\ Len(s) \in Nat /\ Len(s) > 0 /\ Len(s) = s[1].of /\ s[1] \in Pieces
        /\ DOMAIN s = 1..Len(s)
    BY DEF Parses
  <1>2. \A k : [s[1] EXCEPT !.part = k] = Piece(s[1].msg, k, s[1].of)
    BY <1>1 DEF Pieces, Piece
  <1>3. \A k \in 1..Len(s) : s[k] = Piece(s[1].msg, k, s[1].of)
    BY <1>1, <1>2 DEF Parses
  <1>4. s[Len(s)] = Piece(s[1].msg, Len(s), s[1].of)
    BY <1>1, <1>3
  <1>5. QED
    BY <1>1, <1>3, <1>4 DEF Piece, EndsMessage

LEMMA ParsesRun ==
  ASSUME NEW s \in Seq(Pieces), NEW n, NEW c, s # <<>>, Len(s) = c,
         RunOf(s, 0, n, c)
  PROVE  Parses(s)
  <1>0. \A k \in 1..Len(s) : s[k] = Piece(n, k, c)
    BY DEF RunOf
  <1>1. Len(s) \in Nat /\ Len(s) > 0 /\ DOMAIN s = 1..Len(s)
    OBVIOUS
  <1>2. s[1] = Piece(n, 1, c)
    BY <1>0, <1>1
  <1>3. \A k : [Piece(n, 1, c) EXCEPT !.part = k] = Piece(n, k, c)
    BY DEF Piece
  <1>4. Piece(n, 1, c).of = c
    BY DEF Piece
  <1>5. QED
    BY <1>0, <1>1, <1>2, <1>3, <1>4 DEF Parses

\* What reaches its event ends with the piece that has just come, and leaves
\* the buffer empty.
LEMMA DispatchFacts ==
  ASSUME BufferTyped, NEW b \in Seq(Pieces), b # <<>>, ReceiveMessage(b)
  PROVE  \/ dispatched' = dispatched
         \/ /\ receiveBuffer' = <<>> /\ EndsMessage(b[Len(b)])
            /\ Range(dispatched') = Range(dispatched) \cup {b[Len(b)].msg}
  <1> DEFINE r == receiveBuffer \o b
  <1>1. receiveBuffer \in Seq(Pieces) /\ dispatched \in Seq(1..MaxIncoming)
    BY DEF BufferTyped
  <1>2. /\ r \in Seq(Pieces) /\ Len(b) \in Nat /\ Len(b) > 0
        /\ Len(r) = Len(receiveBuffer) + Len(b) /\ r[Len(r)] = b[Len(b)]
    <2>1. Len(b) \in Nat /\ Len(b) > 0 /\ Len(b) \in 1..Len(b)
      OBVIOUS
    <2>2. QED
      BY <1>1, <2>1, ConcatFacts
  <1>3. ASSUME NEW s \in Seq(Pieces), Parses(s), s[Len(s)] = b[Len(b)],
               Dispatch(s)
        PROVE  /\ EndsMessage(b[Len(b)])
               /\ Range(dispatched') = Range(dispatched) \cup {b[Len(b)].msg}
    <2>1. s[1].msg = b[Len(b)].msg /\ EndsMessage(b[Len(b)]) /\ s[1] \in Pieces
      BY <1>3, ParsesFacts
    <2>2. s[1].msg \in 1..MaxIncoming
      BY <2>1 DEF Pieces
    <2>3. Range(Append(dispatched, s[1].msg)) = Range(dispatched) \cup {s[1].msg}
      BY <1>1, <2>2, RangeAppend
    <2>4. QED
      BY <1>3, <2>1, <2>3 DEF Dispatch
  <1> HIDE DEF r
  <1>4. CASE ReceiveWhole(b)
    BY <1>3, <1>4 DEF ReceiveWhole
  <1>5. CASE ReceiveRest(b)
    <2>1. Parses(r) /\ Dispatch(r) /\ receiveBuffer' = <<>>
      BY <1>5 DEF ReceiveRest, r
    <2>2. QED
      BY <1>2, <1>3, <2>1
  <1>6. CASE ReceiveTooMuch(b) \/ ReceiveFragment(b)
    BY <1>6 DEF ReceiveTooMuch, ReceiveFragment
  <1>7. QED
    BY <1>4, <1>5, <1>6 DEF ReceiveMessage

\* The next pieces of the message in the buffer are kept until it is whole.
LEMMA ReceiveRun ==
  ASSUME BufferTyped, NEW b \in Seq(Pieces), b # <<>>, ReceiveMessage(b),
         NEW n, NEW c \in Nat, c <= BufferLimit,
         RunOf(receiveBuffer, 0, n, c), RunOf(b, Len(receiveBuffer), n, c),
         Len(receiveBuffer) + Len(b) <= c
  PROVE  /\ Len(receiveBuffer) + Len(b) < c => receiveBuffer' = receiveBuffer \o b
         /\ Len(receiveBuffer) + Len(b) = c => n \in Range(dispatched')
  <1> DEFINE r == receiveBuffer \o b
             j == Len(receiveBuffer)
  <1>0. /\ \A k \in 1..Len(receiveBuffer) : receiveBuffer[k] = Piece(n, k, c)
        /\ \A k \in 1..Len(b) : b[k] = Piece(n, Len(receiveBuffer) + k, c)
    BY DEF RunOf
  <1>1. /\ receiveBuffer \in Seq(Pieces) /\ dispatched \in Seq(1..MaxIncoming)
        /\ BufferLimit \in Nat
    BY BufferLimitAssumption DEF BufferTyped, BufferLimitAssumption
  <1>2. /\ r \in Seq(Pieces) /\ j \in Nat /\ Len(b) \in Nat /\ Len(b) > 0
        /\ Len(r) = j + Len(b)
        /\ \A k \in 1..j : r[k] = receiveBuffer[k]
        /\ \A k \in 1..Len(b) : r[j + k] = b[k]
    BY <1>1, ConcatFacts
  <1> HIDE DEF r, j
  <1>3. \A k \in 1..Len(r) : r[k] = Piece(n, k, c)
    <2> SUFFICES ASSUME NEW k \in 1..Len(r) PROVE r[k] = Piece(n, k, c)
      OBVIOUS
    <2>1. CASE k \in 1..j
      BY <1>0, <1>2, <2>1 DEF j
    <2>2. CASE k > j
      <3>1. k - j \in 1..Len(b) /\ j + (k - j) = k
        BY <1>2, <2>2
      <3>2. QED
        BY <1>0, <1>2, <3>1 DEF j
    <2>3. QED
      BY <1>2, <2>1, <2>2
  <1>4. Fits(b)
    BY <1>1, <1>2 DEF Fits, j
  <1>5. Parses(r) <=> Len(r) = c
    <2>1. r[1] = Piece(n, 1, c) /\ r # <<>>
      BY <1>2, <1>3
    <2>2. Parses(r) => Len(r) = c
      <3>1. Parses(r) => Len(r) = r[1].of
        BY <1>2, ParsesFacts
      <3>2. r[1].of = c
        BY <2>1 DEF Piece
      <3>3. QED
        BY <3>1, <3>2
    <2>3. RunOf(r, 0, n, c)
      BY <1>2, <1>3 DEF RunOf
    <2>4. QED
      BY <1>2, <2>1, <2>2, <2>3, ParsesRun
  <1>6. Parses(b) => j = 0 /\ Len(b) = c
    <2>1. b[1] = Piece(n, j + 1, c)
      BY <1>0, <1>2 DEF j
    <2>2. ASSUME Parses(b) PROVE j = 0 /\ Len(b) = c
      <3>1. b[1] = Piece(b[1].msg, 1, b[1].of) /\ Len(b) = b[1].of
        BY <1>2, <2>2, ParsesFacts
      <3>2. QED
        BY <1>2, <2>1, <3>1 DEF Piece
    <2>3. QED
      BY <2>2
  <1>7. CASE j + Len(b) < c
    <2>1. ~Parses(b) /\ ~Parses(r)
      BY <1>2, <1>5, <1>6, <1>7
    <2>2. QED
      BY <1>2, <1>4, <1>7, <2>1
      DEF ReceiveMessage, ReceiveWhole, ReceiveTooMuch, ReceiveRest,
          ReceiveFragment, r, j
  <1>8. CASE j + Len(b) = c
    <2>1. Parses(r)
      BY <1>2, <1>5, <1>8
    <2>2. Dispatch(b) \/ Dispatch(r)
      BY <1>4, <2>1 DEF ReceiveMessage, ReceiveWhole, ReceiveTooMuch,
        ReceiveRest, ReceiveFragment, r
    <2>4. b[1].msg = n /\ r[1].msg = n /\ n \in 1..MaxIncoming
      <3>1. /\ 1 \in 1..Len(b) /\ 1 \in 1..Len(r)
            /\ b[1] = Piece(n, j + 1, c) /\ b[1] \in Pieces
            /\ r[1] = Piece(n, 1, c)
        BY <1>0, <1>2, <1>3 DEF j
      <3>2. b[1].msg = n /\ r[1].msg = n
        BY <3>1 DEF Piece
      <3>3. b[1].msg \in 1..MaxIncoming
        BY <3>1 DEF Pieces
      <3>4. QED
        BY <3>2, <3>3
    <2>5. dispatched' = Append(dispatched, n)
      BY <2>2, <2>4 DEF Dispatch
    <2>6. Range(dispatched') = Range(dispatched) \cup {n}
      BY <1>1, <2>4, <2>5, RangeAppend
    <2>7. QED
      BY <1>2, <1>8, <2>6 DEF j
  <1>9. QED
    BY <1>2, <1>7, <1>8 DEF j, r

\* WriteResponse has the whole of a frame, b.
FrameComes(b) ==
  /\ b = FrameOf(messageFragment, wire)
  /\ heard' = HeardWith(heard, b)
  /\ ReceiveMessage(b)

\* What WriteResponse adds to the pieces heard, when a frame is complete: all
\* come later than those heard before, and only the last may end its message.
LEMMA FrameHeard ==
  ASSUME ReassemblyTyped, WriteResponse, NEW b, FrameComes(b)
  PROVE  /\ b \in Seq(Pieces) /\ b # <<>> /\ Len(b) \in Nat /\ Len(b) > 0
         /\ Len(heard) \in Nat /\ Len(heard') = Len(heard) + Len(b)
         /\ \A i \in 1..Len(heard) : heard'[i] = heard[i]
         /\ \A k \in 1..Len(b) :
              /\ heard'[Len(heard) + k].piece = b[k]
              /\ heard'[Len(heard) + k].last <=> k = Len(b)
         /\ \A k \in 1..(Len(b) - 1) : ~EndsMessage(b[k])
         /\ \A i \in 1..Len(heard) : \A k \in 1..Len(b) :
              Later(heard[i].piece, b[k])
         /\ Len(heard) > 0 => heard[Len(heard)].last
  <1>1. /\ heard \in Seq(Heard) /\ messageFragment \in Seq(Pieces)
        /\ wire \in Seq(OnWire) /\ wire # <<>> /\ StreamTyped /\ StreamInv
    BY WriteShape DEF ReassemblyTyped, StreamTyped
  <1>2. /\ b \in Seq(Pieces) /\ Len(b) = Len(messageFragment) + 1
        /\ \A k \in 1..Len(messageFragment) : b[k] = messageFragment[k]
    BY <1>1, StreamReceive DEF FrameComes
  <1>3. /\ Len(b) \in Nat /\ Len(b) > 0 /\ b # <<>> /\ Len(heard) \in Nat
        /\ Len(messageFragment) \in Nat /\ Len(messageFragment) = Len(b) - 1
    <2>1. /\ Len(messageFragment) \in Nat /\ Len(heard) \in Nat
          /\ b = <<>> => Len(b) = 0
      BY <1>1, <1>2
    <2>2. QED
      BY <1>2, <2>1
  <1>4. /\ HeardWith(heard, b) \in Seq(Heard)
        /\ Len(HeardWith(heard, b)) = Len(heard) + Len(b)
        /\ \A i \in 1..Len(heard) : HeardWith(heard, b)[i] = heard[i]
        /\ \A k \in 1..Len(b) :
             /\ HeardWith(heard, b)[Len(heard) + k].piece = b[k]
             /\ HeardWith(heard, b)[Len(heard) + k].last <=> k = Len(b)
    BY <1>1, <1>2, HeardFrame, Zenon
  <1>5. \A k \in 1..(Len(b) - 1) : ~EndsMessage(b[k])
    BY <1>1, <1>2, <1>3 DEF StreamInv, Framed
  <1>6. ASSUME NEW i \in 1..Len(heard), NEW k \in 1..Len(b)
        PROVE  Later(heard[i].piece, b[k])
    <2>1. StreamTyped' /\ StreamInv'
      BY <1>1, StreamStep DEF Next
    <2>2. /\ Len(Stream') = Len(heard') + Len(messageFragment') + Len(wire')
          /\ \A l \in 1..Len(heard') : Stream'[l] = heard'[l].piece
          /\ Len(messageFragment') \in Nat /\ Len(wire') \in Nat
      <3>1. /\ heard' \in Seq(Heard) /\ messageFragment' \in Seq(Pieces)
            /\ wire' \in Seq(OnWire)
        BY <2>1 DEF StreamTyped
      <3>2. Stream' = StreamOf(heard', messageFragment', wire')
        BY DEF Stream
      <3>3. Len(messageFragment') \in Nat /\ Len(wire') \in Nat
        BY <3>1
      <3>4. QED
        BY <3>1, <3>2, <3>3, StreamParts
    <2>3. /\ Len(heard') = Len(heard) + Len(b) /\ heard'[i] = heard[i]
          /\ heard'[Len(heard) + k].piece = b[k]
      BY <1>4 DEF FrameComes
    <2>4. /\ i \in 1..Len(heard') /\ Len(heard) + k \in 1..Len(heard')
          /\ i \in 1..Len(Stream') /\ Len(heard) + k \in 1..Len(Stream')
          /\ i < Len(heard) + k
      BY <1>3, <2>2, <2>3
    <2>5. Later(Stream'[i], Stream'[Len(heard) + k])
      BY <2>1, <2>4 DEF StreamInv, Ordered
    <2>6. QED
      BY <2>2, <2>3, <2>4, <2>5
  <1>7. Len(heard) > 0 => heard[Len(heard)].last
    <2>1. Len(heard) > 0 => heard # <<>>
      BY <1>1
    <2>2. heard # <<>> => heard[Len(heard)].last
      BY <1>1, Zenon DEF StreamInv, Framed
    <2>3. QED
      BY <2>1, <2>2, Zenon
  <1>8. QED
    BY <1>2, <1>3, <1>4, <1>5, <1>6, <1>7, Zenon DEF FrameComes

\* Once a frame has come, what was dispatched of the pieces heard before it is
\* what it was, and of the frame only its last piece can have been.
LEMMA FollowsBefore ==
  ASSUME ReassemblyTyped, WriteResponse, NEW b, FrameComes(b),
         NEW p \in 1..Len(heard'), Follows(p)'
  PROVE  p <= Len(heard) + 1 /\ Follows(p)
  <1>1. /\ Len(b) \in Nat /\ Len(b) > 0 /\ Len(heard) \in Nat
        /\ Len(heard') = Len(heard) + Len(b) /\ b \in Seq(Pieces) /\ b # <<>>
        /\ \A i \in 1..Len(heard) : heard'[i] = heard[i]
        /\ \A k \in 1..Len(b) : heard'[Len(heard) + k].piece = b[k]
        /\ \A k \in 1..(Len(b) - 1) : ~EndsMessage(b[k])
        /\ \A i \in 1..Len(heard) : \A k \in 1..Len(b) :
             Later(heard[i].piece, b[k])
    BY FrameHeard
  <1>2. CASE p = 1
    BY <1>1, <1>2 DEF Follows
  <1>3. CASE p # 1
    <2>1. /\ p - 1 \in 1..Len(heard') /\ EndsMessage(heard'[p - 1].piece)
          /\ heard'[p - 1].piece.msg \in Range(dispatched')
      BY <1>1, <1>3 DEF Follows, EndsMessage
    <2>2. p <= Len(heard) + 1
      <3>1. SUFFICES ASSUME p > Len(heard) + 1 PROVE FALSE
        BY <1>1
      <3>2. /\ (p - 1) - Len(heard) \in 1..Len(b)
            /\ (p - 1) - Len(heard) \in 1..(Len(b) - 1)
            /\ Len(heard) + ((p - 1) - Len(heard)) = p - 1
        BY <1>1, <3>1
      <3>3. QED
        BY <1>1, <2>1, <3>2
    <2>3. /\ p - 1 \in 1..Len(heard) /\ heard'[p - 1] = heard[p - 1]
          /\ Len(b) \in 1..Len(b)
      BY <1>1, <1>3, <2>2
    <2>4. heard[p - 1].piece.msg # b[Len(b)].msg \/ dispatched' = dispatched
      <3>1. SUFFICES ASSUME dispatched' # dispatched
                     PROVE  heard[p - 1].piece.msg # b[Len(b)].msg
        OBVIOUS
      <3>2. EndsMessage(b[Len(b)])
        BY <1>1, <3>1, DispatchFacts DEF FrameComes, ReassemblyTyped
      <3>3. Later(heard[p - 1].piece, b[Len(b)])
        BY <1>1, <2>3
      <3>4. /\ b[Len(b)].msg \in Nat /\ b[Len(b)].part \in Nat
            /\ heard[p - 1].piece.msg \in Nat
        <4>1. heard[p - 1] \in Heard /\ b[Len(b)] \in Pieces
          BY <1>1, <2>3 DEF ReassemblyTyped, StreamTyped
        <4>2. heard[p - 1].piece \in Pieces
          BY <4>1 DEF Heard
        <4>3. QED
          BY <4>1, <4>2, PieceFacts
      <3>5. QED
        BY <2>1, <2>3, <3>2, <3>3, <3>4 DEF Later, EndsMessage
    <2>5. heard[p - 1].piece.msg \in Range(dispatched)
      BY <1>1, <2>1, <2>3, <2>4, DispatchFacts DEF FrameComes, ReassemblyTyped
    <2>6. QED
      BY <2>1, <2>2, <2>3, <2>5 DEF Follows, EndsMessage
  <1>4. QED
    BY <1>2, <1>3

\* A dispatched message was heard to its end.
LEMMA AccountedStep ==
  ASSUME ReassemblyTyped, Accounted, WriteResponse, NEW b, FrameComes(b)
  PROVE  Accounted'
  <1>1. /\ Len(b) \in Nat /\ Len(b) > 0 /\ Len(heard) \in Nat
        /\ Len(heard') = Len(heard) + Len(b) /\ b \in Seq(Pieces) /\ b # <<>>
        /\ \A i \in 1..Len(heard) : heard'[i] = heard[i]
        /\ \A k \in 1..Len(b) : heard'[Len(heard) + k].piece = b[k]
    BY FrameHeard
  <1>2. SUFFICES ASSUME NEW d \in Range(dispatched')
                 PROVE  \E j \in 1..Len(heard') :
                          /\ heard'[j].piece.msg = d
                          /\ EndsMessage(heard'[j].piece)
    BY DEF Accounted
  <1>3. CASE d \in Range(dispatched)
    <2>1. PICK j \in 1..Len(heard) :
            heard[j].piece.msg = d /\ EndsMessage(heard[j].piece)
      BY <1>3 DEF Accounted
    <2>2. j \in 1..Len(heard') /\ heard'[j] = heard[j]
      BY <1>1
    <2>3. QED
      BY <2>1, <2>2
  <1>4. CASE d \notin Range(dispatched)
    <2>1. EndsMessage(b[Len(b)]) /\ d = b[Len(b)].msg
      BY <1>1, <1>2, <1>4, DispatchFacts DEF FrameComes, ReassemblyTyped
    <2>2. Len(b) \in 1..Len(b) /\ Len(heard) + Len(b) \in 1..Len(heard')
      BY <1>1
    <2>3. heard'[Len(heard) + Len(b)].piece = b[Len(b)]
      BY <1>1, <2>2
    <2>4. QED
      BY <2>1, <2>2, <2>3
  <1>5. QED
    BY <1>3, <1>4

\* A message that has just reached its event leaves the buffer empty: it cannot
\* have reached it before.
LEMMA EmptiedStep ==
  ASSUME ReassemblyTyped, Accounted, WriteResponse, NEW b, FrameComes(b)
  PROVE  Emptied'
  <1>1. /\ Len(b) \in Nat /\ Len(b) > 0 /\ Len(heard) \in Nat
        /\ Len(heard') = Len(heard) + Len(b) /\ b \in Seq(Pieces) /\ b # <<>>
        /\ \A k \in 1..Len(b) : heard'[Len(heard) + k].piece = b[k]
        /\ \A i \in 1..Len(heard) : \A k \in 1..Len(b) :
             Later(heard[i].piece, b[k])
    BY FrameHeard
  <1>2. SUFFICES ASSUME Follows(Len(heard) + 1)' PROVE receiveBuffer' = <<>>
    BY DEF Emptied
  <1> DEFINE e == b[Len(b)]
  <1>3. /\ Len(b) \in 1..Len(b) /\ (Len(heard') + 1) - 1 = Len(heard) + Len(b)
        /\ Len(heard') + 1 # 1
    BY <1>1
  <1>4. heard'[Len(heard) + Len(b)].piece = e
    BY <1>1, <1>3
  <1>5. EndsMessage(e) /\ e.msg \in Range(dispatched')
    BY <1>2, <1>3, <1>4 DEF Follows, EndsMessage
  <1>6. CASE dispatched' = dispatched
    <2>1. PICK j \in 1..Len(heard) :
            heard[j].piece.msg = e.msg /\ EndsMessage(heard[j].piece)
      BY <1>5, <1>6 DEF Accounted
    <2>2. Later(heard[j].piece, e)
      BY <1>1, <1>3
    <2>3. e.msg \in Nat /\ e.part \in Nat
      <3>1. e \in Pieces
        BY <1>1, <1>3
      <3>2. QED
        BY <3>1, PieceFacts
    <2>4. QED
      BY <1>5, <2>1, <2>2, <2>3 DEF Later, EndsMessage
  <1>7. CASE dispatched' # dispatched
    BY <1>1, <1>7, DispatchFacts DEF FrameComes, ReassemblyTyped
  <1>8. QED
    BY <1>6, <1>7

\* A message that came right after one that reached its event, as far as it
\* was heard before the frame that holds its next piece.
LEMMA HeldBefore ==
  ASSUME ReassemblyTyped, Emptied, Begun, WriteResponse, NEW b, FrameComes(b),
         NEW p \in 1..(Len(heard) + 1), Follows(p), NEW n, NEW c \in Nat,
         c <= BufferLimit, Len(heard) + 1 - p < c,
         HeardRun(heard', p, n, c)
  PROVE  /\ Len(receiveBuffer) = (Len(heard) + 1) - p
         /\ RunOf(receiveBuffer, 0, n, c) /\ RunOf(b, Len(receiveBuffer), n, c)
  <1>0. \A i \in p..Len(heard') : heard'[i].piece = Piece(n, (i - p) + 1, c)
    BY DEF HeardRun
  <1>1. /\ Len(b) \in Nat /\ Len(b) > 0 /\ Len(heard) \in Nat
        /\ Len(heard') = Len(heard) + Len(b)
        /\ \A i \in 1..Len(heard) : heard'[i] = heard[i]
        /\ \A k \in 1..Len(b) : heard'[Len(heard) + k].piece = b[k]
    BY FrameHeard
  <1>2. /\ Len(receiveBuffer) = (Len(heard) + 1) - p
        /\ RunOf(receiveBuffer, 0, n, c)
    <2>1. CASE p = Len(heard) + 1
      <3>1. receiveBuffer = <<>>
        BY <2>1 DEF Emptied
      <3>2. Len(receiveBuffer) = 0
        BY <3>1
      <3>3. QED
        BY <1>1, <2>1, <3>2 DEF RunOf
    <2>2. CASE p # Len(heard) + 1
      <3>1. p \in 1..Len(heard)
        BY <1>1, <2>2
      <3>2. \A i \in p..Len(heard) :
              i \in 1..Len(heard) /\ i \in p..Len(heard')
        BY <1>1
      <3>3. \A i \in p..Len(heard) : heard[i].piece = Piece(n, (i - p) + 1, c)
        BY <1>0, <1>1, <3>2
      <3>4. heard[p].piece = Piece(n, 1, c)
        <4>1. p \in p..Len(heard) /\ (p - p) + 1 = 1
          BY <3>1
        <4>2. QED
          BY <3>3, <4>1
      <3>5. heard[p].piece.msg = n /\ heard[p].piece.of = c
        BY <3>4 DEF Piece
      <3>6. HeardRun(heard, p, n, c)
        BY <3>3 DEF HeardRun
      <3>7. (Len(heard) - p) + 1 < c /\ (Len(heard) - p) + 1 = (Len(heard) + 1) - p
        BY <1>1
      <3>8. QED
        BY <3>1, <3>5, <3>6, <3>7 DEF Begun
    <2>3. QED
      BY <2>1, <2>2
  <1>3. ASSUME NEW k \in 1..Len(b)
        PROVE  b[k] = Piece(n, Len(receiveBuffer) + k, c)
    <2>1. /\ Len(heard) + k \in p..Len(heard')
          /\ ((Len(heard) + k) - p) + 1 = Len(receiveBuffer) + k
      BY <1>1, <1>2
    <2>2. heard'[Len(heard) + k].piece = Piece(n, Len(receiveBuffer) + k, c)
      BY <1>0, <2>1
    <2>3. QED
      BY <1>1, <2>2
  <1>4. QED
    BY <1>2, <1>3 DEF RunOf

LEMMA BegunStep ==
  ASSUME ReassemblyTyped, Emptied, Begun, WriteResponse, NEW b, FrameComes(b)
  PROVE  Begun'
  <1>1. /\ Len(b) \in Nat /\ Len(b) > 0 /\ Len(heard) \in Nat
        /\ Len(heard') = Len(heard) + Len(b) /\ b \in Seq(Pieces) /\ b # <<>>
        /\ ReceiveMessage(b) /\ BufferTyped
    BY FrameHeard DEF FrameComes, ReassemblyTyped
  <1> SUFFICES ASSUME NEW p \in 1..Len(heard'), Follows(p)',
                      HeardRun(heard', p, heard'[p].piece.msg,
                               heard'[p].piece.of),
                      heard'[p].piece.of <= BufferLimit,
                      (Len(heard') - p) + 1 < heard'[p].piece.of
               PROVE  /\ Len(receiveBuffer') = (Len(heard') - p) + 1
                      /\ RunOf(receiveBuffer', 0, heard'[p].piece.msg,
                               heard'[p].piece.of)
    BY DEF Begun
  <1> DEFINE n == heard'[p].piece.msg
             c == heard'[p].piece.of
             r == receiveBuffer \o b
  <1>2. p \in 1..(Len(heard) + 1) /\ Follows(p)
    <2>1. p <= Len(heard) + 1 /\ Follows(p)
      BY FollowsBefore
    <2>2. QED
      BY <1>1, <2>1
  <1>3. c \in Nat
    <2>1. heard' \in Seq(Heard)
      BY StreamStep DEF Next, StreamTyped, ReassemblyTyped
    <2>2. heard'[p] \in Heard
      BY <2>1
    <2>3. heard'[p].piece \in Pieces
      BY <2>2 DEF Heard
    <2>4. QED
      BY <2>3, PieceFacts
  <1>4. HeardRun(heard', p, n, c)
    OBVIOUS
  <1>5. c <= BufferLimit /\ (Len(heard') - p) + 1 < c
    OBVIOUS
  <1> HIDE DEF n, c
  <1>6. /\ Len(receiveBuffer) = (Len(heard) + 1) - p
        /\ RunOf(receiveBuffer, 0, n, c) /\ RunOf(b, Len(receiveBuffer), n, c)
    <2>1. Len(heard) + 1 - p < c
      BY <1>1, <1>2, <1>3, <1>5
    <2>2. QED
      BY <1>2, <1>3, <1>4, <1>5, <2>1, HeldBefore
  <1>7. Len(receiveBuffer) + Len(b) < c
        /\ Len(receiveBuffer) + Len(b) = (Len(heard') - p) + 1
    BY <1>1, <1>2, <1>3, <1>5, <1>6
  <1>8. receiveBuffer' = r
    <2>1. Len(receiveBuffer) + Len(b) <= c
      BY <1>1, <1>3, <1>7
    <2>2. QED
      BY <1>1, <1>3, <1>5, <1>6, <1>7, <2>1, ReceiveRun
  <1>9. /\ Len(r) = Len(receiveBuffer) + Len(b)
        /\ Len(receiveBuffer) \in Nat
        /\ \A k \in 1..Len(receiveBuffer) : r[k] = receiveBuffer[k]
        /\ \A k \in 1..Len(b) : r[Len(receiveBuffer) + k] = b[k]
    BY <1>1, ConcatFacts DEF BufferTyped
  <1> HIDE DEF r
  <1>10. \A k \in 1..Len(r) : r[k] = Piece(n, k, c)
    <2> SUFFICES ASSUME NEW k \in 1..Len(r) PROVE r[k] = Piece(n, k, c)
      OBVIOUS
    <2>1. CASE k <= Len(receiveBuffer)
      BY <1>6, <1>9, <2>1 DEF RunOf
    <2>2. CASE k > Len(receiveBuffer)
      <3>1. /\ k - Len(receiveBuffer) \in 1..Len(b)
            /\ Len(receiveBuffer) + (k - Len(receiveBuffer)) = k
        BY <1>1, <1>9, <2>2
      <3>2. QED
        BY <1>6, <1>9, <3>1 DEF RunOf
    <2>3. QED
      BY <1>9, <2>1, <2>2
  <1>11. RunOf(r, 0, n, c)
    BY <1>9, <1>10 DEF RunOf
  <1>12. QED
    BY <1>7, <1>8, <1>9, <1>11 DEF n, c

\* What HeardWhole and InOneFrame say after a step.
LEMMA WholeAfter ==
  ASSUME NEW p \in Nat, HeardWhole(p)', heard'[p].piece.of \in Nat
  PROVE  /\ (p + heard'[p].piece.of) - 1 <= Len(heard')
         /\ \A k \in 1..heard'[p].piece.of :
              heard'[(p + k) - 1].piece
                = Piece(heard'[p].piece.msg, k, heard'[p].piece.of)
  <1>1. (p + heard'[p].piece.of) - 1 <= Len(heard')
    BY DEF HeardWhole
  <1>2. \A k \in 1..heard'[p].piece.of :
          heard'[(p + k) - 1].piece
            = Piece(heard'[p].piece.msg, k, heard'[p].piece.of)
    BY DEF HeardWhole
  <1>3. QED
    BY <1>1, <1>2

LEMMA OneFrameAfter ==
  ASSUME NEW p \in Nat, InOneFrame(p)', heard'[p].piece.of \in Nat
  PROVE  /\ p = 1 \/ heard'[p - 1].last
         /\ \A k \in 1..(heard'[p].piece.of - 1) : ~heard'[(p + k) - 1].last
  <1>1. p = 1 \/ heard'[p - 1].last
    BY Zenon DEF InOneFrame
  <1>2. \A k \in 1..(heard'[p].piece.of - 1) : ~heard'[(p + k) - 1].last
    BY DEF InOneFrame
  <1>3. QED
    BY <1>1, <1>2, Zenon

\* A whole message that was heard before this frame reached its event then, if
\* anything says that it must.
LEMMA ReassembledBefore ==
  ASSUME ReassemblyTyped, Reassembled, WriteResponse, NEW b, FrameComes(b),
         NEW p \in 1..Len(heard'), HeardWhole(p)',
         \/ InOneFrame(p)'
         \/ Follows(p)' /\ heard'[p].piece.of <= BufferLimit,
         heard'[p].piece.of \in Nat, heard'[p].piece.of > 0,
         (p + heard'[p].piece.of) - 1 <= Len(heard)
  PROVE  heard'[p].piece.msg \in Range(dispatched')
  <1> DEFINE m == heard'[p].piece
  <1>1. m.of \in Nat /\ m.of > 0 /\ (p + m.of) - 1 <= Len(heard) /\ p \in Nat
    OBVIOUS
  <1>2. \A k \in 1..m.of : heard'[(p + k) - 1].piece = Piece(m.msg, k, m.of)
    BY DEF HeardWhole
  <1> HIDE DEF m
  <1>3. Len(heard) \in Nat /\ \A i \in 1..Len(heard) : heard'[i] = heard[i]
    BY FrameHeard, Zenon
  <1>4. heard \in Seq(Heard) /\ DOMAIN heard = 1..Len(heard)
    BY DEF ReassemblyTyped, StreamTyped
  <1>5. p \in 1..Len(heard) /\ (p # 1 => p - 1 \in 1..Len(heard))
    BY <1>1, <1>3
  <1>6. heard[p].piece = m
    BY <1>3, <1>5 DEF m
  <1>7. \A k \in 1..m.of : (p + k) - 1 \in 1..Len(heard)
    BY <1>1, <1>3
  <1>8. HeardWhole(p)
    <2>1. \A k \in 1..m.of : heard[(p + k) - 1].piece = Piece(m.msg, k, m.of)
      BY <1>2, <1>3, <1>7
    <2>2. QED
      BY <1>1, <1>6, <2>1 DEF HeardWhole
  <1>9. ASSUME InOneFrame(p)' PROVE InOneFrame(p)
    <2>1. p = 1 \/ heard[p - 1].last
      <3>1. p = 1 \/ heard'[p - 1].last
        BY <1>9, Zenon DEF InOneFrame
      <3>2. p # 1 => heard'[p - 1] = heard[p - 1]
        BY <1>3, <1>5
      <3>3. QED
        BY <3>1, <3>2, Zenon
    <2>2. \A k \in 1..(m.of - 1) : ~heard[(p + k) - 1].last
      <3>1. \A k \in 1..(m.of - 1) : ~heard'[(p + k) - 1].last
        BY <1>9, OneFrameAfter DEF m
      <3>2. \A k \in 1..(m.of - 1) : heard'[(p + k) - 1] = heard[(p + k) - 1]
        <4>1. \A k \in 1..(m.of - 1) : k \in 1..m.of
          BY <1>1
        <4>2. QED
          BY <1>3, <1>7, <4>1
      <3>3. QED
        BY <3>1, <3>2, Zenon
    <2>3. QED
      <3>1. \A k \in 1..(heard[p].piece.of - 1) : ~heard[(p + k) - 1].last
        BY <1>6, <2>2
      <3>2. QED
        BY <2>1, <3>1 DEF InOneFrame
  <1>10. Follows(p)' => Follows(p)
    BY FollowsBefore
  <1>11. m.msg \in Range(dispatched)
    <2>1. InOneFrame(p) \/ (Follows(p) /\ heard[p].piece.of <= BufferLimit)
      BY <1>6, <1>9, <1>10, Zenon DEF m
    <2>2. QED
      BY <1>4, <1>5, <1>6, <1>8, <2>1, Zenon DEF Reassembled
  <1>12. \A d \in Range(dispatched) : d \in Range(dispatched')
    <2>1. b \in Seq(Pieces) /\ b # <<>>
      BY FrameHeard, Zenon
    <2>2. QED
      BY <2>1, DispatchFacts DEF FrameComes, ReassemblyTyped
  <1>13. QED
    BY <1>11, <1>12 DEF m

\* A message in one frame, which ends now, begins with this frame.
LEMMA OneFrameNow ==
  ASSUME ReassemblyTyped, WriteResponse, NEW b, FrameComes(b),
         NEW p \in 1..Len(heard'), InOneFrame(p)', NEW c \in Nat, c > 0,
         heard'[p].piece.of = c, (p + c) - 1 > Len(heard)
  PROVE  p = Len(heard) + 1
  <1>1. /\ Len(b) \in Nat /\ Len(b) > 0 /\ Len(heard) \in Nat
        /\ Len(heard') = Len(heard) + Len(b)
    BY FrameHeard, Zenon
  <1>2. /\ \A i \in 1..Len(heard) : heard'[i] = heard[i]
        /\ \A k \in 1..Len(b) : heard'[Len(heard) + k].last <=> k = Len(b)
        /\ Len(heard) > 0 => heard[Len(heard)].last
    BY FrameHeard, Zenon
  <1>3. /\ p = 1 \/ heard'[p - 1].last
        /\ \A k \in 1..(c - 1) : ~heard'[(p + k) - 1].last
    <2>1. p \in Nat
      BY <1>1
    <2>2. QED
      BY <2>1, OneFrameAfter, Zenon
  <1>4. CASE p <= Len(heard)
    <2> DEFINE k == (Len(heard) - p) + 1
    <2>1. /\ k \in 1..(c - 1) /\ (p + k) - 1 = Len(heard)
          /\ Len(heard) \in 1..Len(heard) /\ Len(heard) > 0
      BY <1>1, <1>4
    <2> HIDE DEF k
    <2>2. heard'[Len(heard)].last
      BY <1>2, <2>1, Zenon
    <2>3. ~heard'[(p + k) - 1].last
      BY <1>3, <2>1, Zenon
    <2>4. QED
      BY <2>1, <2>2, <2>3, Zenon
  <1>5. CASE p > Len(heard) + 1
    <2> DEFINE k == (p - 1) - Len(heard)
    <2>1. /\ k \in 1..Len(b) /\ Len(heard) + k = p - 1
          /\ k # Len(b) /\ p # 1
      BY <1>1, <1>5
    <2> HIDE DEF k
    <2>2. heard'[p - 1].last
      BY <1>3, <2>1, Zenon
    <2>3. ~heard'[Len(heard) + k].last
      BY <1>2, <2>1, Zenon
    <2>4. QED
      BY <2>1, <2>2, <2>3, Zenon
  <1>6. QED
    BY <1>1, <1>4, <1>5

LEMMA ReassembledStep ==
  ASSUME ReassemblyTyped, ReassemblyInv, WriteResponse, NEW b, FrameComes(b)
  PROVE  Reassembled'
  <1>1. /\ Len(b) \in Nat /\ Len(b) > 0 /\ Len(heard) \in Nat
        /\ Len(heard') = Len(heard) + Len(b)
    BY FrameHeard, Zenon
  <1>2. /\ b \in Seq(Pieces) /\ b # <<>>
        /\ \A k \in 1..Len(b) : heard'[Len(heard) + k].piece = b[k]
        /\ \A k \in 1..(Len(b) - 1) : ~EndsMessage(b[k])
    BY FrameHeard, Zenon
  <1>3. heard' \in Seq(Heard)
    BY StreamStep DEF Next, StreamTyped, ReassemblyTyped
  <1>4. ReceiveMessage(b) /\ BufferTyped /\ Emptied /\ Begun /\ Reassembled
    BY DEF FrameComes, ReassemblyTyped, ReassemblyInv
  <1> SUFFICES ASSUME NEW p \in 1..Len(heard'), HeardWhole(p)',
                      \/ InOneFrame(p)'
                      \/ Follows(p)' /\ heard'[p].piece.of <= BufferLimit
               PROVE  heard'[p].piece.msg \in Range(dispatched')
    <2>1. DOMAIN heard' = 1..Len(heard')
      BY <1>3
    <2>2. QED
      BY <2>1, Zenon DEF Reassembled
  <1> DEFINE n == heard'[p].piece.msg
             c == heard'[p].piece.of
  <1>5. n \in 1..MaxIncoming /\ c \in Nat /\ c > 0
    <2>1. heard'[p] \in Heard
      BY <1>3
    <2>2. heard'[p].piece \in Pieces
      BY <2>1 DEF Heard
    <2>3. n \in 1..MaxIncoming /\ c \in 1..MaxPieces
      BY <2>2 DEF Pieces
    <2>4. QED
      BY <2>3, BoundsAssumption DEF BoundsAssumption
  <1>6. /\ (p + c) - 1 <= Len(heard')
        /\ \A k \in 1..c : heard'[(p + k) - 1].piece = Piece(n, k, c)
    <2>1. p \in Nat
      BY <1>1
    <2>2. QED
      BY <1>5, <2>1, WholeAfter, Zenon
  <1>7. CASE (p + c) - 1 <= Len(heard)
    BY <1>4, <1>5, <1>7, ReassembledBefore
  <1>8. InOneFrame(p)' \/ (Follows(p)' /\ c <= BufferLimit)
    BY Zenon
  <1>9. heard'[p].piece.of = c
    OBVIOUS
  <1> HIDE DEF n, c
  <1>10. CASE (p + c) - 1 > Len(heard)
    <2>1. (p + c) - 1 = Len(heard')
      <3>1. SUFFICES ASSUME (p + c) - 1 < Len(heard') PROVE FALSE
        BY <1>1, <1>5, <1>6
      <3> DEFINE k == ((p + c) - 1) - Len(heard)
      <3>2. /\ k \in 1..(Len(b) - 1) /\ k \in 1..Len(b) /\ c \in 1..c
            /\ Len(heard) + k = (p + c) - 1
        BY <1>1, <1>5, <1>10, <3>1
      <3> HIDE DEF k
      <3>3. b[k] = Piece(n, c, c)
        BY <1>2, <1>6, <3>2
      <3>4. EndsMessage(b[k])
        BY <3>3 DEF EndsMessage, Piece
      <3>5. QED
        BY <1>2, <3>2, <3>4
    <2>2. CASE InOneFrame(p)'
      <3>1. p = Len(heard) + 1
        BY <1>5, <1>9, <1>10, <2>2, OneFrameNow
      <3>2. Len(b) = c
        BY <1>1, <1>5, <2>1, <3>1
      <3>3. \A k \in 1..Len(b) : b[k] = Piece(n, k, c)
        <4>1. \A k \in 1..Len(b) : (p + k) - 1 = Len(heard) + k
          BY <1>1, <3>1
        <4>2. QED
          BY <1>2, <1>6, <3>2, <4>1
      <3>4. Parses(b)
        <4>1. RunOf(b, 0, n, c)
          BY <1>1, <3>3 DEF RunOf
        <4>2. QED
          BY <1>2, <3>2, <4>1, ParsesRun
      <3>5. Dispatch(b)
        BY <1>4, <3>4 DEF ReceiveMessage, ReceiveWhole, ReceiveTooMuch,
          ReceiveRest, ReceiveFragment
      <3>6. b[1].msg = n
        <4>1. 1 \in 1..Len(b)
          BY <1>1
        <4>2. b[1] = Piece(n, 1, c)
          BY <3>3, <4>1
        <4>3. QED
          BY <4>2 DEF Piece
      <3>7. Range(Append(dispatched, n)) = Range(dispatched) \cup {n}
        BY <1>4, <1>5, RangeAppend DEF BufferTyped
      <3>8. n \in Range(dispatched')
        BY <3>5, <3>6, <3>7 DEF Dispatch
      <3>9. QED
        BY <3>8 DEF n
    <2>3. CASE Follows(p)' /\ c <= BufferLimit
      <3>1. p \in 1..(Len(heard) + 1) /\ Follows(p)
        <4>1. p <= Len(heard) + 1 /\ Follows(p)
          BY <2>3, FollowsBefore
        <4>2. QED
          BY <1>1, <4>1
      <3>2. HeardRun(heard', p, n, c)
        <4> SUFFICES ASSUME NEW i \in p..Len(heard')
                     PROVE  heard'[i].piece = Piece(n, (i - p) + 1, c)
          BY DEF HeardRun
        <4> DEFINE k == (i - p) + 1
        <4>1. k \in 1..c /\ (p + k) - 1 = i
          BY <1>1, <1>5, <2>1
        <4>2. heard'[(p + k) - 1].piece = Piece(n, k, c)
          BY <1>6, <4>1
        <4>3. QED
          BY <4>1, <4>2
      <3>3. Len(heard) + 1 - p < c
        BY <1>1, <1>5, <1>10
      <3>4. /\ Len(receiveBuffer) = (Len(heard) + 1) - p
            /\ RunOf(receiveBuffer, 0, n, c)
            /\ RunOf(b, Len(receiveBuffer), n, c)
        BY <1>4, <1>5, <2>3, <3>1, <3>2, <3>3, HeldBefore
      <3>5. /\ Len(receiveBuffer) + Len(b) = c
            /\ Len(receiveBuffer) + Len(b) <= c
        BY <1>1, <1>5, <2>1, <3>1, <3>4
      <3>6. n \in Range(dispatched')
        BY <1>2, <1>4, <1>5, <2>3, <3>4, <3>5, ReceiveRun
      <3>7. QED
        BY <3>6 DEF n
    <2>4. QED
      BY <1>8, <2>2, <2>3
  <1>11. QED
    BY <1>1, <1>5, <1>7, <1>10

LEMMA ReassemblyStep ==
  ASSUME TypeInv, ReassemblyInv, [Next]_vars
  PROVE  ReassemblyInv'
  <1>1. ReassemblyTyped
    BY DEF TypeInv, ReassemblyTyped
  <1>2. CASE UNCHANGED <<bufferVars, heard>>
    <2>1. UNCHANGED <<receiveBuffer, dispatched, heard>>
      BY <1>2 DEF bufferVars
    <2>2. QED
      BY <2>1 DEF ReassemblyInv, Accounted, Emptied, Begun, Reassembled, Follows,
        HeardRun, HeardWhole, InOneFrame
  <1>3. CASE WriteResponse
    <2>1. SUFFICES ASSUME ~UNCHANGED <<bufferVars, heard>>
                   PROVE  ReassemblyInv'
      BY <1>2
    <2>2. FrameComes(FrameOf(messageFragment, wire))
      BY <1>3, <2>1, WriteShape DEF FrameComes
    <2>3. Accounted' /\ Emptied' /\ Begun' /\ Reassembled'
      BY <1>1, <1>3, <2>2, AccountedStep, EmptiedStep, BegunStep,
        ReassembledStep DEF ReassemblyInv
    <2>4. QED
      BY <2>3 DEF ReassemblyInv
  <1>4. CASE ~WriteResponse
    <2>1. UNCHANGED <<bufferVars, heard>>
      BY <1>4 DEF Next, SendMessage, ReadHeader, FlushMessages, EndConnection,
        ReplaceConnection, ServerSends, vars, linkVars
    <2>2. QED
      BY <1>2, <2>1
  <1>5. QED
    BY <1>3, <1>4

LEMMA ReassemblyInit == Init => ReassemblyInv
  <1> SUFFICES ASSUME Init PROVE ReassemblyInv
    OBVIOUS
  <1>1. receiveBuffer = <<>> /\ dispatched = <<>> /\ heard = <<>>
    BY DEF Init, BufferInit
  <1>2. Range(dispatched) = {} /\ Len(heard) = 0 /\ DOMAIN heard = {}
    BY <1>1 DEF Range
  <1>3. QED
    BY <1>1, <1>2 DEF ReassemblyInv, Accounted, Emptied, Begun, Reassembled

\* A message all of whose bytes came in, one after the other, reaches its event
\* when it came in one frame, or fits in the buffer and came right after one
\* that did: for messages of any size, however they are cut in frames and
\* wherever connections end (src/gamelink.cpp:276-351).
THEOREM ReassembledHolds == Spec => []Reassembled
  <1>1. ReassemblyInv => Reassembled
    BY DEF ReassemblyInv
  <1>2. QED
    BY TypeInit, TypeStep, ReassemblyInit, ReassemblyStep, <1>1, PTL DEF Spec
=============================================================================
