---------------------------- MODULE SessionProofs ----------------------------
(***************************************************************************)
(* Proofs about Session: the server and the subscription sets agree, and   *)
(* the refresh token and the identity HandleReconnect would send with it   *)
(* belong together.                                                        *)
(*                                                                         *)
(* Authentications are under way in three places, behind one another: the  *)
(* answers, the wire and the queue.  An old one may be among them after    *)
(* the application has authenticated as somebody else, and HandleReconnect *)
(* puts one ahead of the queue.  What makes it come out right is their     *)
(* order: nothing behind the newest login has the identity of an older.    *)
(*                                                                         *)
(* For the subscriptions it is the last request about a topic that counts: *)
(* SyncInv says what the requests under way, in their order, will make of  *)
(* the topics the server has, with those that are still to be replayed.    *)
(***************************************************************************)
EXTENDS Session, SequenceTheorems, FiniteSetTheorems, TLAPS

\* The application uses the functions that take a game id, as gateway::SDK
\* does: the others leave the game id of an earlier login stored.
GamesNamed == \A who \in Identities : who.game # NoGame

IsSeq(s) == \E S : s \in Seq(S)

Auth(p) == p.op = "authenticate"

\* If p authenticates, it does as who.
Mine(p, who) == Auth(p) => p.identity = who

\* p is login n of the application.
Newest(p, n) == Auth(p) /\ p.login = n

\* Logins are numbered up to n; what comes with or after login n is who's; and
\* so is everything once that login has been answered.
Sorted(s, who, n, done) ==
  /\ IsSeq(s)
  /\ \A i \in 1..Len(s) : Auth(s[i]) => s[i].login \in 0..n
  /\ \A i, j \in 1..Len(s) : i <= j /\ Newest(s[i], n) => Mine(s[j], who)
  /\ done => \A i \in 1..Len(s) : Mine(s[i], who)

\* The same of s and what is behind it in t.
Ahead(s, t, who, n) ==
  \A i \in 1..Len(s), j \in 1..Len(t) : Newest(s[i], n) => Mine(t[j], who)

Pipeline(a, w, q, who, n, done) ==
  /\ Sorted(a, who, n, done) /\ Sorted(w, who, n, done) /\ Sorted(q, who, n, done)
  /\ Ahead(a, w, who, n) /\ Ahead(a, q, who, n) /\ Ahead(w, q, who, n)

IdentityInv ==
  /\ logins \in Nat /\ settled \in BOOLEAN /\ (logins = 0 => settled)
  /\ DOMAIN pc = {App, Net}
  /\ argument \in [topic : Topics \cup {None}, identity : Identities \cup {Nobody}]
  /\ pc[App] = "authenticate" => argument.identity = stored
  /\ \A i \in 1..Len(answers) : Auth(answers[i])
  /\ Pipeline(answers, wire, queue, stored, logins, settled)
  /\ settled => refresh \subseteq {stored}
-----------------------------------------------------------------------------
(* Sequences of anything.                                                   *)

LEMMA EmptyIsSeq == IsSeq(<<>>) /\ Len(<<>>) = 0
  <1>1. <<>> \in Seq({})
    BY EmptySeq
  <1>2. QED
    BY <1>1 DEF IsSeq

LEMMA LenNat ==
  ASSUME NEW s, IsSeq(s)
  PROVE  Len(s) \in Nat
  BY DEF IsSeq

LEMMA AppendIsSeq ==
  ASSUME NEW s, IsSeq(s), NEW e
  PROVE  /\ IsSeq(Append(s, e))
         /\ Len(Append(s, e)) = Len(s) + 1
         /\ \A i \in 1..Len(s) : Append(s, e)[i] = s[i]
         /\ Append(s, e)[Len(s) + 1] = e
  <1>1. PICK S : s \in Seq(S)
    BY DEF IsSeq
  <1> DEFINE T == S \cup {e}
  <1>2. s \in Seq(T) /\ e \in T
    BY <1>1, SeqMonotonic
  <1> HIDE DEF T
  <1>3. Append(s, e) \in Seq(T)
    BY <1>2
  <1>4. QED
    BY <1>2, <1>3 DEF IsSeq

LEMMA PrependIsSeq ==
  ASSUME NEW s, IsSeq(s), NEW e
  PROVE  /\ IsSeq(<<e>> \o s)
         /\ Len(<<e>> \o s) = Len(s) + 1
         /\ \A i \in 1..Len(s) : (<<e>> \o s)[i + 1] = s[i]
         /\ (<<e>> \o s)[1] = e
  <1>1. PICK S : s \in Seq(S)
    BY DEF IsSeq
  <1> DEFINE T == S \cup {e}
  <1>2. s \in Seq(T) /\ <<e>> \in Seq(T) /\ Len(<<e>>) = 1 /\ <<e>>[1] = e
    BY <1>1, SeqMonotonic
  <1> HIDE DEF T
  <1>3. /\ <<e>> \o s \in Seq(T)
        /\ Len(<<e>> \o s) = 1 + Len(s)
        /\ \A i \in 1..(1 + Len(s)) :
             (<<e>> \o s)[i] = IF i <= 1 THEN <<e>>[i] ELSE s[i - 1]
    BY <1>2, ConcatProperties
  <1>4. Len(s) \in Nat
    BY LenNat
  <1>5. QED
    BY <1>2, <1>3, <1>4 DEF IsSeq

LEMMA TailIsSeq ==
  ASSUME NEW s, IsSeq(s), s # <<>>
  PROVE  /\ IsSeq(Tail(s))
         /\ Len(s) \in Nat \ {0}
         /\ Len(Tail(s)) = Len(s) - 1
         /\ \A i \in 1..Len(Tail(s)) : Tail(s)[i] = s[i + 1]
         /\ Head(s) = s[1]
  <1>1. PICK S : s \in Seq(S)
    BY DEF IsSeq
  <1>2. QED
    BY <1>1, HeadTailProperties, EmptySeq DEF IsSeq
-----------------------------------------------------------------------------
(* One sequence, and two behind one another.                                *)

LEMMA SortedEmpty ==
  ASSUME NEW who, NEW n, NEW done
  PROVE  /\ Sorted(<<>>, who, n, done)
         /\ \A t : Ahead(<<>>, t, who, n)
  BY EmptyIsSeq DEF Sorted, Ahead

LEMMA SortedAppend ==
  ASSUME NEW s, NEW e, NEW who, NEW n, NEW done, Sorted(s, who, n, done),
         Auth(e) => e.login \in 0..n,
         \A i \in 1..Len(s) : Newest(s[i], n) => Mine(e, who),
         done => Mine(e, who),
         Newest(e, n) => Mine(e, who)
  PROVE  Sorted(Append(s, e), who, n, done)
  <1> DEFINE r == Append(s, e)
  <1>1. /\ IsSeq(r) /\ Len(s) \in Nat /\ Len(r) = Len(s) + 1
        /\ \A i \in 1..Len(s) : r[i] = s[i]
        /\ r[Len(s) + 1] = e
    BY AppendIsSeq, LenNat DEF Sorted
  <1> HIDE DEF r
  <1>2. \A i \in 1..Len(r) : \/ i \in 1..Len(s) /\ r[i] = s[i]
                             \/ i = Len(s) + 1 /\ r[i] = e
    BY <1>1
  <1>3. \A i \in 1..Len(r) : Auth(r[i]) => r[i].login \in 0..n
    BY <1>2 DEF Sorted
  <1>4. ASSUME NEW i \in 1..Len(r), NEW j \in 1..Len(r), i <= j, Newest(r[i], n)
        PROVE  Mine(r[j], who)
    <2>1. CASE j \in 1..Len(s)
      <3>1. i \in 1..Len(s)
        BY <1>1, <1>4, <2>1
      <3>2. QED
        BY <1>1, <1>4, <2>1, <3>1 DEF Sorted
    <2>2. CASE j = Len(s) + 1
      BY <1>2, <1>1, <1>4, <2>2
    <2>3. QED
      BY <1>2, <2>1, <2>2
  <1>5. done => \A i \in 1..Len(r) : Mine(r[i], who)
    BY <1>2 DEF Sorted
  <1>6. Sorted(r, who, n, done)
    BY <1>1, <1>3, <1>4, <1>5 DEF Sorted
  <1>7. QED
    BY <1>6 DEF r

LEMMA SortedPrepend ==
  ASSUME NEW s, NEW e, NEW who, NEW n, NEW done, Sorted(s, who, n, done),
         Auth(e) => e.login \in 0..n,
         Mine(e, who),
         Newest(e, n) => \A i \in 1..Len(s) : Mine(s[i], who)
  PROVE  Sorted(<<e>> \o s, who, n, done)
  <1> DEFINE r == <<e>> \o s
  <1>1. /\ IsSeq(r) /\ Len(s) \in Nat /\ Len(r) = Len(s) + 1
        /\ \A i \in 1..Len(s) : r[i + 1] = s[i]
        /\ r[1] = e
    BY PrependIsSeq, LenNat DEF Sorted
  <1> HIDE DEF r
  <1>2. \A i \in 1..Len(r) : \/ i = 1 /\ r[i] = e
                             \/ i - 1 \in 1..Len(s) /\ r[i] = s[i - 1]
    <2>1. SUFFICES ASSUME NEW i \in 1..Len(r), i # 1
                   PROVE  i - 1 \in 1..Len(s) /\ r[i] = s[i - 1]
      BY <1>1
    <2>2. i - 1 \in 1..Len(s) /\ (i - 1) + 1 = i
      BY <1>1, <2>1
    <2>3. QED
      BY <1>1, <2>2
  <1>3. \A i \in 1..Len(r) : Auth(r[i]) => r[i].login \in 0..n
    BY <1>2 DEF Sorted
  <1>4. ASSUME NEW i \in 1..Len(r), NEW j \in 1..Len(r), i <= j, Newest(r[i], n)
        PROVE  Mine(r[j], who)
    <2>1. CASE j = 1
      BY <1>1, <2>1
    <2>2. CASE j # 1 /\ i = 1
      BY <1>1, <1>2, <1>4, <2>2
    <2>3. CASE j # 1 /\ i # 1
      <3>1. /\ i - 1 \in 1..Len(s) /\ r[i] = s[i - 1]
            /\ j - 1 \in 1..Len(s) /\ r[j] = s[j - 1]
        BY <1>2, <2>3
      <3>2. i - 1 <= j - 1
        BY <1>4, <1>1
      <3>3. QED
        BY <1>4, <3>1, <3>2 DEF Sorted
    <2>4. QED
      BY <2>1, <2>2, <2>3
  <1>5. done => \A i \in 1..Len(r) : Mine(r[i], who)
    BY <1>2 DEF Sorted
  <1>6. Sorted(r, who, n, done)
    BY <1>1, <1>3, <1>4, <1>5 DEF Sorted
  <1>7. QED
    BY <1>6 DEF r

LEMMA SortedTail ==
  ASSUME NEW s, NEW who, NEW n, NEW done, Sorted(s, who, n, done), s # <<>>
  PROVE  Sorted(Tail(s), who, n, done)
  <1> DEFINE r == Tail(s)
  <1>1. /\ IsSeq(r) /\ Len(s) \in Nat \ {0} /\ Len(r) = Len(s) - 1
        /\ \A i \in 1..Len(r) : r[i] = s[i + 1]
    BY TailIsSeq DEF Sorted
  <1> HIDE DEF r
  <1>2. \A i \in 1..Len(r) : i + 1 \in 1..Len(s) /\ r[i] = s[i + 1]
    BY <1>1
  <1>3. ASSUME NEW i \in 1..Len(r), NEW j \in 1..Len(r), i <= j, Newest(r[i], n)
        PROVE  Mine(r[j], who)
    <2>1. i + 1 <= j + 1
      BY <1>3
    <2>2. QED
      BY <1>2, <1>3, <2>1 DEF Sorted
  <1>4. Sorted(r, who, n, done)
    BY <1>1, <1>2, <1>3 DEF Sorted
  <1>5. QED
    BY <1>4 DEF r

LEMMA AheadAppend ==
  ASSUME NEW s, NEW t, NEW e, NEW who, NEW n, IsSeq(s), IsSeq(t),
         Ahead(s, t, who, n)
  PROVE  /\ (\A i \in 1..Len(s) : Newest(s[i], n) => Mine(e, who))
              => Ahead(s, Append(t, e), who, n)
         /\ (Newest(e, n) => \A j \in 1..Len(t) : Mine(t[j], who))
              => Ahead(Append(s, e), t, who, n)
  <1>1. /\ Len(s) \in Nat /\ Len(Append(s, e)) = Len(s) + 1
        /\ \A i \in 1..Len(s) : Append(s, e)[i] = s[i]
        /\ Append(s, e)[Len(s) + 1] = e
    BY AppendIsSeq, LenNat
  <1>2. /\ Len(t) \in Nat /\ Len(Append(t, e)) = Len(t) + 1
        /\ \A i \in 1..Len(t) : Append(t, e)[i] = t[i]
        /\ Append(t, e)[Len(t) + 1] = e
    BY AppendIsSeq, LenNat
  <1>3. \A i \in 1..(Len(s) + 1) : i \in 1..Len(s) \/ i = Len(s) + 1
    BY <1>1
  <1>4. \A i \in 1..(Len(t) + 1) : i \in 1..Len(t) \/ i = Len(t) + 1
    BY <1>2
  <1>5. QED
    BY <1>1, <1>2, <1>3, <1>4 DEF Ahead

LEMMA AheadPrepend ==
  ASSUME NEW s, NEW t, NEW e, NEW who, NEW n, IsSeq(t), Ahead(s, t, who, n),
         Mine(e, who)
  PROVE  Ahead(s, <<e>> \o t, who, n)
  <1> DEFINE r == <<e>> \o t
  <1>1. /\ Len(t) \in Nat /\ Len(r) = Len(t) + 1
        /\ \A i \in 1..Len(t) : r[i + 1] = t[i]
        /\ r[1] = e
    BY PrependIsSeq, LenNat
  <1> HIDE DEF r
  <1>2. ASSUME NEW i \in 1..Len(s), NEW j \in 1..Len(r), Newest(s[i], n)
        PROVE  Mine(r[j], who)
    <2>1. CASE j = 1
      BY <1>1, <2>1
    <2>2. CASE j # 1
      <3>1. j - 1 \in 1..Len(t) /\ (j - 1) + 1 = j
        BY <1>1, <2>2
      <3>2. QED
        BY <1>1, <1>2, <3>1 DEF Ahead
    <2>3. QED
      BY <2>1, <2>2
  <1>3. QED
    BY <1>2 DEF Ahead, r

LEMMA AheadTail ==
  ASSUME NEW s, NEW t, NEW who, NEW n, Ahead(s, t, who, n)
  PROVE  /\ IsSeq(s) /\ s # <<>> => Ahead(Tail(s), t, who, n)
         /\ IsSeq(t) /\ t # <<>> => Ahead(s, Tail(t), who, n)
  <1>1. ASSUME IsSeq(s), s # <<>>
        PROVE  \A i \in 1..Len(Tail(s)) : i + 1 \in 1..Len(s) /\ Tail(s)[i] = s[i + 1]
    BY <1>1, TailIsSeq
  <1>2. ASSUME IsSeq(t), t # <<>>
        PROVE  \A i \in 1..Len(Tail(t)) : i + 1 \in 1..Len(t) /\ Tail(t)[i] = t[i + 1]
    BY <1>2, TailIsSeq
  <1>3. QED
    BY <1>1, <1>2 DEF Ahead
-----------------------------------------------------------------------------
(* What the steps of Session do to the authentications under way.           *)

\* A payload that is queued: another kind of request, or an authentication as
\* who.
LEMMA PipelineAppend ==
  ASSUME NEW a, NEW w, NEW q, NEW who, NEW n, NEW done, NEW e,
         Pipeline(a, w, q, who, n, done),
         Auth(e) => e.login \in 0..n, Mine(e, who)
  PROVE  Pipeline(a, w, Append(q, e), who, n, done)
  <1>1. Sorted(Append(q, e), who, n, done)
    BY SortedAppend DEF Pipeline
  <1>2. Ahead(a, Append(q, e), who, n) /\ Ahead(w, Append(q, e), who, n)
    BY AheadAppend DEF Pipeline, Sorted
  <1>3. QED
    BY <1>1, <1>2 DEF Pipeline

\* The authentication of HandleReconnect, ahead of the queue.
LEMMA PipelinePrepend ==
  ASSUME NEW a, NEW w, NEW q, NEW who, NEW n, NEW done, NEW e,
         Pipeline(a, w, q, who, n, done),
         Auth(e) => e.login \in 0..n, Mine(e, who), Newest(e, n) => done = TRUE
  PROVE  Pipeline(a, w, <<e>> \o q, who, n, done)
  <1>1. Newest(e, n) => \A i \in 1..Len(q) : Mine(q[i], who)
    BY DEF Pipeline, Sorted
  <1>2. Sorted(<<e>> \o q, who, n, done)
    BY <1>1, SortedPrepend DEF Pipeline
  <1>3. Ahead(a, <<e>> \o q, who, n) /\ Ahead(w, <<e>> \o q, who, n)
    BY AheadPrepend DEF Pipeline, Sorted
  <1>4. QED
    BY <1>2, <1>3 DEF Pipeline

\* The front of the queue is sent, or lost.
LEMMA PipelineSend ==
  ASSUME NEW a, NEW w, NEW q, NEW who, NEW n, NEW done,
         Pipeline(a, w, q, who, n, done), q # <<>>
  PROVE  /\ Pipeline(a, Append(w, Head(q)), Tail(q), who, n, done)
         /\ Pipeline(a, w, Tail(q), who, n, done)
  <1> DEFINE e == Head(q)
  <1>1. e = q[1] /\ 1 \in 1..Len(q)
    BY TailIsSeq DEF Pipeline, Sorted
  <1>2. /\ Auth(e) => e.login \in 0..n
        /\ done => Mine(e, who)
        /\ Newest(e, n) => Mine(e, who)
        /\ \A i \in 1..Len(w) : Newest(w[i], n) => Mine(e, who)
        /\ \A i \in 1..Len(a) : Newest(a[i], n) => Mine(e, who)
    BY <1>1 DEF Pipeline, Sorted, Ahead
  <1>3. /\ Sorted(Tail(q), who, n, done)
        /\ Ahead(a, Tail(q), who, n) /\ Ahead(w, Tail(q), who, n)
    BY SortedTail, AheadTail DEF Pipeline, Sorted
  <1>4. Newest(e, n) => \A j \in 1..Len(Tail(q)) : Mine(Tail(q)[j], who)
    <2>1. /\ Len(q) \in Nat /\ Len(Tail(q)) = Len(q) - 1
          /\ \A j \in 1..Len(Tail(q)) : Tail(q)[j] = q[j + 1]
      BY TailIsSeq DEF Pipeline, Sorted
    <2>2. \A j \in 1..Len(Tail(q)) : j + 1 \in 1..Len(q) /\ 1 <= j + 1
      BY <2>1
    <2>3. QED
      BY <1>1, <2>1, <2>2 DEF Pipeline, Sorted
  <1> HIDE DEF e
  <1>5. Sorted(Append(w, e), who, n, done)
    BY <1>2, SortedAppend DEF Pipeline
  <1>6. Ahead(a, Append(w, e), who, n)
    BY <1>2, AheadAppend DEF Pipeline, Sorted
  <1>7. Ahead(Append(w, e), Tail(q), who, n)
    BY <1>2, <1>3, <1>4, AheadAppend DEF Pipeline, Sorted
  <1>8. QED
    BY <1>3, <1>5, <1>6, <1>7 DEF Pipeline, e

\* The server does the first request, and answers it or does not.
LEMMA PipelineServe ==
  ASSUME NEW a, NEW w, NEW q, NEW who, NEW n, NEW done,
         Pipeline(a, w, q, who, n, done), w # <<>>
  PROVE  /\ Pipeline(Append(a, Head(w)), Tail(w), q, who, n, done)
         /\ Pipeline(a, Tail(w), q, who, n, done)
  <1> DEFINE e == Head(w)
  <1>1. e = w[1] /\ 1 \in 1..Len(w)
    BY TailIsSeq DEF Pipeline, Sorted
  <1>2. /\ Auth(e) => e.login \in 0..n
        /\ done => Mine(e, who)
        /\ Newest(e, n) => Mine(e, who)
        /\ \A i \in 1..Len(a) : Newest(a[i], n) => Mine(e, who)
        /\ Newest(e, n) => \A j \in 1..Len(q) : Mine(q[j], who)
    BY <1>1 DEF Pipeline, Sorted, Ahead
  <1>3. /\ Sorted(Tail(w), who, n, done)
        /\ Ahead(a, Tail(w), who, n) /\ Ahead(Tail(w), q, who, n)
    BY SortedTail, AheadTail DEF Pipeline, Sorted
  <1>4. Newest(e, n) => \A j \in 1..Len(Tail(w)) : Mine(Tail(w)[j], who)
    <2>1. /\ Len(w) \in Nat /\ Len(Tail(w)) = Len(w) - 1
          /\ \A j \in 1..Len(Tail(w)) : Tail(w)[j] = w[j + 1]
      BY TailIsSeq DEF Pipeline, Sorted
    <2>2. \A j \in 1..Len(Tail(w)) : j + 1 \in 1..Len(w) /\ 1 <= j + 1
      BY <2>1
    <2>3. QED
      BY <1>1, <2>1, <2>2 DEF Pipeline, Sorted
  <1> HIDE DEF e
  <1>5. Sorted(Append(a, e), who, n, done)
    BY <1>2, SortedAppend DEF Pipeline
  <1>6. Ahead(Append(a, e), q, who, n)
    BY <1>2, AheadAppend DEF Pipeline, Sorted
  <1>7. Ahead(Append(a, e), Tail(w), who, n)
    BY <1>2, <1>3, <1>4, AheadAppend DEF Pipeline, Sorted
  <1>8. QED
    BY <1>3, <1>5, <1>6, <1>7 DEF Pipeline, e

\* The first answer is received; if it is that of the newest login, the
\* application is who from now on.
LEMMA PipelineReceive ==
  ASSUME NEW a, NEW w, NEW q, NEW who, NEW n, NEW done \in BOOLEAN,
         Pipeline(a, w, q, who, n, done), a # <<>>, Auth(Head(a)),
         NEW now \in BOOLEAN, now <=> (done \/ Head(a).login = n)
  PROVE  /\ Pipeline(Tail(a), w, q, who, n, now)
         /\ now => Head(a).identity = who
  <1>1. Head(a) = a[1] /\ 1 \in 1..Len(a)
    BY TailIsSeq DEF Pipeline, Sorted
  <1>2. /\ Sorted(Tail(a), who, n, done)
        /\ Ahead(Tail(a), w, who, n) /\ Ahead(Tail(a), q, who, n)
    BY SortedTail, AheadTail DEF Pipeline, Sorted
  <1>3. /\ Len(a) \in Nat /\ Len(Tail(a)) = Len(a) - 1
        /\ \A j \in 1..Len(Tail(a)) : Tail(a)[j] = a[j + 1]
    BY TailIsSeq DEF Pipeline, Sorted
  <1>4. ASSUME now
        PROVE  /\ \A i \in 1..Len(a) : Mine(a[i], who)
               /\ \A i \in 1..Len(w) : Mine(w[i], who)
               /\ \A i \in 1..Len(q) : Mine(q[i], who)
    <2>1. CASE done
      BY <2>1 DEF Pipeline, Sorted
    <2>2. CASE Head(a).login = n
      <3>1. Newest(a[1], n) /\ \A i \in 1..Len(a) : 1 <= i
        BY <1>1, <2>2 DEF Newest
      <3>2. QED
        BY <1>1, <3>1 DEF Pipeline, Sorted, Ahead
    <2>3. QED
      BY <1>4, <2>1, <2>2
  <1>5. now => \A j \in 1..Len(Tail(a)) : Mine(Tail(a)[j], who)
    <2>1. \A j \in 1..Len(Tail(a)) : j + 1 \in 1..Len(a)
      BY <1>3
    <2>2. QED
      BY <1>3, <1>4, <2>1
  <1>6. /\ Sorted(Tail(a), who, n, now) /\ Sorted(w, who, n, now)
        /\ Sorted(q, who, n, now)
    BY <1>2, <1>4, <1>5 DEF Pipeline, Sorted
  <1>7. now => Head(a).identity = who
    BY <1>1, <1>4 DEF Mine
  <1>8. QED
    BY <1>2, <1>6, <1>7 DEF Pipeline

\* A new login: none that is under way is the newest.
LEMMA PipelineLogin ==
  ASSUME NEW a, NEW w, NEW q, NEW who, NEW n \in Nat, NEW done, NEW whom,
         Pipeline(a, w, q, who, n, done)
  PROVE  Pipeline(a, w, q, whom, n + 1, FALSE)
  <1>1. \A p : Auth(p) /\ p.login \in 0..n => /\ p.login \in 0..(n + 1)
                                              /\ ~Newest(p, n + 1)
    BY DEF Newest
  <1>2. ASSUME NEW s, Sorted(s, who, n, done)
        PROVE  /\ Sorted(s, whom, n + 1, FALSE)
               /\ \A t : Ahead(s, t, whom, n + 1)
    BY <1>1, <1>2 DEF Sorted, Ahead, Newest
  <1>3. QED
    BY <1>2 DEF Pipeline

\* The connection is lost with all that was on its way.
LEMMA PipelineForget ==
  ASSUME NEW a, NEW w, NEW q, NEW who, NEW n, NEW done,
         Pipeline(a, w, q, who, n, done)
  PROVE  Pipeline(<<>>, <<>>, q, who, n, done)
  BY SortedEmpty DEF Pipeline
-----------------------------------------------------------------------------
(* IdentityInv is inductive.                                                *)

\* The variables of IdentityInv, but for the queue and pc.
placeVars == <<stored, refresh, logins, settled, answers, wire>>

\* A thread goes on in a function; a payload may be queued meanwhile.
LEMMA KeptInv ==
  ASSUME IdentityInv, UNCHANGED <<stored, refresh, logins, settled>>,
         argument' \in [topic : Topics \cup {None}, identity : Identities \cup {Nobody}],
         DOMAIN pc' = {App, Net},
         pc'[App] = "authenticate" =>
           pc[App] = "authenticate" /\ argument' = argument,
         \A i \in 1..Len(answers') : Auth(answers'[i]),
         Pipeline(answers', wire', queue', stored, logins, settled)
  PROVE  IdentityInv'
  BY DEF IdentityInv

LEMMA GotoFacts ==
  ASSUME DOMAIN pc = {App, Net}, NEW where
  PROVE  /\ Goto(App, where) => DOMAIN pc' = {App, Net} /\ pc'[App] = where
         /\ Goto(Net, where) => DOMAIN pc' = {App, Net} /\ pc'[App] \in {pc[App], where}
  BY DEF Goto

LEMMA IdentityInit == Init => IdentityInv
  <1> SUFFICES ASSUME Init
               PROVE  IdentityInv
    OBVIOUS
  <1>1. Pipeline(<<>>, <<>>, <<>>, stored, 0, TRUE)
    BY SortedEmpty DEF Pipeline
  <1>2. /\ logins = 0 /\ settled = TRUE /\ refresh = {}
        /\ answers = <<>> /\ wire = <<>> /\ queue = <<>>
        /\ DOMAIN pc = {App, Net} /\ pc[App] = "idle"
        /\ argument = [topic |-> None, identity |-> Nobody]
    BY DEF Init, NoArgument
  <1>3. Pipeline(answers, wire, queue, stored, logins, settled)
    BY <1>1, <1>2
  <1>4. \A i \in 1..Len(answers) : Auth(answers[i])
    BY <1>2
  <1>5. argument \in [topic : Topics \cup {None}, identity : Identities \cup {Nobody}]
    BY <1>2
  <1>6. logins \in Nat /\ settled \in BOOLEAN /\ (logins = 0 => settled)
    BY <1>2
  <1>7. /\ pc[App] = "authenticate" => argument.identity = stored
        /\ settled => refresh \subseteq {stored}
    BY <1>2
  <1>8. QED
    BY <1>2, <1>3, <1>4, <1>5, <1>6, <1>7 DEF IdentityInv

\* What queues no authentication.
LEMMA OtherCalls ==
  ASSUME IdentityInv,
         \/ \E topic \in Topics : BeginSubscribe(topic) \/ BeginUnsubscribe(topic)
         \/ PushSubscribe \/ RegisterTopic \/ PushUnsubscribe
         \/ Deauthenticate
         \/ Replay \/ PushReplayed
  PROVE  IdentityInv'
  <1> USE DEF IdentityInv
  <1>0. \A op \in {"subscribe", "unsubscribe"} : \A topic :
          ~Auth(Subscription(op, topic))
    BY DEF Auth, Subscription
  <1>1. ASSUME NEW op \in {"subscribe", "unsubscribe"}, NEW topic,
               QueuePayload(Subscription(op, topic))
        PROVE  Pipeline(answers, wire, queue', stored, logins, settled)
    <2>1. Pipeline(answers, wire, Append(queue, Subscription(op, topic)),
                   stored, logins, settled)
      BY <1>0, PipelineAppend DEF Mine
    <2>2. QED
      BY <1>1, <2>1 DEF QueuePayload
  <1>2. ASSUME NEW topic \in Topics, BeginSubscribe(topic) \/ BeginUnsubscribe(topic)
        PROVE  IdentityInv'
    <2>1. \E where \in {"subscribe", "unsubscribe"} : Goto(App, where)
      BY <1>2 DEF BeginSubscribe, BeginUnsubscribe
    <2>2. DOMAIN pc' = {App, Net} /\ pc'[App] # "authenticate"
      BY <2>1, GotoFacts
    <2>3. argument' \in [topic : Topics \cup {None},
                         identity : Identities \cup {Nobody}]
      BY <1>2 DEF BeginSubscribe, BeginUnsubscribe, BeginCall
    <2>4. UNCHANGED <<stored, refresh, logins, settled, answers, wire, queue>>
      BY <1>2 DEF BeginSubscribe, BeginUnsubscribe, identityVars, linkVars
    <2>5. QED
      BY <2>2, <2>3, <2>4, KeptInv
  <1>3. ASSUME Return
        PROVE  /\ argument' \in [topic : Topics \cup {None},
                                 identity : Identities \cup {Nobody}]
               /\ DOMAIN pc' = {App, Net} /\ pc'[App] = "idle"
    BY <1>3, GotoFacts DEF Return, NoArgument
  <1>4. CASE PushSubscribe
    <2>1. Pipeline(answers, wire, queue', stored, logins, settled)
      BY <1>1, <1>4 DEF PushSubscribe
    <2>2. QED
      <3>1. DOMAIN pc' = {App, Net} /\ pc'[App] # "authenticate"
        BY <1>4, GotoFacts DEF PushSubscribe
      <3>2. UNCHANGED <<stored, refresh, logins, settled, answers, wire, argument>>
        BY <1>4 DEF PushSubscribe, identityVars, linkVars, countVars
      <3>3. QED
        BY <2>1, <3>1, <3>2, KeptInv
  <1>5. CASE RegisterTopic
    BY <1>3, <1>5, KeptInv DEF RegisterTopic, identityVars, linkVars, countVars
  <1>6. CASE PushUnsubscribe
    <2>1. Pipeline(answers, wire, queue', stored, logins, settled)
      BY <1>1, <1>6 DEF PushUnsubscribe
    <2>2. QED
      BY <1>3, <1>6, <2>1, KeptInv
      DEF PushUnsubscribe, identityVars, linkVars, countVars
  <1>7. CASE Deauthenticate
    BY <1>7, KeptInv DEF Deauthenticate, threadVars, linkVars, countVars
  <1>8. ASSUME Replay
        PROVE  /\ DOMAIN pc' = {App, Net}
               /\ pc'[App] = "authenticate" => pc[App] = "authenticate"
    <2>1. pc' = pc \/ \E where \in {"push", "idle"} : Goto(Net, where)
      BY <1>8 DEF Replay, ReplayEntry, ReplaySkip
    <2>2. QED
      BY <2>1, GotoFacts
  <1>9. CASE Replay
    BY <1>8, <1>9, KeptInv DEF Replay, identityVars, linkVars, countVars
  <1>10. CASE PushReplayed
    <2>1. Pipeline(answers, wire, queue', stored, logins, settled)
      BY <1>1, <1>10 DEF PushReplayed
    <2>2. QED
      <3>1. /\ DOMAIN pc' = {App, Net}
            /\ pc'[App] = "authenticate" => pc[App] = "authenticate"
        BY <1>10, GotoFacts DEF PushReplayed
      <3>2. UNCHANGED <<stored, refresh, logins, settled, answers, wire, argument>>
        BY <1>10 DEF PushReplayed, identityVars, linkVars, countVars
      <3>3. QED
        BY <2>1, <3>1, <3>2, KeptInv
  <1>11. QED
    BY <1>2, <1>4, <1>5, <1>6, <1>7, <1>9, <1>10

\* The application authenticates.
LEMMA LoginCalls ==
  ASSUME GamesNamed, IdentityInv,
         (\E who \in Identities : BeginAuthenticate(who)) \/ PushAuthenticate
  PROVE  IdentityInv'
  <1> USE DEF IdentityInv
  <1>1. ASSUME NEW who \in Identities, BeginAuthenticate(who)
        PROVE  IdentityInv'
    <2>1. stored' = who
      BY <1>1, IdentitiesAssumption DEF BeginAuthenticate, Store, GamesNamed
    <2>2. /\ argument'.identity = who
          /\ argument' \in [topic : Topics \cup {None},
                            identity : Identities \cup {Nobody}]
      BY <1>1 DEF BeginAuthenticate
    <2>3. Pipeline(answers, wire, queue, stored', logins + 1, FALSE)
      BY PipelineLogin
    <2>4. DOMAIN pc' = {App, Net}
      BY <1>1, GotoFacts DEF BeginAuthenticate
    <2>5. /\ logins' = logins + 1 /\ settled' = FALSE
          /\ UNCHANGED <<answers, wire, queue>>
      BY <1>1 DEF BeginAuthenticate, linkVars
    <2>6. Pipeline(answers', wire', queue', stored', logins', settled')
      BY <2>3, <2>5
    <2>7. logins' \in Nat /\ logins' # 0
      BY <2>5
    <2>8. \A i \in 1..Len(answers') : Auth(answers'[i])
      BY <2>5
    <2>9. settled' \in BOOLEAN /\ (logins' = 0 => settled')
          /\ (settled' => refresh' \subseteq {stored'})
      BY <2>5, <2>7
    <2>10. QED
      BY <2>1, <2>2, <2>4, <2>6, <2>7, <2>8, <2>9
  <1>2. CASE PushAuthenticate
    <2> DEFINE e == Authentication(argument.identity, {}, logins)
    <2>1. argument.identity = stored
      BY <1>2 DEF PushAuthenticate
    <2>2. (Auth(e) => e.login \in 0..logins) /\ Mine(e, stored)
      BY <2>1 DEF Authentication, Mine
    <2> HIDE DEF e
    <2>3. Pipeline(answers, wire, Append(queue, e), stored, logins, settled)
      BY <2>2, PipelineAppend
    <2>4. /\ argument' \in [topic : Topics \cup {None},
                            identity : Identities \cup {Nobody}]
          /\ DOMAIN pc' = {App, Net} /\ pc'[App] = "idle"
      BY <1>2, GotoFacts DEF PushAuthenticate, Return, NoArgument
    <2>5. QED
      BY <1>2, <2>3, <2>4, KeptInv
      DEF PushAuthenticate, QueuePayload, identityVars, linkVars, countVars, e
  <1>3. QED
    BY <1>1, <1>2

\* HandleReconnect, and what moves payloads towards the server and back.
LEMMA Movements ==
  ASSUME IdentityInv,
         \/ ReceiveAuthenticated \/ HandleReconnect \/ SendPayload
         \/ ServeAuthentication \/ ServeSubscription
         \/ Disconnect \/ Reconnect
  PROVE  IdentityInv'
  <1> USE DEF IdentityInv
  <1>0. IsSeq(answers) /\ IsSeq(wire) /\ IsSeq(queue)
    BY DEF Pipeline, Sorted
  <1>1. CASE ReceiveAuthenticated
    <2> DEFINE now == (settled \/ Head(answers).login = logins)
    <2>1. answers # <<>> /\ Auth(Head(answers))
      BY <1>0, <1>1, TailIsSeq DEF ReceiveAuthenticated
    <2>2. /\ Pipeline(Tail(answers), wire, queue, stored, logins, now)
          /\ now => Head(answers).identity = stored
      <3>1. /\ now \in BOOLEAN /\ settled \in BOOLEAN
            /\ now <=> (settled \/ Head(answers).login = logins)
            /\ Pipeline(answers, wire, queue, stored, logins, settled)
        OBVIOUS
      <3> HIDE DEF now, IdentityInv
      <3>2. QED
        BY <2>1, <3>1, PipelineReceive
    <2>3. \A i \in 1..Len(Tail(answers)) : Auth(Tail(answers)[i])
      BY <1>0, <2>1, TailIsSeq
    <2>4. /\ answers' = Tail(answers) /\ settled' = now
          /\ refresh' = {Head(answers).identity}
          /\ UNCHANGED <<stored, queue, pc, argument, wire, logins>>
      BY <1>1 DEF ReceiveAuthenticated, threadVars, countVars
    <2>5. Pipeline(answers', wire', queue', stored', logins', settled')
      BY <2>2, <2>4
    <2>6. /\ settled' \in BOOLEAN /\ (logins' = 0 => settled')
          /\ settled' => refresh' \subseteq {stored'}
      BY <2>2, <2>4
    <2>7. QED
      BY <2>3, <2>4, <2>5, <2>6
  <1>2. CASE HandleReconnect
    <2>1. CASE refresh = {} /\ UNCHANGED <<queue, pc, replayed>>
      BY <1>2, <2>1, KeptInv DEF HandleReconnect, identityVars, countVars
    <2>2. CASE PushFront(Authentication(stored, refresh, 0)) /\ Goto(Net, "replay")
      <3> DEFINE e == Authentication(stored, refresh, 0)
      <3>1. /\ Auth(e) => e.login \in 0..logins
            /\ Mine(e, stored)
            /\ Newest(e, logins) => settled = TRUE
        BY DEF Authentication, Mine, Newest
      <3> HIDE DEF e
      <3>2. Pipeline(answers, wire, <<e>> \o queue, stored, logins, settled)
        BY <3>1, PipelinePrepend
      <3>3. /\ DOMAIN pc' = {App, Net}
            /\ pc'[App] = "authenticate" => pc[App] = "authenticate"
        BY <2>2, GotoFacts
      <3>4. /\ UNCHANGED <<stored, refresh, logins, settled, answers, wire, argument>>
            /\ queue' = <<e>> \o queue
        BY <1>2, <2>2 DEF HandleReconnect, PushFront, identityVars, countVars, e
      <3>5. QED
        BY <3>2, <3>3, <3>4, KeptInv
    <2>3. QED
      BY <1>2, <2>1, <2>2 DEF HandleReconnect
  <1>3. CASE SendPayload
    <2>1. /\ Pipeline(answers, Append(wire, Head(queue)), Tail(queue), stored,
                      logins, settled)
          /\ Pipeline(answers, wire, Tail(queue), stored, logins, settled)
      BY <1>3, PipelineSend DEF SendPayload
    <2>2. Pipeline(answers, wire', queue', stored, logins, settled)
      BY <1>3, <2>1 DEF SendPayload
    <2>3. QED
      BY <1>3, <2>2, KeptInv DEF SendPayload, identityVars, threadVars, countVars
  <1>4. CASE ServeAuthentication
    <2>1. /\ Pipeline(Append(answers, Head(wire)), Tail(wire), queue, stored,
                      logins, settled)
          /\ Pipeline(answers, Tail(wire), queue, stored, logins, settled)
      BY <1>4, PipelineServe DEF ServeAuthentication
    <2>2. Pipeline(answers', wire', queue, stored, logins, settled)
      BY <1>4, <2>1 DEF ServeAuthentication
    <2>3. \A i \in 1..Len(answers') : Auth(answers'[i])
      <3>1. answers' = answers \/ answers' = Append(answers, Head(wire))
        BY <1>4 DEF ServeAuthentication
      <3>2. CASE answers' = Append(answers, Head(wire))
        <4>1. Auth(Head(wire))
          BY <1>4 DEF ServeAuthentication, Auth
        <4>2. \A i \in 1..(Len(answers) + 1) : i \in 1..Len(answers) \/ i = Len(answers) + 1
          BY <1>0, LenNat
        <4>3. QED
          BY <1>0, <3>2, <4>1, <4>2, AppendIsSeq
      <3>3. QED
        BY <3>1, <3>2
    <2>4. QED
      BY <1>4, <2>2, <2>3, KeptInv
      DEF ServeAuthentication, identityVars, threadVars, countVars
  <1>5. CASE ServeSubscription
    <2>1. Pipeline(answers, Tail(wire), queue, stored, logins, settled)
      BY <1>5, PipelineServe DEF ServeSubscription
    <2>2. QED
      BY <1>5, <2>1, KeptInv DEF ServeSubscription, identityVars, threadVars, countVars
  <1>6. CASE Disconnect
    <2>1. Pipeline(<<>>, <<>>, queue, stored, logins, settled)
      BY PipelineForget
    <2>2. QED
      BY <1>6, <2>1, EmptyIsSeq, KeptInv DEF Disconnect, identityVars, threadVars
  <1>7. CASE Reconnect
    BY <1>7, KeptInv DEF Reconnect, identityVars, threadVars, countVars
  <1>8. QED
    BY <1>1, <1>2, <1>3, <1>4, <1>5, <1>6, <1>7

LEMMA IdentityStep == GamesNamed /\ IdentityInv /\ [Next]_vars => IdentityInv'
  <1> SUFFICES ASSUME GamesNamed, IdentityInv, [Next]_vars
               PROVE  IdentityInv'
    OBVIOUS
  <1>1. CASE UNCHANGED vars
    BY <1>1 DEF IdentityInv, vars, identityVars, threadVars, linkVars, countVars
  <1>2. CASE Next
    BY <1>2, OtherCalls, LoginCalls, Movements DEF Next, AppStep, NetStep, Serve
  <1>3. QED
    BY <1>1, <1>2

\* Once the last authentication has been answered, HandleReconnect would send
\* the stored identity with a token that was given to it: for any number of
\* logins, calls and lost connections, with one thread or two, whichever
\* answers were lost (src/gamelink.cpp:547-564).
THEOREM SameIdentityHolds ==
  ASSUME GamesNamed
  PROVE  Spec => []SameIdentity
  <1>1. IdentityInv /\ [Next]_vars => IdentityInv'
    BY IdentityStep, GamesNamed
  <1>2. IdentityInv => SameIdentity
    BY DEF IdentityInv, SameIdentity
  <1>3. QED
    BY IdentityInit, <1>1, <1>2, PTL DEF Spec
-----------------------------------------------------------------------------
(* The type invariant.                                                      *)

\* The type of the sets.
Sets(v, a) ==
  /\ v \in Seq(Seq(Topics)) /\ Len(v) = 2
  /\ \A k \in 1..2 : IsInjective(v[k])
  /\ a \subseteq Range(Flags)

IdentityOK == stored \in Owners /\ refresh \in Tokens /\ user \in BOOLEAN

\* Nothing is left of a connection that was lost.
PathOK ==
  /\ queue \in Seq(Payloads) /\ wire \in Seq(Payloads) /\ answers \in Seq(Payloads)
  /\ link \in {"up", "down", "fresh"}
  /\ server \in [authenticated : BOOLEAN, topics : SUBSET Topics]
  /\ link # "up" => wire = <<>> /\ answers = <<>> /\ server = Forgotten

Places ==
  {"idle", "subscribe", "register", "unsubscribe", "authenticate", "replay", "push"}

\* App is in a call of Subscribe... or Unsubscribe...
Asking == pc[App] \in {"subscribe", "register", "unsubscribe"}

\* The topic of a call is not registered: not yet, or not any more.
ThreadOK ==
  /\ pc \in [{App, Net} -> Places]
  /\ argument \in [topic : Topics \cup {None}, identity : Owners]
  /\ replayed \in [stage : 1..3, i : Nat \ {0}, topic : Topics \cup {None}]
  /\ Asking => argument.topic \in Topics \ Registered
  /\ pc[Net] = "push" => replayed.topic \in Topics

CountOK ==
  /\ logins \in 0..MaxLogins /\ calls \in 0..MaxCalls
  /\ disconnects \in 0..MaxDisconnects
  /\ settled \in BOOLEAN /\ sound \in BOOLEAN

\* What TypeOK needs to be inductive.
TypeInv == Sets(vectors, active) /\ IdentityOK /\ PathOK /\ ThreadOK /\ CountOK

LEMMA StageFacts ==
  ASSUME NEW topic \in Topics
  PROVE  /\ Stage(topic) \in 1..3
         /\ Stage(topic) = 3 <=> topic \in Range(Flags)
  BY TopicsAssumption DEF Stage, Topics

\* Without removes an entry, and nothing else.
LEMMA WithoutFacts ==
  ASSUME NEW s \in Seq(Topics), NEW x, NEW r \in Without(s, x), IsInjective(s)
  PROVE  /\ r \in Seq(Topics) /\ IsInjective(r)
         /\ Range(r) = Range(s) \ {x}
  <1> DEFINE kept == {i \in DOMAIN s : s[i] # x}
  <1> DEFINE n == Cardinality(kept)
  <1>1. PICK from \in [1..n -> kept] :
          /\ Range(from) = kept
          /\ \A i, j \in DOMAIN from : i < j => from[i] < from[j]
          /\ r = [i \in 1..n |-> s[from[i]]]
    BY DEF Without
  <1>2. n \in Nat
    <2>1. DOMAIN s = 1..Len(s) /\ Len(s) \in Nat
      OBVIOUS
    <2>2. IsFiniteSet(1..Len(s))
      BY <2>1, FS_Interval
    <2>3. IsFiniteSet(kept)
      BY <2>1, <2>2, FS_Subset
    <2>4. QED
      BY <2>3, FS_CardinalityType
  <1> HIDE DEF n
  <1>3. \A i \in 1..n : from[i] \in kept /\ from[i] \in DOMAIN s /\ s[from[i]] # x
                        /\ s[from[i]] \in Topics /\ from[i] \in Nat
    OBVIOUS
  <1>4. r \in Seq(Topics)
    BY <1>1, <1>2, <1>3
  <1>5. IsInjective(r)
    <2>1. SUFFICES ASSUME NEW i \in 1..n, NEW j \in 1..n, r[i] = r[j]
                   PROVE  i = j
      BY <1>1 DEF IsInjective
    <2>2. from[i] = from[j]
      BY <1>1, <1>3, <2>1 DEF IsInjective
    <2>3. ~(i < j) /\ ~(j < i)
      BY <1>1, <1>2, <1>3, <2>2
    <2>4. QED
      BY <1>2, <2>3
  <1>6. Range(r) \subseteq Range(s) \ {x}
    BY <1>1, <1>3 DEF Range
  <1>7. ASSUME NEW y \in Range(s) \ {x}
        PROVE  y \in Range(r)
    <2>1. PICK i \in DOMAIN s : s[i] = y
      BY <1>7 DEF Range
    <2>2. i \in Range(from)
      BY <1>1, <1>7, <2>1
    <2>3. PICK j \in 1..n : from[j] = i
      BY <2>2 DEF Range
    <2>4. QED
      BY <1>1, <2>1, <2>3 DEF Range
  <1>8. QED
    BY <1>4, <1>5, <1>6, <1>7

LEMMA RegisterFacts ==
  ASSUME Sets(vectors, active), NEW topic \in Topics \ Registered, Register(topic)
  PROVE  /\ Sets(vectors', active')
         /\ Registered' = Registered \cup {topic}
  <1>1. CASE Stage(topic) = 3
    BY <1>1, StageFacts DEF Register, Sets, Registered
  <1>2. CASE Stage(topic) # 3
    <2> DEFINE k == Stage(topic)
    <2>1. k \in 1..2
      BY <1>2, StageFacts
    <2> HIDE DEF k
    <2>2. /\ vectors' = [vectors EXCEPT ![k] = Append(@, topic)]
          /\ active' = active
      BY <1>2 DEF Register, k
    <2>3. /\ vectors \in Seq(Seq(Topics)) /\ DOMAIN vectors = 1..2
          /\ vectors[k] \in Seq(Topics) /\ IsInjective(vectors[k])
          /\ topic \notin Range(vectors[k])
      <3>1. vectors \in Seq(Seq(Topics)) /\ Len(vectors) = 2
        BY DEF Sets
      <3>2. DOMAIN vectors = 1..2
        BY <3>1
      <3>3. vectors[k] \in Seq(Topics)
        BY <2>1, <3>1, <3>2, SMTT(30)
      <3>4. topic \notin Range(vectors[1]) /\ topic \notin Range(vectors[2])
        BY DEF Registered
      <3>5. k = 1 \/ k = 2
        BY <2>1
      <3>6. topic \notin Range(vectors[k])
        BY <3>4, <3>5
      <3>7. QED
        BY <2>1, <3>1, <3>2, <3>3, <3>6 DEF Sets
    <2> DEFINE r == Append(vectors[k], topic)
    <2>4. /\ r \in Seq(Topics) /\ IsInjective(r)
          /\ Range(r) = Range(vectors[k]) \cup {topic}
      <3>1. /\ Len(vectors[k]) \in Nat /\ DOMAIN r = 1..(Len(vectors[k]) + 1)
            /\ DOMAIN vectors[k] = 1..Len(vectors[k])
            /\ \A i \in 1..Len(vectors[k]) : r[i] = vectors[k][i]
            /\ r[Len(vectors[k]) + 1] = topic
            /\ r \in Seq(Topics)
        BY <2>3
      <3> HIDE DEF r
      <3>2. \A i \in DOMAIN r : i \in 1..Len(vectors[k]) \/ i = Len(vectors[k]) + 1
        BY <3>1
      <3>3. IsInjective(r)
        BY <2>3, <3>1, <3>2 DEF IsInjective, Range
      <3>4. Range(r) = Range(vectors[k]) \cup {topic}
        BY <3>1, <3>2 DEF Range
      <3>5. QED
        BY <3>1, <3>3, <3>4
    <2> HIDE DEF r
    <2>5. vectors' = [vectors EXCEPT ![k] = r]
      BY <2>2 DEF r
    <2>6. /\ vectors' \in Seq(Seq(Topics)) /\ Len(vectors') = 2
          /\ vectors'[k] = r
          /\ \A j \in 1..2 : j # k => vectors'[j] = vectors[j]
      <3>1. Len(vectors) = 2
        BY DEF Sets
      <3>2. vectors' \in Seq(Seq(Topics)) /\ DOMAIN vectors' = 1..2
        BY <2>1, <2>3, <2>4, <2>5, <3>1, ExceptSeq
      <3>3. Len(vectors') = 2
        BY <3>2
      <3>4. QED
        BY <2>1, <2>3, <2>5, <3>2, <3>3
    <2>7. Sets(vectors', active')
      BY <2>2, <2>4, <2>6 DEF Sets
    <2>8. Registered' = Registered \cup {topic}
      <3>1. Registered' = Range(vectors'[1]) \cup Range(vectors'[2]) \cup active'
        BY DEF Registered
      <3>2. CASE k = 1
        <4>1. vectors'[1] = r /\ vectors'[2] = vectors[2]
          BY <2>6, <3>2
        <4>2. QED
          BY <2>2, <2>4, <3>1, <3>2, <4>1 DEF Registered
      <3>3. CASE k = 2
        <4>1. vectors'[2] = r /\ vectors'[1] = vectors[1]
          BY <2>6, <3>3
        <4>2. QED
          BY <2>2, <2>4, <3>1, <3>3, <4>1 DEF Registered
      <3>4. QED
        BY <2>1, <3>2, <3>3
    <2>9. QED
      BY <2>7, <2>8
  <1>3. QED
    BY <1>1, <1>2

LEMMA UnregisterFacts ==
  ASSUME Sets(vectors, active), NEW topic \in Topics, Unregister(topic)
  PROVE  /\ Sets(vectors', active')
         /\ Registered' = Registered \ {topic}
  <1>1. PICK skus \in Without(vectors[1], topic), polls \in Without(vectors[2], topic) :
          vectors' = <<skus, polls>>
    BY DEF Unregister
  <1>2. /\ vectors[1] \in Seq(Topics) /\ IsInjective(vectors[1])
        /\ vectors[2] \in Seq(Topics) /\ IsInjective(vectors[2])
    BY DEF Sets
  <1>3. /\ skus \in Seq(Topics) /\ IsInjective(skus)
        /\ Range(skus) = Range(vectors[1]) \ {topic}
    BY <1>2, WithoutFacts
  <1>4. /\ polls \in Seq(Topics) /\ IsInjective(polls)
        /\ Range(polls) = Range(vectors[2]) \ {topic}
    BY <1>2, WithoutFacts
  <1>5. /\ vectors' \in Seq(Seq(Topics)) /\ Len(vectors') = 2
        /\ vectors'[1] = skus /\ vectors'[2] = polls
    BY <1>1, <1>3, <1>4
  <1>6. active' = active \ {topic}
    BY DEF Unregister
  <1>7. QED
    BY <1>3, <1>4, <1>5, <1>6 DEF Sets, Registered

LEMMA TypeInvTypeOK == TypeInv => TypeOK
  BY DEF TypeInv, Sets, IdentityOK, PathOK, ThreadOK, CountOK, TypeOK, Places

LEMMA OwnerFacts ==
  /\ Nobody \in Owners
  /\ Identities \subseteq Owners
  /\ \A who \in Owners : /\ {who} \in Tokens
                         /\ who.client \in {w.client : w \in Identities \cup {Nobody}}
                         /\ who.game \in {w.game : w \in Identities \cup {Nobody}}
  /\ {} \in Tokens
  <1>1. Nobody \in Owners
    BY DEF Owners, Nobody
  <1>2. ASSUME NEW who \in Identities
        PROVE  who \in Owners
    BY <1>2, IdentitiesAssumption DEF Owners
  <1>3. QED
    BY <1>1, <1>2 DEF Owners, Tokens

LEMMA PayloadFacts ==
  /\ \A op \in {"subscribe", "unsubscribe"}, topic \in Topics :
       Subscription(op, topic) \in Payloads
  /\ \A who \in Owners, token \in Tokens, login \in 0..MaxLogins :
       Authentication(who, token, login) \in Payloads
  BY DEF Subscription, Authentication, Payloads

\* Where the threads are after a step of one of them.
LEMMA MoveFacts ==
  ASSUME ThreadOK, NEW where \in Places
  PROVE  /\ Goto(App, where) => /\ pc' \in [{App, Net} -> Places]
                                /\ pc'[App] = where /\ pc'[Net] \in {pc[Net], where}
         /\ Goto(Net, where) => /\ pc' \in [{App, Net} -> Places]
                                /\ pc'[Net] = where /\ pc'[App] \in {pc[App], where}
  BY DEF Goto, ThreadOK

LEMMA TypeInit == Init => TypeInv
  <1> SUFFICES ASSUME Init
               PROVE  TypeInv
    OBVIOUS
  <1>1. vectors = <<<<>>, <<>>>> /\ active = {}
    BY DEF Init
  <1>2. <<>> \in Seq(Topics) /\ IsInjective(<<>>) /\ Range(<<>>) = {}
    BY EmptySeq DEF IsInjective, Range
  <1>3. Sets(vectors, active)
    BY <1>1, <1>2 DEF Sets
  <1>4. IdentityOK
    BY OwnerFacts DEF Init, IdentityOK
  <1>5. PathOK
    BY EmptySeq DEF Init, PathOK, Forgotten
  <1>6. ThreadOK
    BY OwnerFacts DEF Init, ThreadOK, Places, Asking, NoArgument
  <1>7. CountOK
    BY SessionBoundsAssumption DEF Init, CountOK
  <1>8. QED
    BY <1>3, <1>4, <1>5, <1>6, <1>7 DEF TypeInv

\* The calls of the application.
LEMMA TypeCalls ==
  ASSUME TypeInv,
         \/ \E topic \in Topics : BeginSubscribe(topic) \/ BeginUnsubscribe(topic)
         \/ \E who \in Identities : BeginAuthenticate(who)
         \/ Deauthenticate \/ AppStep
  PROVE  TypeInv'
  <1> USE DEF TypeInv
  <1>1. ASSUME NEW topic \in Topics, BeginSubscribe(topic)
        PROVE  TypeInv'
    <2>1. /\ UNCHANGED <<setVars, identityVars, queue, replayed, linkVars, logins,
                         disconnects, settled>>
          /\ argument' = [argument EXCEPT !.topic = topic]
          /\ Goto(App, "subscribe")
          /\ calls < MaxCalls /\ calls' = calls + 1 /\ sound' \in BOOLEAN
          /\ topic \notin Registered
      BY <1>1 DEF BeginSubscribe, BeginCall, CanRegister, CountOK
    <2>2. /\ pc' \in [{App, Net} -> Places] /\ pc'[App] = "subscribe"
          /\ pc'[Net] = "push" => pc[Net] = "push"
      BY <2>1, MoveFacts DEF Places
    <2>3. argument' \in [topic : Topics \cup {None}, identity : Owners]
          /\ argument'.topic = topic
      BY <2>1 DEF ThreadOK
    <2>4. Registered' = Registered
      BY <2>1 DEF Registered, setVars
    <2>5. ThreadOK'
      BY <2>1, <2>2, <2>3, <2>4 DEF ThreadOK, Asking
    <2>6. CountOK'
      BY <2>1, SessionBoundsAssumption DEF CountOK
    <2>7. Sets(vectors, active)' /\ IdentityOK' /\ PathOK'
      BY <2>1 DEF Sets, IdentityOK, PathOK, setVars, identityVars, linkVars
    <2>8. QED
      BY <2>5, <2>6, <2>7
  <1>2. ASSUME NEW topic \in Topics, BeginUnsubscribe(topic)
        PROVE  TypeInv'
    <2>1. /\ UNCHANGED <<identityVars, queue, replayed, linkVars, logins,
                         disconnects, settled>>
          /\ argument' = [argument EXCEPT !.topic = topic]
          /\ Goto(App, "unsubscribe")
          /\ calls < MaxCalls /\ calls' = calls + 1 /\ sound' \in BOOLEAN
          /\ Unregister(topic)
      BY <1>2 DEF BeginUnsubscribe, BeginCall, CountOK
    <2>2. /\ pc' \in [{App, Net} -> Places] /\ pc'[App] = "unsubscribe"
          /\ pc'[Net] = "push" => pc[Net] = "push"
      BY <2>1, MoveFacts DEF Places
    <2>3. argument' \in [topic : Topics \cup {None}, identity : Owners]
          /\ argument'.topic = topic
      BY <2>1 DEF ThreadOK
    <2>4. Sets(vectors', active') /\ Registered' = Registered \ {topic}
      BY <2>1, UnregisterFacts
    <2>5. ThreadOK'
      BY <2>1, <2>2, <2>3, <2>4 DEF ThreadOK, Asking
    <2>6. CountOK'
      BY <2>1, SessionBoundsAssumption DEF CountOK
    <2>7. IdentityOK' /\ PathOK'
      BY <2>1 DEF IdentityOK, PathOK, identityVars, linkVars
    <2>8. QED
      BY <2>4, <2>5, <2>6, <2>7
  <1>3. ASSUME NEW who \in Identities, BeginAuthenticate(who)
        PROVE  TypeInv'
    <2>1. /\ UNCHANGED <<setVars, refresh, user, queue, replayed, linkVars, calls,
                         disconnects, sound>>
          /\ argument' = [argument EXCEPT !.identity = who]
          /\ Goto(App, "authenticate")
          /\ logins < MaxLogins /\ logins' = logins + 1 /\ settled' = FALSE
          /\ stored' = [client |-> who.client,
                        game |-> IF who.game = NoGame THEN stored.game ELSE who.game]
      BY <1>3 DEF BeginAuthenticate, Store
    <2>2. /\ pc' \in [{App, Net} -> Places] /\ pc'[App] = "authenticate"
          /\ pc'[Net] = "push" => pc[Net] = "push"
      BY <2>1, MoveFacts DEF Places
    <2>3. ThreadOK'
      BY <2>1, <2>2, OwnerFacts DEF ThreadOK, Asking
    <2>4. CountOK'
      <3>1. settled' \in BOOLEAN
        BY <2>1
      <3>2. logins' \in 0..MaxLogins
        BY <2>1, SessionBoundsAssumption DEF CountOK
      <3>3. QED
        BY <2>1, <3>1, <3>2 DEF CountOK
    <2>5. IdentityOK'
      <3>1. stored \in Owners /\ who \in Owners
        BY OwnerFacts DEF IdentityOK
      <3>2. stored' \in Owners
        BY <2>1, <3>1, OwnerFacts DEF Owners
      <3>3. QED
        BY <2>1, <3>2 DEF IdentityOK
    <2>6. Sets(vectors, active)' /\ PathOK'
      BY <2>1 DEF Sets, PathOK, setVars, linkVars
    <2>7. QED
      BY <2>3, <2>4, <2>5, <2>6
  <1>4. CASE Deauthenticate
    BY <1>4 DEF Deauthenticate, Sets, IdentityOK, PathOK, ThreadOK, CountOK, Asking,
                Registered, setVars, threadVars, linkVars, countVars
  <1>5. ASSUME PushSubscribe
        PROVE  TypeInv'
    <2>1. /\ UNCHANGED <<setVars, identityVars, argument, replayed, linkVars,
                         countVars, settled, sound>>
          /\ queue' = Append(queue, Subscription("subscribe", argument.topic))
          /\ pc[App] = "subscribe" /\ Goto(App, "register")
      BY <1>5 DEF PushSubscribe, QueuePayload
    <2>2. /\ pc' \in [{App, Net} -> Places] /\ pc'[App] = "register"
          /\ pc'[Net] = "push" => pc[Net] = "push"
      BY <2>1, MoveFacts DEF Places
    <2>3. argument.topic \in Topics \ Registered
      BY <2>1 DEF ThreadOK, Asking
    <2>4. queue' \in Seq(Payloads)
      BY <2>1, <2>3, PayloadFacts, AppendProperties DEF PathOK
    <2>5. ThreadOK'
      BY <2>1, <2>2, <2>3 DEF ThreadOK, Asking, Registered, setVars
    <2>6. PathOK'
      BY <2>1, <2>4 DEF PathOK, linkVars
    <2>7. Sets(vectors, active)' /\ IdentityOK' /\ CountOK'
      BY <2>1 DEF Sets, IdentityOK, CountOK, setVars, identityVars, countVars
    <2>8. QED
      BY <2>5, <2>6, <2>7
  <1>6. ASSUME Return
        PROVE  /\ pc' \in [{App, Net} -> Places] /\ pc'[App] = "idle"
               /\ pc'[Net] = "push" => pc[Net] = "push"
               /\ argument' \in [topic : Topics \cup {None}, identity : Owners]
    BY <1>6, MoveFacts, OwnerFacts DEF Return, Places, NoArgument
  <1>7. ASSUME RegisterTopic
        PROVE  TypeInv'
    <2>1. /\ UNCHANGED <<identityVars, queue, replayed, linkVars, countVars,
                         settled, sound>>
          /\ pc[App] = "register" /\ Register(argument.topic) /\ Return
      BY <1>7 DEF RegisterTopic
    <2>2. argument.topic \in Topics \ Registered
      BY <2>1 DEF ThreadOK, Asking
    <2>3. Sets(vectors', active')
      BY <2>1, <2>2, RegisterFacts
    <2>4. ThreadOK'
      BY <1>6, <2>1 DEF ThreadOK, Asking
    <2>5. IdentityOK' /\ PathOK' /\ CountOK'
      BY <2>1 DEF IdentityOK, PathOK, CountOK, identityVars, linkVars, countVars
    <2>6. QED
      BY <2>3, <2>4, <2>5
  <1>8. ASSUME PushUnsubscribe
        PROVE  TypeInv'
    <2>1. /\ UNCHANGED <<setVars, identityVars, replayed, linkVars, countVars,
                         settled, sound>>
          /\ queue' = Append(queue, Subscription("unsubscribe", argument.topic))
          /\ pc[App] = "unsubscribe" /\ Return
      BY <1>8 DEF PushUnsubscribe, QueuePayload
    <2>2. argument.topic \in Topics
      BY <2>1 DEF ThreadOK, Asking
    <2>3. queue' \in Seq(Payloads)
      BY <2>1, <2>2, PayloadFacts, AppendProperties DEF PathOK
    <2>4. ThreadOK'
      BY <1>6, <2>1 DEF ThreadOK, Asking
    <2>5. PathOK'
      BY <2>1, <2>3 DEF PathOK, linkVars
    <2>6. Sets(vectors, active)' /\ IdentityOK' /\ CountOK'
      BY <2>1 DEF Sets, IdentityOK, CountOK, setVars, identityVars, countVars
    <2>7. QED
      BY <2>4, <2>5, <2>6
  <1>9. ASSUME PushAuthenticate
        PROVE  TypeInv'
    <2>1. /\ UNCHANGED <<setVars, identityVars, replayed, linkVars, countVars,
                         settled, sound>>
          /\ queue' = Append(queue, Authentication(argument.identity, {}, logins))
          /\ Return
      BY <1>9 DEF PushAuthenticate, QueuePayload
    <2>2. argument.identity \in Owners /\ logins \in 0..MaxLogins
      BY DEF ThreadOK, CountOK
    <2>3. queue' \in Seq(Payloads)
      BY <2>1, <2>2, OwnerFacts, PayloadFacts, AppendProperties DEF PathOK
    <2>4. ThreadOK'
      BY <1>6, <2>1 DEF ThreadOK, Asking
    <2>5. PathOK'
      BY <2>1, <2>3 DEF PathOK, linkVars
    <2>6. Sets(vectors, active)' /\ IdentityOK' /\ CountOK'
      BY <2>1 DEF Sets, IdentityOK, CountOK, setVars, identityVars, countVars
    <2>7. QED
      BY <2>4, <2>5, <2>6
  <1>10. QED
    BY <1>1, <1>2, <1>3, <1>4, <1>5, <1>7, <1>8, <1>9 DEF AppStep

\* The steps of the loop, of the server and of the connection.
LEMMA TypeLoop ==
  ASSUME TypeInv,
         NetStep \/ Serve \/ Disconnect \/ Reconnect
  PROVE  TypeInv'
  <1> USE DEF TypeInv
  <1>1. ASSUME ReceiveAuthenticated
        PROVE  TypeInv'
    <2>1. /\ UNCHANGED <<setVars, stored, queue, threadVars, link, wire, server,
                         countVars, sound>>
          /\ answers # <<>> /\ answers' = Tail(answers)
          /\ refresh' = {Head(answers).identity} /\ user' = TRUE
          /\ settled' \in BOOLEAN
      BY <1>1 DEF ReceiveAuthenticated
    <2>2. Head(answers) \in Payloads /\ answers' \in Seq(Payloads)
      BY <2>1, HeadTailProperties DEF PathOK
    <2>3. Head(answers).identity \in Owners
      BY <2>2, OwnerFacts DEF Payloads
    <2>4. refresh' \in Tokens
      BY <2>1, <2>3 DEF Tokens
    <2>5. IdentityOK'
      BY <2>1, <2>4 DEF IdentityOK
    <2>6. PathOK'
      BY <2>1, <2>2 DEF PathOK
    <2>7. Sets(vectors, active)' /\ ThreadOK' /\ CountOK'
      BY <2>1 DEF Sets, ThreadOK, CountOK, Asking, Registered, setVars, threadVars,
                  countVars
    <2>8. QED
      BY <2>5, <2>6, <2>7
  <1>2. ASSUME HandleReconnect
        PROVE  TypeInv'
    <2>1. /\ UNCHANGED <<setVars, identityVars, argument, wire, answers, server,
                         countVars, settled>>
          /\ link = "fresh" /\ link' = "up" /\ sound' \in BOOLEAN
      BY <1>2 DEF HandleReconnect
    <2>2. Sets(vectors, active)' /\ IdentityOK'
      BY <2>1 DEF Sets, IdentityOK, setVars, identityVars
    <2>3. CountOK'
      BY <2>1 DEF CountOK, countVars
    <2>4. CASE UNCHANGED <<queue, pc, replayed>>
      <3>1. PathOK' /\ ThreadOK'
        BY <2>1, <2>4 DEF PathOK, ThreadOK, Asking, Registered, setVars
      <3>2. QED
        BY <2>2, <2>3, <3>1
    <2>5. CASE /\ PushFront(Authentication(stored, refresh, 0))
               /\ Goto(Net, "replay")
               /\ replayed' = [stage |-> 1, i |-> 1, topic |-> None]
      <3>1. Authentication(stored, refresh, 0) \in Payloads
        BY PayloadFacts, SessionBoundsAssumption DEF IdentityOK
      <3>2. queue' \in Seq(Payloads)
        BY <2>5, <3>1 DEF PushFront, PathOK
      <3>3. PathOK'
        BY <2>1, <3>2 DEF PathOK
      <3>4. /\ pc' \in [{App, Net} -> Places] /\ pc'[Net] = "replay"
            /\ pc'[App] \in {pc[App], "replay"}
        BY <2>5, MoveFacts DEF Places
      <3>5. ThreadOK'
        BY <2>1, <2>5, <3>4 DEF ThreadOK, Asking, Registered, setVars
      <3>6. QED
        BY <2>2, <2>3, <3>3, <3>5
    <2>6. QED
      BY <1>2, <2>4, <2>5 DEF HandleReconnect
  <1>3. ASSUME Replay
        PROVE  TypeInv'
    <2>1. /\ UNCHANGED <<setVars, identityVars, queue, argument, linkVars, countVars,
                         settled, sound>>
          /\ ReplayEntry \/ ReplaySkip
      BY <1>3 DEF Replay
    <2>2. Sets(vectors, active)' /\ IdentityOK' /\ PathOK' /\ CountOK'
      BY <2>1 DEF Sets, IdentityOK, PathOK, CountOK, setVars, identityVars,
                  linkVars, countVars
    <2>3. CASE ReplayEntry
      <3>1. Entries \in Seq(Topics)
        <4>1. Flags \in Seq(Topics)
          BY TopicsAssumption, SeqMonotonic DEF Topics
        <4>2. replayed.stage # 3 => vectors[replayed.stage] \in Seq(Topics)
          <5>1. vectors \in Seq(Seq(Topics)) /\ Len(vectors) = 2
            BY DEF Sets
          <5>2. replayed.stage # 3 => replayed.stage \in 1..Len(vectors)
            BY <5>1 DEF ThreadOK
          <5>3. QED
            BY <5>1, <5>2, ElementOfSeq
        <4>3. QED
          BY <4>1, <4>2 DEF Entries
      <3>2. Entries[replayed.i] \in Topics
        BY <2>3, <3>1, ElementOfSeq DEF ReplayEntry, ThreadOK
      <3>3. /\ pc' \in [{App, Net} -> Places] /\ pc'[Net] = "push"
            /\ pc'[App] \in {pc[App], "push"}
        BY <2>3, MoveFacts DEF ReplayEntry, Places
      <3>4. replayed' = [replayed EXCEPT !.i = @ + 1, !.topic = Entries[replayed.i]]
        BY <2>3 DEF ReplayEntry
      <3>5. /\ replayed' \in [stage : 1..3, i : Nat \ {0}, topic : Topics \cup {None}]
            /\ replayed'.topic \in Topics
        <4>1. /\ replayed \in [stage : 1..3, i : Nat \ {0}, topic : Topics \cup {None}]
              /\ replayed.i + 1 \in Nat \ {0}
          BY DEF ThreadOK
        <4> DEFINE next == replayed.i + 1
                   topic == Entries[replayed.i]
        <4>2. next \in Nat \ {0} /\ topic \in Topics \cup {None} /\ topic \in Topics
          BY <3>2, <4>1
        <4>3. replayed' = [replayed EXCEPT !.i = next, !.topic = topic]
          BY <3>4
        <4> HIDE DEF next, topic
        <4>4. replayed' \in [stage : 1..3, i : Nat \ {0}, topic : Topics \cup {None}]
          BY <4>1, <4>2, <4>3
        <4>5. replayed'.topic = topic
          BY <4>1, <4>3
        <4>6. QED
          BY <4>2, <4>4, <4>5
      <3>6. Asking' => argument'.topic \in Topics \ Registered'
        BY <2>1, <3>3 DEF ThreadOK, Asking, Registered, setVars
      <3>7. ThreadOK'
        BY <2>1, <3>3, <3>5, <3>6 DEF ThreadOK
      <3>8. QED
        BY <2>2, <3>7
    <2>4. CASE ReplaySkip
      <3>1. /\ pc' \in [{App, Net} -> Places]
            /\ pc'[App] \in {pc[App], "idle"}
            /\ pc'[Net] # "push"
        <4>1. pc[Net] = "replay" /\ (pc' = pc \/ Goto(Net, "idle"))
          BY <2>4 DEF ReplaySkip
        <4>2. QED
          BY <4>1, MoveFacts DEF Places, ThreadOK
      <3>2. replayed' \in [stage : 1..3, i : Nat \ {0}, topic : Topics \cup {None}]
        <4>1. \/ replayed' = [replayed EXCEPT !.i = @ + 1]
              \/ /\ replayed.stage < 3
                 /\ replayed' = [replayed EXCEPT !.stage = @ + 1, !.i = 1]
              \/ replayed' = [stage |-> 1, i |-> 1, topic |-> None]
          BY <2>4 DEF ReplaySkip
        <4>2. /\ replayed.stage \in 1..3 /\ replayed.i \in Nat \ {0}
              /\ replayed \in [stage : 1..3, i : Nat \ {0}, topic : Topics \cup {None}]
          BY DEF ThreadOK
        <4>3. CASE replayed' = [replayed EXCEPT !.i = @ + 1]
          BY <4>2, <4>3
        <4>4. CASE /\ replayed.stage < 3
                   /\ replayed' = [replayed EXCEPT !.stage = @ + 1, !.i = 1]
          <5> DEFINE next == replayed.stage + 1
          <5>1. next \in 1..3 /\ 1 \in Nat \ {0}
            BY <4>2, <4>4
          <5>2. replayed' = [replayed EXCEPT !.stage = next, !.i = 1]
            BY <4>4
          <5> HIDE DEF next
          <5>3. QED
            BY <4>2, <5>1, <5>2
        <4>5. CASE replayed' = [stage |-> 1, i |-> 1, topic |-> None]
          BY <4>5
        <4>6. QED
          BY <4>1, <4>3, <4>4, <4>5
      <3>3. ThreadOK'
        BY <2>1, <3>1, <3>2 DEF ThreadOK, Asking, Registered, setVars
      <3>4. QED
        BY <2>2, <3>3
    <2>5. QED
      BY <2>1, <2>3, <2>4
  <1>4. ASSUME PushReplayed
        PROVE  TypeInv'
    <2>1. /\ UNCHANGED <<setVars, identityVars, argument, linkVars, countVars,
                         settled, sound>>
          /\ queue' = Append(queue, Subscription("subscribe", replayed.topic))
          /\ replayed' = [replayed EXCEPT !.topic = None]
          /\ pc[Net] = "push" /\ Goto(Net, "replay")
      BY <1>4 DEF PushReplayed, QueuePayload
    <2>2. queue' \in Seq(Payloads)
      BY <2>1, PayloadFacts, AppendProperties DEF PathOK, ThreadOK
    <2>3. PathOK'
      BY <2>1, <2>2 DEF PathOK, linkVars
    <2>4. /\ pc' \in [{App, Net} -> Places] /\ pc'[Net] = "replay"
          /\ pc'[App] \in {pc[App], "replay"}
      BY <2>1, MoveFacts DEF Places
    <2>5. ThreadOK'
      BY <2>1, <2>4 DEF ThreadOK, Asking, Registered, setVars
    <2>6. Sets(vectors, active)' /\ IdentityOK' /\ CountOK'
      BY <2>1 DEF Sets, IdentityOK, CountOK, setVars, identityVars, countVars
    <2>7. QED
      BY <2>3, <2>5, <2>6
  <1>5. ASSUME SendPayload \/ Serve \/ Disconnect \/ Reconnect
        PROVE  Sets(vectors, active)' /\ IdentityOK' /\ ThreadOK' /\ CountOK'
    <2>1. /\ UNCHANGED <<setVars, identityVars, threadVars, logins, calls, settled, sound>>
          /\ \/ disconnects' = disconnects
             \/ disconnects < MaxDisconnects /\ disconnects' = disconnects + 1
      BY <1>5 DEF SendPayload, Serve, ServeAuthentication, ServeSubscription,
                  Disconnect, Reconnect, countVars
    <2>2. CountOK'
      BY <2>1, SessionBoundsAssumption DEF CountOK
    <2>3. QED
      BY <2>1, <2>2 DEF Sets, IdentityOK, ThreadOK, Asking, Registered, setVars,
                        identityVars, threadVars
  <1>6. ASSUME SendPayload
        PROVE  TypeInv'
    <2>1. /\ queue # <<>> /\ queue' = Tail(queue)
          /\ link = "up" \/ wire' = wire
          /\ wire' \in {wire, Append(wire, Head(queue))}
          /\ UNCHANGED <<link, answers, server>>
      BY <1>6 DEF SendPayload
    <2>2. queue' \in Seq(Payloads) /\ wire' \in Seq(Payloads)
      <3>1. queue \in Seq(Payloads) /\ wire \in Seq(Payloads)
        BY DEF PathOK
      <3>2. Head(queue) \in Payloads /\ Tail(queue) \in Seq(Payloads)
        BY <2>1, <3>1, HeadTailProperties
      <3>3. Append(wire, Head(queue)) \in Seq(Payloads)
        BY <3>1, <3>2, AppendProperties
      <3>4. QED
        BY <2>1, <3>1, <3>2, <3>3
    <2>3. PathOK'
      BY <2>1, <2>2 DEF PathOK
    <2>4. QED
      BY <1>5, <1>6, <2>3
  <1>7. ASSUME Serve
        PROVE  TypeInv'
    <2>1. wire # <<>> /\ wire' = Tail(wire) /\ UNCHANGED <<queue, link>>
      BY <1>7 DEF Serve, ServeAuthentication, ServeSubscription
    <2>2. Head(wire) \in Payloads /\ wire' \in Seq(Payloads)
      BY <2>1, HeadTailProperties DEF PathOK
    <2>3. CASE ServeAuthentication
      <3>1. /\ answers' \in {answers, Append(answers, Head(wire))}
            /\ server' \in {server, [server EXCEPT !.authenticated = TRUE]}
        BY <2>3 DEF ServeAuthentication
      <3>2. answers' \in Seq(Payloads)
        BY <2>2, <3>1, AppendProperties, SMTT(30) DEF PathOK
      <3>3. PathOK'
        BY <2>1, <2>2, <3>1, <3>2 DEF PathOK
      <3>4. QED
        BY <1>5, <1>7, <3>3
    <2>4. CASE ServeSubscription
      <3>1. Head(wire).topic \in Topics
        BY <2>2, <2>4 DEF ServeSubscription, Payloads
      <3>2. /\ UNCHANGED answers
            /\ server' = [server EXCEPT !.topics =
                 IF ~server.authenticated THEN @
                 ELSE IF Head(wire).op = "subscribe" THEN @ \cup {Head(wire).topic}
                      ELSE @ \ {Head(wire).topic}]
        BY <2>4 DEF ServeSubscription
      <3>3. server' \in [authenticated : BOOLEAN, topics : SUBSET Topics]
        BY <3>1, <3>2 DEF PathOK
      <3>4. PathOK'
        BY <2>1, <2>2, <3>2, <3>3 DEF PathOK
      <3>5. QED
        BY <1>5, <1>7, <3>4
    <2>5. QED
      BY <1>7, <2>3, <2>4 DEF Serve
  <1>8. ASSUME Disconnect \/ Reconnect
        PROVE  TypeInv'
    <2>1. PathOK'
      <3>1. CASE Disconnect
        <4>1. /\ wire' = <<>> /\ answers' = <<>> /\ server' = Forgotten
              /\ link' = "down" /\ UNCHANGED queue
          BY <3>1 DEF Disconnect
        <4>2. <<>> \in Seq(Payloads)
          BY EmptySeq
        <4>3. Forgotten \in [authenticated : BOOLEAN, topics : SUBSET Topics]
          BY DEF Forgotten
        <4>4. QED
          BY <4>1, <4>2, <4>3 DEF PathOK
      <3>2. CASE Reconnect
        BY <3>2 DEF Reconnect, PathOK
      <3>3. QED
        BY <1>8, <3>1, <3>2
    <2>2. QED
      BY <1>5, <1>8, <2>1
  <1>9. QED
    BY <1>1, <1>2, <1>3, <1>4, <1>6, <1>7, <1>8 DEF NetStep

LEMMA TypeStep == TypeInv /\ [Next]_vars => TypeInv'
  <1> SUFFICES ASSUME TypeInv, [Next]_vars
               PROVE  TypeInv'
    OBVIOUS
  <1>1. CASE UNCHANGED vars
    BY <1>1 DEF TypeInv, Sets, IdentityOK, PathOK, ThreadOK, CountOK, Asking, Registered,
                vars, setVars, identityVars, threadVars, linkVars, countVars
  <1>2. CASE Next
    BY <1>2, TypeCalls, TypeLoop DEF Next
  <1>3. QED
    BY <1>1, <1>2

\* Every variable of the session has its type in every state: the replay never
\* leaves the sets or puts what is no topic in the queue, and one caller never
\* makes two entries of a topic, whatever the interleaving with the loop
\* (canRegister and register of src/gamelink_subscriptionsets.cpp take the lock
\* each for itself).
THEOREM TypeCorrect == Spec => []TypeOK
  BY TypeInit, TypeStep, TypeInvTypeOK, PTL DEF Spec
-----------------------------------------------------------------------------
(* What a sequence of requests makes of a set of topics.                    *)

\* No request of s is about t.
Silent(s, t) == \A i \in 1..Len(s) : ~Auth(s[i]) => s[i].topic # t

\* The last request about t is to subscribe.
Ends(s, t) ==
  \E i \in 1..Len(s) :
    /\ s[i].op = "subscribe" /\ s[i].topic = t
    /\ \A j \in (i + 1)..Len(s) : ~Auth(s[j]) => s[j].topic # t

\* The topics that are subscribed once the requests of s have been done, when
\* those of T are.
After(s, T) == {t \in Topics : Ends(s, t) \/ (t \in T /\ Silent(s, t))}

\* The same of one request.
About(p, t) == ~Auth(p) /\ p.topic = t
Done(p, T) ==
  {t \in Topics : (About(p, t) /\ p.op = "subscribe") \/ (t \in T /\ ~About(p, t))}

LEMMA AfterNothing ==
  ASSUME NEW T \in SUBSET Topics
  PROVE  After(<<>>, T) = T
  BY EmptyIsSeq DEF After, Silent, Ends

LEMMA AfterAppend ==
  ASSUME NEW s, IsSeq(s), NEW p, NEW T
  PROVE  After(Append(s, p), T) = Done(p, After(s, T))
  <1> DEFINE r == Append(s, p)
  <1>1. /\ Len(s) \in Nat /\ Len(r) = Len(s) + 1
        /\ \A i \in 1..Len(s) : r[i] = s[i]
        /\ r[Len(s) + 1] = p
    BY AppendIsSeq, LenNat
  <1> HIDE DEF r
  <1>2. \A i \in 1..Len(r) : i \in 1..Len(s) \/ i = Len(s) + 1
    BY <1>1
  <1>3. \A i \in 1..Len(s) : i \in 1..Len(r) /\ Len(s) + 1 \in (i + 1)..Len(r)
    BY <1>1
  <1>4. \A i \in 1..Len(s) : \A j \in (i + 1)..Len(s) : j \in (i + 1)..Len(r) /\ r[j] = s[j]
    BY <1>1
  <1>5. \A i \in 1..Len(s) : \A j \in (i + 1)..Len(r) : j \in (i + 1)..Len(s) \/ j = Len(s) + 1
    BY <1>1
  <1>6. ASSUME NEW t
        PROVE  Silent(r, t) <=> Silent(s, t) /\ ~About(p, t)
    BY <1>1, <1>2, <1>3 DEF Silent, About
  <1>7. ASSUME NEW t
        PROVE  Ends(r, t) <=> \/ About(p, t) /\ p.op = "subscribe"
                              \/ Ends(s, t) /\ ~About(p, t)
    <2>1. ASSUME Ends(r, t)
          PROVE  \/ About(p, t) /\ p.op = "subscribe"
                 \/ Ends(s, t) /\ ~About(p, t)
      <3>1. PICK i \in 1..Len(r) :
              /\ r[i].op = "subscribe" /\ r[i].topic = t
              /\ \A j \in (i + 1)..Len(r) : ~Auth(r[j]) => r[j].topic # t
        BY <2>1 DEF Ends
      <3>2. CASE i = Len(s) + 1
        BY <1>1, <3>1, <3>2 DEF About, Auth
      <3>3. CASE i \in 1..Len(s)
        <4>1. ~About(p, t)
          BY <1>1, <1>3, <3>1, <3>3 DEF About
        <4>2. Ends(s, t)
          BY <1>1, <1>4, <3>1, <3>3 DEF Ends
        <4>3. QED
          BY <4>1, <4>2
      <3>4. QED
        BY <1>2, <3>2, <3>3
    <2>2. ASSUME About(p, t) /\ p.op = "subscribe"
          PROVE  Ends(r, t)
      <3>1. Len(s) + 1 \in 1..Len(r) /\ ((Len(s) + 1) + 1)..Len(r) = {}
        BY <1>1
      <3>2. QED
        BY <1>1, <2>2, <3>1 DEF Ends, About
    <2>3. ASSUME Ends(s, t) /\ ~About(p, t)
          PROVE  Ends(r, t)
      <3>1. PICK i \in 1..Len(s) :
              /\ s[i].op = "subscribe" /\ s[i].topic = t
              /\ \A j \in (i + 1)..Len(s) : ~Auth(s[j]) => s[j].topic # t
        BY <2>3 DEF Ends
      <3>2. \A j \in (i + 1)..Len(r) : ~Auth(r[j]) => r[j].topic # t
        BY <1>1, <1>4, <1>5, <2>3, <3>1 DEF About
      <3>3. QED
        BY <1>1, <1>3, <3>1, <3>2 DEF Ends
    <2>4. QED
      BY <2>1, <2>2, <2>3
  <1>8. After(r, T) = Done(p, After(s, T))
    BY <1>6, <1>7 DEF After, Done
  <1>9. QED
    BY <1>8 DEF r

LEMMA AfterTail ==
  ASSUME NEW s, IsSeq(s), s # <<>>, NEW T
  PROVE  /\ After(s, T) = After(Tail(s), Done(Head(s), T))
         /\ \A t \in Topics : (t \in After(s, T) <=> t \in T)
                            => (t \in After(Tail(s), T) <=> t \in T)
  <1> DEFINE r == Tail(s)
             p == Head(s)
  <1>1. /\ Len(s) \in Nat \ {0} /\ Len(r) \in Nat /\ Len(r) = Len(s) - 1
        /\ \A i \in 1..Len(r) : r[i] = s[i + 1]
        /\ p = s[1]
    BY TailIsSeq, LenNat
  <1> HIDE DEF r, p
  <1>2. \A i \in 1..Len(s) : i = 1 \/ (i - 1 \in 1..Len(r) /\ s[i] = r[i - 1])
    <2>1. ASSUME NEW i \in 1..Len(s), i # 1
          PROVE  i - 1 \in 1..Len(r) /\ s[i] = r[i - 1]
      <3>1. i - 1 \in 1..Len(r) /\ (i - 1) + 1 = i
        BY <1>1, <2>1
      <3>2. QED
        BY <1>1, <3>1
    <2>2. QED
      BY <2>1
  <1>3. \A i \in 1..Len(r) : i + 1 \in 1..Len(s)
    BY <1>1
  <1>4. ASSUME NEW t
        PROVE  Silent(s, t) <=> Silent(r, t) /\ ~About(p, t)
    <2>1. 1 \in 1..Len(s)
      BY <1>1
    <2>2. QED
      BY <1>1, <1>2, <1>3, <2>1 DEF Silent, About
  <1>5. ASSUME NEW t
        PROVE  Ends(s, t) <=> \/ Ends(r, t)
                              \/ About(p, t) /\ p.op = "subscribe" /\ Silent(r, t)
    <2>1. ASSUME Ends(s, t)
          PROVE  \/ Ends(r, t)
                 \/ About(p, t) /\ p.op = "subscribe" /\ Silent(r, t)
      <3>1. PICK i \in 1..Len(s) :
              /\ s[i].op = "subscribe" /\ s[i].topic = t
              /\ \A j \in (i + 1)..Len(s) : ~Auth(s[j]) => s[j].topic # t
        BY <2>1 DEF Ends
      <3>2. CASE i = 1
        <4>1. \A j \in 1..Len(r) : j + 1 \in (i + 1)..Len(s)
          BY <1>1, <3>2
        <4>2. Silent(r, t)
          BY <1>1, <3>1, <4>1 DEF Silent
        <4>3. QED
          BY <1>1, <3>1, <3>2, <4>2 DEF About, Auth
      <3>3. CASE i # 1
        <4>1. i - 1 \in 1..Len(r) /\ r[i - 1] = s[i]
          BY <1>2, <3>3
        <4>2. \A j \in ((i - 1) + 1)..Len(r) : j \in 1..Len(r) /\ j + 1 \in (i + 1)..Len(s)
          BY <1>1, <3>3
        <4>3. \A j \in ((i - 1) + 1)..Len(r) : ~Auth(r[j]) => r[j].topic # t
          BY <1>1, <3>1, <4>2
        <4>4. QED
          BY <3>1, <4>1, <4>3 DEF Ends
      <3>4. QED
        BY <3>2, <3>3
    <2>2. ASSUME Ends(r, t)
          PROVE  Ends(s, t)
      <3>1. PICK i \in 1..Len(r) :
              /\ r[i].op = "subscribe" /\ r[i].topic = t
              /\ \A j \in (i + 1)..Len(r) : ~Auth(r[j]) => r[j].topic # t
        BY <2>2 DEF Ends
      <3>2. \A j \in ((i + 1) + 1)..Len(s) : j - 1 \in (i + 1)..Len(r) /\ j \in 1..Len(s) /\ j # 1
        BY <1>1
      <3>3. \A j \in ((i + 1) + 1)..Len(s) : ~Auth(s[j]) => s[j].topic # t
        BY <1>2, <3>1, <3>2
      <3>4. QED
        BY <1>1, <1>3, <3>1, <3>3 DEF Ends
    <2>3. ASSUME About(p, t) /\ p.op = "subscribe" /\ Silent(r, t)
          PROVE  Ends(s, t)
      <3>1. 1 \in 1..Len(s) /\ s[1].op = "subscribe" /\ s[1].topic = t
        BY <1>1, <2>3 DEF About
      <3>2. \A j \in (1 + 1)..Len(s) : j \in 1..Len(s) /\ j # 1
        BY <1>1
      <3>3. \A j \in (1 + 1)..Len(s) : ~Auth(s[j]) => s[j].topic # t
        BY <1>2, <2>3, <3>2 DEF Silent
      <3>4. QED
        BY <3>1, <3>3 DEF Ends
    <2>4. QED
      BY <2>1, <2>2, <2>3
  <1>6. After(s, T) = After(r, Done(p, T))
    BY <1>4, <1>5 DEF After, Done
  <1>7. ASSUME NEW t
        PROVE  ~(Ends(r, t) /\ Silent(r, t))
    BY DEF Ends, Silent, Auth
  <1>8. \A t \in Topics : (t \in After(s, T) <=> t \in T)
                       => (t \in After(r, T) <=> t \in T)
    <2>1. SUFFICES ASSUME NEW t \in Topics, t \in After(s, T) <=> t \in T
                   PROVE  t \in After(r, T) <=> t \in T
      OBVIOUS
    <2>2. CASE Silent(r, t)
      BY <1>7, <2>2 DEF After
    <2>3. CASE ~Silent(r, t)
      BY <1>4, <1>5, <2>1, <2>3 DEF After
    <2>4. QED
      BY <2>2, <2>3
  <1>9. QED
    BY <1>6, <1>8 DEF r, p

\* An authentication in front changes nothing.
LEMMA AfterPrepend ==
  ASSUME NEW s, IsSeq(s), NEW p, Auth(p), NEW T
  PROVE  After(<<p>> \o s, T) = After(s, T)
  <1> DEFINE r == <<p>> \o s
  <1>1. /\ IsSeq(r) /\ Len(r) = Len(s) + 1 /\ Len(s) \in Nat
        /\ \A i \in 1..Len(s) : r[i + 1] = s[i]
        /\ r[1] = p
    BY PrependIsSeq, LenNat
  <1> HIDE DEF r
  <1>2. r # <<>>
    BY <1>1, EmptyIsSeq
  <1>3. Head(r) = p /\ IsSeq(Tail(r)) /\ Len(Tail(r)) = Len(s)
        /\ \A i \in 1..Len(s) : Tail(r)[i] = s[i]
    BY <1>1, <1>2, TailIsSeq
  <1>4. \A t : (Silent(Tail(r), t) <=> Silent(s, t)) /\ (Ends(Tail(r), t) <=> Ends(s, t))
    <2> DEFINE u == Tail(r)
    <2>1. Len(u) = Len(s) /\ \A i \in 1..Len(s) : u[i] = s[i]
      BY <1>3
    <2>2. \A i \in 1..Len(s) : \A j \in (i + 1)..Len(s) : j \in 1..Len(s) /\ u[j] = s[j]
      BY <1>1, <2>1
    <2> HIDE DEF u
    <2>3. \A t : Silent(u, t) <=> Silent(s, t)
      BY <2>1 DEF Silent
    <2>4. ASSUME NEW t
          PROVE  Ends(u, t) <=> Ends(s, t)
      <3>1. ASSUME NEW i \in 1..Len(s)
            PROVE  (\A j \in (i + 1)..Len(u) : ~Auth(u[j]) => u[j].topic # t)
                     <=> (\A j \in (i + 1)..Len(s) : ~Auth(s[j]) => s[j].topic # t)
        BY <2>1, <2>2
      <3>2. QED
        BY <2>1, <3>1 DEF Ends
    <2>5. QED
      BY <2>3, <2>4 DEF u
  <1>5. After(r, T) = After(Tail(r), Done(p, T))
    BY <1>1, <1>2, <1>3, AfterTail
  <1>6. QED
    BY <1>4, <1>5 DEF After, Done, About, r
-----------------------------------------------------------------------------
(* The sets and the server agree.                                           *)

Replaying == pc[Net] \in {"replay", "push"}

\* The topics of the application once the calls that have begun are over.
Wanted == Registered \cup {t \in {argument.topic} : pc[App] = "register"}

\* Those that no call is about to queue the unsubscription of.
Certain == {t \in Topics : ~(pc[App] = "unsubscribe" /\ t = argument.topic)}

Agree(A, B) == \A t \in Certain : t \in A <=> t \in B

\* Those that HandleReconnect has still to queue.
InVectors(t) ==
  \E v \in 1..2 : \E k \in 1..Len(vectors[v]) :
    /\ t = vectors[v][k]
    /\ replayed.stage < v \/ (replayed.stage = v /\ replayed.i <= k)
InFlags(t) ==
  /\ t \in active
  /\ replayed.stage < 3 \/ \E k \in 1..Len(Flags) : t = Flags[k] /\ replayed.i <= k
ToReplay ==
  {t \in Topics :
     Replaying /\ ((pc[Net] = "push" /\ t = replayed.topic) \/ InVectors(t) \/ InFlags(t))}

\* What is queued does not change what the application wants.
QueueAgrees == sound => Agree(After(queue, Wanted), Wanted)

\* What is on its way, queued, and to be replayed makes it of what the server has.
ServerAgrees ==
  sound /\ link = "up" =>
    Agree(After(queue, After(wire, server.topics)) \cup ToReplay, Wanted)

\* No call is made while a sound connection is replayed.
NoOverlap ==
  sound => /\ Replaying => ~Asking
           /\ pc[Net] = "push" => replayed.topic \in Registered

\* The server takes p.
Good(p) == Auth(p) /\ p.token \in {{}, {p.identity}}
Opens(s) == \E i \in 1..Len(s) : Good(s[i])

\* Every subscription in s has an authentication in front of it that is taken.
Guarded(s) == \A j \in 1..Len(s) : Auth(s[j]) \/ \E i \in 1..j : Good(s[i])

NobodyAsks ==
  ~Replaying /\ ~Asking /\ (logins = 0 \/ pc[App] = "authenticate")

\* The server has taken an authentication before the first subscription comes.
Admitted ==
  sound /\ link = "up" /\ ~server.authenticated =>
    /\ Guarded(wire) /\ (Opens(wire) \/ Guarded(queue))
    /\ Opens(wire) \/ Opens(queue) \/ NobodyAsks

SyncInv == TypeInv /\ QueueAgrees /\ ServerAgrees /\ NoOverlap /\ Admitted
-----------------------------------------------------------------------------
(* Authentications that the server takes.                                   *)

LEMMA EmptyAdmits == Guarded(<<>>) /\ ~Opens(<<>>)
  BY EmptyIsSeq DEF Guarded, Opens

LEMMA AppendAdmits ==
  ASSUME NEW s, IsSeq(s), NEW p
  PROVE  /\ Opens(Append(s, p)) <=> Opens(s) \/ Good(p)
         /\ Guarded(s) /\ (Auth(p) \/ Opens(s)) => Guarded(Append(s, p))
  <1> DEFINE r == Append(s, p)
  <1>1. /\ Len(s) \in Nat /\ Len(r) = Len(s) + 1
        /\ \A i \in 1..Len(s) : r[i] = s[i]
        /\ r[Len(s) + 1] = p
    BY AppendIsSeq, LenNat
  <1> HIDE DEF r
  <1>2. \A i \in 1..Len(r) : i \in 1..Len(s) \/ i = Len(s) + 1
    BY <1>1
  <1>3. /\ \A i \in 1..Len(s) : i \in 1..Len(r) /\ i \in 1..(Len(s) + 1)
        /\ Len(s) + 1 \in 1..Len(r)
        /\ \A j \in 1..Len(s) : \A i \in 1..j : i \in 1..Len(s)
    BY <1>1
  <1>4. Opens(r) <=> Opens(s) \/ Good(p)
    BY <1>1, <1>2, <1>3 DEF Opens
  <1>5. ASSUME Guarded(s), Auth(p) \/ Opens(s)
        PROVE  Guarded(r)
    <2>1. ASSUME NEW j \in 1..Len(s)
          PROVE  Auth(r[j]) \/ \E i \in 1..j : Good(r[i])
      BY <1>1, <1>3, <1>5, <2>1 DEF Guarded
    <2>2. Auth(p) \/ \E i \in 1..(Len(s) + 1) : Good(r[i])
      BY <1>1, <1>3, <1>5 DEF Opens
    <2>3. QED
      BY <1>1, <1>2, <2>1, <2>2 DEF Guarded
  <1>6. QED
    BY <1>4, <1>5 DEF r

LEMMA TailAdmits ==
  ASSUME NEW s, IsSeq(s), s # <<>>
  PROVE  /\ Opens(s) <=> Opens(Tail(s)) \/ Good(Head(s))
         /\ Guarded(s) => Auth(Head(s)) /\ (Good(Head(s)) \/ Guarded(Tail(s)))
  <1> DEFINE r == Tail(s)
             p == Head(s)
  <1>1. /\ Len(s) \in Nat \ {0} /\ Len(r) \in Nat /\ Len(r) = Len(s) - 1
        /\ \A i \in 1..Len(r) : r[i] = s[i + 1]
        /\ p = s[1]
    BY TailIsSeq, LenNat
  <1> HIDE DEF r, p
  <1>2. \A i \in 1..Len(s) : i = 1 \/ (i - 1 \in 1..Len(r) /\ s[i] = r[i - 1])
    <2>1. ASSUME NEW i \in 1..Len(s), i # 1
          PROVE  i - 1 \in 1..Len(r) /\ s[i] = r[i - 1]
      <3>1. i - 1 \in 1..Len(r) /\ (i - 1) + 1 = i
        BY <1>1, <2>1
      <3>2. QED
        BY <1>1, <3>1
    <2>2. QED
      BY <2>1
  <1>3. 1 \in 1..Len(s) /\ \A i \in 1..Len(r) : i + 1 \in 1..Len(s)
    BY <1>1
  <1>4. Opens(s) <=> Opens(r) \/ Good(p)
    BY <1>1, <1>2, <1>3 DEF Opens
  <1>5. ASSUME Guarded(s)
        PROVE  Auth(p)
    <2>1. Auth(s[1]) \/ \E i \in 1..1 : Good(s[i])
      BY <1>3, <1>5 DEF Guarded
    <2>2. QED
      BY <1>1, <2>1 DEF Good
  <1>6. ASSUME Guarded(s), ~Good(p)
        PROVE  Guarded(r)
    <2>1. SUFFICES ASSUME NEW j \in 1..Len(r), ~Auth(r[j])
                   PROVE  \E i \in 1..j : Good(r[i])
      BY DEF Guarded
    <2>2. PICK i \in 1..(j + 1) : Good(s[i])
      BY <1>1, <1>3, <1>6, <2>1 DEF Guarded
    <2>3. i # 1 /\ i \in 1..Len(s)
      BY <1>1, <1>6, <2>2
    <2>4. i - 1 \in 1..j /\ s[i] = r[i - 1]
      BY <1>1, <1>2, <2>3
    <2>5. QED
      BY <2>2, <2>4
  <1>7. QED
    BY <1>4, <1>5, <1>6 DEF r, p

LEMMA PrependAdmits ==
  ASSUME NEW s, IsSeq(s), NEW p, Good(p)
  PROVE  Guarded(<<p>> \o s) /\ Opens(<<p>> \o s)
  <1> DEFINE r == <<p>> \o s
  <1>1. Len(r) = Len(s) + 1 /\ Len(s) \in Nat /\ r[1] = p
    BY PrependIsSeq, LenNat
  <1> HIDE DEF r
  <1>2. 1 \in 1..Len(r) /\ \A j \in 1..Len(r) : 1 \in 1..j
    BY <1>1
  <1>3. QED
    BY <1>1, <1>2 DEF Guarded, Opens, r
-----------------------------------------------------------------------------
(* SyncInv is inductive.                                                    *)

\* After looks at one topic at a time.
LEMMA AfterPointwise ==
  ASSUME NEW s, NEW T, NEW U, NEW t \in Topics, t \in T <=> t \in U
  PROVE  t \in After(s, T) <=> t \in After(s, U)
  BY DEF After

LEMMA VectorsAreSeqs ==
  ASSUME TypeInv
  PROVE  vectors[1] \in Seq(Topics) /\ vectors[2] \in Seq(Topics)
  <1>1. vectors \in Seq(Seq(Topics)) /\ Len(vectors) = 2
    BY DEF TypeInv, Sets
  <1>2. 1 \in 1..Len(vectors) /\ 2 \in 1..Len(vectors)
    BY <1>1
  <1> DEFINE S == Seq(Topics)
  <1>3. vectors \in Seq(S)
    BY <1>1
  <1> HIDE DEF S
  <1>4. vectors[1] \in S /\ vectors[2] \in S
    BY <1>2, <1>3, ElementOfSeq
  <1>5. QED
    BY <1>4 DEF S

LEMMA PathIsSeq ==
  ASSUME TypeInv
  PROVE  /\ IsSeq(queue) /\ IsSeq(wire) /\ IsSeq(answers)
         /\ server.topics \in SUBSET Topics /\ server.authenticated \in BOOLEAN
         /\ Registered \subseteq Topics
  <1>1. vectors[1] \in Seq(Topics) /\ vectors[2] \in Seq(Topics)
    BY VectorsAreSeqs
  <1>2. Range(vectors[1]) \subseteq Topics /\ Range(vectors[2]) \subseteq Topics
    BY <1>1 DEF Range
  <1>3. active \subseteq Topics
    BY DEF TypeInv, Sets, Topics
  <1>4. QED
    BY <1>2, <1>3 DEF TypeInv, PathOK, IsSeq, Registered

CallPlaces == {"idle", "subscribe", "register", "unsubscribe", "authenticate"}
LoopPlaces == {"idle", "replay", "push"}

\* A step of a call is none of the replay, and the other way round: even when
\* one thread does both.
LEMMA AppMoves ==
  ASSUME TypeInv, pc[App] \in CallPlaces, NEW where \in CallPlaces, Goto(App, where)
  PROVE  /\ pc'[App] = where
         /\ Replaying' <=> Replaying
         /\ pc'[Net] = "push" <=> pc[Net] = "push"
  BY DEF TypeInv, ThreadOK, Goto, Replaying, CallPlaces

LEMMA NetMoves ==
  ASSUME TypeInv, pc[Net] \in LoopPlaces, NEW where \in LoopPlaces, Goto(Net, where)
  PROVE  /\ pc'[Net] = where /\ pc'[App] \in {pc[App], where}
         /\ pc'[App] = pc[App] \/ (pc[App] \in LoopPlaces /\ pc'[App] \in LoopPlaces)
         /\ Asking' <=> Asking
  BY DEF TypeInv, ThreadOK, Goto, Asking, LoopPlaces

\* What is to be replayed changes only with the sets and with the replay.
LEMMA ToReplayKept ==
  ASSUME UNCHANGED <<setVars, replayed>>, Replaying' <=> Replaying,
         pc'[Net] = "push" <=> pc[Net] = "push"
  PROVE  ToReplay' = ToReplay
  BY DEF ToReplay, InVectors, InFlags, setVars

LEMMA NoReplay ==
  ASSUME ~Replaying
  PROVE  ToReplay = {}
  BY DEF ToReplay

LEMMA SyncInit == Init => SyncInv
  <1> SUFFICES ASSUME Init
               PROVE  SyncInv
    OBVIOUS
  <1>1. TypeInv
    BY TypeInit
  <1>2. /\ queue = <<>> /\ wire = <<>> /\ server = Forgotten /\ logins = 0
        /\ pc[App] = "idle" /\ pc[Net] = "idle" /\ ~Replaying /\ ~Asking
        /\ vectors = <<<<>>, <<>>>> /\ active = {}
    BY DEF Init, Replaying, Asking
  <1>3. Registered = {} /\ Wanted = {} /\ ToReplay = {}
    <2>1. Registered = {}
      BY <1>2 DEF Registered, Range
    <2>2. QED
      BY <1>2, <2>1, NoReplay DEF Wanted
  <1>4. After(<<>>, {}) = {} /\ server.topics = {}
    BY <1>2, AfterNothing DEF Forgotten
  <1>5. QueueAgrees /\ ServerAgrees
    BY <1>2, <1>3, <1>4 DEF QueueAgrees, ServerAgrees, Agree
  <1>6. NoOverlap
    BY <1>2 DEF NoOverlap, Replaying
  <1>7. Admitted
    BY <1>2, EmptyAdmits DEF Admitted, NobodyAsks
  <1>8. QED
    BY <1>1, <1>5, <1>6, <1>7 DEF SyncInv

LEMMA SyncBegin ==
  ASSUME SyncInv, TypeInv', NEW topic \in Topics,
         BeginSubscribe(topic) \/ BeginUnsubscribe(topic)
  PROVE  SyncInv'
  <1>0. TypeInv
    BY DEF SyncInv
  <1>1. /\ UNCHANGED <<queue, wire, server, link, logins, replayed>>
        /\ pc[App] = "idle" /\ logins > 0 /\ argument'.topic = topic
        /\ sound' = (sound /\ ~Overlapping)
        /\ \/ Goto(App, "subscribe") /\ UNCHANGED setVars
           \/ Goto(App, "unsubscribe") /\ Unregister(topic)
    BY <1>0 DEF BeginSubscribe, BeginUnsubscribe, BeginCall, linkVars, TypeInv, ThreadOK
  <1>2. /\ Replaying' <=> Replaying
        /\ pc'[Net] = "push" <=> pc[Net] = "push"
        /\ pc'[App] \in {"subscribe", "unsubscribe"}
    BY <1>0, <1>1, AppMoves DEF CallPlaces
  <1>3. sound' => sound /\ ~Replaying /\ ~Replaying'
    BY <1>1, <1>2 DEF Overlapping, Replaying
  <1>4. sound' => ToReplay = {} /\ ToReplay' = {}
    <2>1. ~Replaying' => ToReplay' = {}
      BY DEF ToReplay
    <2>2. QED
      BY <1>3, <2>1, NoReplay
  <1>5. Wanted = Registered /\ Certain = Topics /\ Wanted' = Registered'
    <2>1. pc[App] = "idle" /\ pc'[App] # "register"
      BY <1>1, <1>2
    <2>2. QED
      BY <2>1 DEF Wanted, Certain
  <1>6. NoOverlap'
    BY <1>2, <1>3 DEF NoOverlap, Replaying
  <1>7. Admitted'
    <2>1. ~NobodyAsks
      BY <1>1 DEF NobodyAsks
    <2>2. QED
      BY <1>1, <2>1 DEF Admitted, SyncInv
  <1>8. ASSUME NEW t \in Certain'
        PROVE  /\ t \in Topics
               /\ t \in Wanted <=> t \in Wanted'
    <2>1. t \in Topics
      BY <1>8 DEF Certain
    <2>2. CASE Goto(App, "subscribe") /\ UNCHANGED setVars
      BY <1>5, <2>1, <2>2 DEF Registered, setVars
    <2>3. CASE Goto(App, "unsubscribe") /\ Unregister(topic)
      <3>1. Registered' = Registered \ {topic}
        BY <1>0, <2>3, UnregisterFacts DEF TypeInv
      <3>2. pc'[App] = "unsubscribe"
        BY <1>0, <1>1, <2>3, AppMoves DEF CallPlaces
      <3>3. t # topic
        BY <1>1, <1>8, <3>2 DEF Certain
      <3>4. QED
        BY <1>5, <2>1, <3>1, <3>3
    <2>4. QED
      BY <1>1, <2>2, <2>3
  <1>9. QueueAgrees'
    <2>1. SUFFICES ASSUME sound', NEW t \in Certain'
                   PROVE  t \in After(queue', Wanted') <=> t \in Wanted'
      BY DEF QueueAgrees, Agree
    <2>2. t \in After(queue, Wanted) <=> t \in Wanted
      BY <1>3, <1>5, <1>8, <2>1 DEF SyncInv, QueueAgrees, Agree
    <2>3. t \in After(queue, Wanted') <=> t \in After(queue, Wanted)
      BY <1>8, AfterPointwise
    <2>4. QED
      BY <1>1, <1>8, <2>2, <2>3
  <1>10. ServerAgrees'
    <2>1. SUFFICES ASSUME sound', link' = "up", NEW t \in Certain'
                   PROVE  t \in (After(queue', After(wire', server'.topics)) \cup ToReplay')
                            <=> t \in Wanted'
      BY DEF ServerAgrees, Agree
    <2>2. t \in (After(queue, After(wire, server.topics)) \cup ToReplay) <=> t \in Wanted
      BY <1>1, <1>3, <1>5, <1>8, <2>1 DEF SyncInv, ServerAgrees, Agree
    <2>3. QED
      BY <1>1, <1>4, <1>8, <2>1, <2>2
  <1>11. QED
    BY <1>6, <1>7, <1>9, <1>10 DEF SyncInv

\* The rest of the calls that subscribe and unsubscribe.
LEMMA SyncAsking ==
  ASSUME SyncInv, TypeInv', PushSubscribe \/ RegisterTopic \/ PushUnsubscribe
  PROVE  SyncInv'
  <1> DEFINE x == argument.topic
  <1>0. TypeInv /\ Asking /\ x \in Topics \ Registered
    BY DEF SyncInv, TypeInv, ThreadOK, Asking, PushSubscribe, RegisterTopic,
           PushUnsubscribe
  <1>1. /\ UNCHANGED <<wire, server, link, logins, replayed, sound>>
        /\ pc[App] \in CallPlaces /\ \E where \in CallPlaces : Goto(App, where)
    BY DEF PushSubscribe, RegisterTopic, PushUnsubscribe, Return, linkVars, countVars,
           CallPlaces
  <1>2. /\ Replaying' <=> Replaying
        /\ pc'[Net] = "push" <=> pc[Net] = "push"
    BY <1>0, <1>1, AppMoves
  <1>3. sound => ~Replaying /\ ToReplay = {} /\ ToReplay' = {}
    <2>1. ~Replaying' => ToReplay' = {}
      BY DEF ToReplay
    <2>2. QED
      BY <1>0, <1>2, <2>1, NoReplay DEF SyncInv, NoOverlap
  <1>4. NoOverlap'
    BY <1>1, <1>2, <1>3 DEF NoOverlap, Replaying
  <1>5. ASSUME NEW p, ~Auth(p), queue' = Append(queue, p)
        PROVE  Admitted'
    <2>1. ~NobodyAsks /\ IsSeq(queue)
      BY <1>0, PathIsSeq DEF NobodyAsks
    <2>2. /\ Opens(queue') <=> Opens(queue) \/ Good(p)
          /\ Guarded(queue) /\ Opens(queue) => Guarded(queue')
      BY <1>5, <2>1, AppendAdmits
    <2>3. QED
      BY <1>1, <2>1, <2>2 DEF Admitted, SyncInv
  <1>6. ASSUME NEW p, queue' = Append(queue, p), NEW T
        PROVE  After(queue', T) = Done(p, After(queue, T))
    BY <1>0, <1>6, AfterAppend, PathIsSeq
  <1>7. CASE PushSubscribe
    <2> DEFINE p == Subscription("subscribe", x)
    <2>1. /\ pc[App] = "subscribe" /\ queue' = Append(queue, p)
          /\ UNCHANGED <<setVars, argument>> /\ Goto(App, "register")
      BY <1>7 DEF PushSubscribe, QueuePayload
    <2>2. ~Auth(p) /\ \A t : About(p, t) <=> t = x
      BY DEF Subscription, Auth, About
    <2>3. p.op = "subscribe"
      BY DEF Subscription
    <2> HIDE DEF p
    <2>4. pc'[App] = "register"
      BY <1>0, <2>1, AppMoves DEF CallPlaces
    <2>5. Certain = Topics /\ Certain' = Topics /\ Registered' = Registered
      BY <2>1, <2>4 DEF Certain, Registered, setVars
    <2>6. Wanted = Registered /\ Wanted' = Registered \cup {x}
      BY <2>1, <2>4, <2>5 DEF Wanted
    <2>7. \A T : After(queue', T) = Done(p, After(queue, T))
      BY <1>6, <2>1
    <2>8. QueueAgrees'
      <3>1. SUFFICES ASSUME sound, NEW t \in Topics
                     PROVE  t \in After(queue', Wanted') <=> t \in Wanted'
        BY <1>1, <2>5 DEF QueueAgrees, Agree
      <3>2. t \in After(queue, Wanted) <=> t \in Wanted
        BY <2>5, <3>1 DEF SyncInv, QueueAgrees, Agree
      <3>3. t # x => (t \in After(queue, Wanted') <=> t \in After(queue, Wanted))
        BY <2>6, AfterPointwise
      <3>4. QED
        BY <2>2, <2>3, <2>6, <2>7, <3>2, <3>3 DEF Done
    <2>9. ServerAgrees'
      <3> DEFINE T == After(wire, server.topics)
      <3>1. SUFFICES ASSUME sound, link = "up", NEW t \in Topics
                     PROVE  t \in After(queue', T) <=> t \in Wanted'
        BY <1>1, <1>3, <2>5 DEF ServerAgrees, Agree
      <3>2. t \in After(queue, T) <=> t \in Wanted
        BY <1>3, <2>5, <3>1 DEF SyncInv, ServerAgrees, Agree
      <3> HIDE DEF T
      <3>3. QED
        BY <2>2, <2>3, <2>6, <2>7, <3>2 DEF Done
    <2>10. QED
      BY <1>4, <1>5, <2>1, <2>2, <2>8, <2>9 DEF SyncInv
  <1>8. CASE RegisterTopic
    <2>1. /\ pc[App] = "register" /\ UNCHANGED queue
          /\ Goto(App, "idle") /\ Register(x)
      BY <1>8 DEF RegisterTopic, Return
    <2>2. Registered' = Registered \cup {x}
      BY <1>0, <2>1, RegisterFacts DEF TypeInv
    <2>3. pc'[App] = "idle"
      BY <1>0, <2>1, AppMoves DEF CallPlaces
    <2>4. Certain = Topics /\ Certain' = Topics /\ Wanted' = Wanted
      BY <2>1, <2>2, <2>3 DEF Certain, Wanted
    <2>5. QueueAgrees' /\ ServerAgrees'
      BY <1>1, <1>3, <2>1, <2>4 DEF SyncInv, QueueAgrees, ServerAgrees, Agree
    <2>6. Admitted'
      <3>1. ~NobodyAsks
        BY <1>0 DEF NobodyAsks
      <3>2. QED
        BY <1>1, <2>1, <3>1 DEF SyncInv, Admitted
    <2>7. QED
      BY <1>4, <2>5, <2>6 DEF SyncInv
  <1>9. CASE PushUnsubscribe
    <2> DEFINE p == Subscription("unsubscribe", x)
    <2>1. /\ pc[App] = "unsubscribe" /\ queue' = Append(queue, p)
          /\ UNCHANGED setVars /\ Goto(App, "idle")
      BY <1>9 DEF PushUnsubscribe, QueuePayload, Return
    <2>2. ~Auth(p) /\ \A t : About(p, t) <=> t = x
      BY DEF Subscription, Auth, About
    <2>3. p.op # "subscribe"
      BY DEF Subscription
    <2> HIDE DEF p
    <2>4. pc'[App] = "idle"
      BY <1>0, <2>1, AppMoves DEF CallPlaces
    <2>5. Certain = Topics \ {x} /\ Certain' = Topics /\ Registered' = Registered
      BY <2>1, <2>4 DEF Certain, Registered, setVars
    <2>6. Wanted = Registered /\ Wanted' = Registered /\ x \notin Registered
      BY <1>0, <2>1, <2>4, <2>5 DEF Wanted
    <2>7. \A T : After(queue', T) = Done(p, After(queue, T))
      BY <1>6, <2>1
    <2>8. QueueAgrees'
      <3>1. SUFFICES ASSUME sound, NEW t \in Topics
                     PROVE  t \in After(queue', Registered) <=> t \in Registered
        BY <1>1, <2>5, <2>6 DEF QueueAgrees, Agree
      <3>2. t # x => (t \in After(queue, Registered) <=> t \in Registered)
        BY <2>5, <2>6, <3>1 DEF SyncInv, QueueAgrees, Agree
      <3>3. QED
        BY <2>2, <2>3, <2>6, <2>7, <3>2 DEF Done
    <2>9. ServerAgrees'
      <3> DEFINE T == After(wire, server.topics)
      <3>1. SUFFICES ASSUME sound, link = "up", NEW t \in Topics
                     PROVE  t \in After(queue', T) <=> t \in Registered
        BY <1>1, <1>3, <2>5, <2>6 DEF ServerAgrees, Agree
      <3>2. t # x => (t \in After(queue, T) <=> t \in Registered)
        BY <1>3, <2>5, <2>6, <3>1 DEF SyncInv, ServerAgrees, Agree
      <3> HIDE DEF T
      <3>3. QED
        BY <2>2, <2>3, <2>6, <2>7, <3>2 DEF Done
    <2>10. QED
      BY <1>4, <1>5, <2>1, <2>2, <2>8, <2>9 DEF SyncInv
  <1>10. QED
    BY <1>7, <1>8, <1>9

\* What leaves the sets, the queue and the server as they are.
LEMMA SyncFrame ==
  ASSUME SyncInv, TypeInv', UNCHANGED <<setVars, queue, wire, server, link, replayed, sound>>,
         Asking' <=> Asking, Replaying' <=> Replaying,
         pc'[Net] = "push" <=> pc[Net] = "push",
         Asking => pc'[App] = pc[App] /\ argument' = argument,
         NobodyAsks => NobodyAsks'
  PROVE  SyncInv'
  <1>1. ToReplay' = ToReplay
    BY ToReplayKept
  <1>2. Registered' = Registered
    BY DEF Registered, setVars
  <1>3. Wanted' = Wanted /\ Certain' = Certain
    BY <1>2 DEF Wanted, Certain, Asking
  <1>4. QueueAgrees' /\ ServerAgrees'
    BY <1>1, <1>3 DEF SyncInv, QueueAgrees, ServerAgrees, Agree
  <1>5. NoOverlap' /\ Admitted'
    BY <1>2 DEF SyncInv, NoOverlap, Admitted
  <1>6. QED
    BY <1>4, <1>5 DEF SyncInv

\* An authentication is queued that the server will take.
LEMMA SyncLogin ==
  ASSUME SyncInv, TypeInv',
         \/ \E who \in Identities : BeginAuthenticate(who)
         \/ PushAuthenticate \/ Deauthenticate \/ ReceiveAuthenticated
  PROVE  SyncInv'
  <1>0. TypeInv
    BY DEF SyncInv
  <1>1. CASE \E who \in Identities : BeginAuthenticate(who)
    <2>1. /\ UNCHANGED <<setVars, queue, wire, server, link, replayed, sound>>
          /\ pc[App] = "idle" /\ Goto(App, "authenticate")
      BY <1>1 DEF BeginAuthenticate, linkVars
    <2>2. /\ pc'[App] = "authenticate" /\ (Replaying' <=> Replaying)
          /\ pc'[Net] = "push" <=> pc[Net] = "push"
      BY <1>0, <2>1, AppMoves DEF CallPlaces
    <2>3. ~Asking /\ ~Asking' /\ (NobodyAsks => NobodyAsks')
      BY <2>1, <2>2 DEF Asking, NobodyAsks
    <2>4. QED
      BY <2>1, <2>2, <2>3, SyncFrame
  <1>2. CASE PushAuthenticate
    <2> DEFINE p == Authentication(argument.identity, {}, logins)
    <2>1. /\ UNCHANGED <<setVars, wire, server, link, replayed, sound>>
          /\ pc[App] = "authenticate" /\ Goto(App, "idle") /\ queue' = Append(queue, p)
      BY <1>2 DEF PushAuthenticate, QueuePayload, Return, linkVars
    <2>2. /\ pc'[App] = "idle" /\ (Replaying' <=> Replaying)
          /\ pc'[Net] = "push" <=> pc[Net] = "push"
      BY <1>0, <2>1, AppMoves DEF CallPlaces
    <2>3. Good(p) /\ Auth(p)
      BY DEF Authentication, Good, Auth
    <2> HIDE DEF p
    <2>4. \A T : After(queue', T) = After(queue, T)
      <3>1. \A T : After(queue', T) = Done(p, After(queue, T))
        BY <1>0, <2>1, AfterAppend, PathIsSeq
      <3>2. QED
        BY <2>3, <3>1 DEF Done, About, After
    <2>5. ToReplay' = ToReplay /\ Registered' = Registered
      BY <2>1, <2>2, ToReplayKept DEF Registered, setVars
    <2>6. Wanted' = Wanted /\ Certain' = Certain
      BY <2>1, <2>2, <2>5 DEF Wanted, Certain
    <2>7. QueueAgrees' /\ ServerAgrees'
      BY <2>1, <2>4, <2>5, <2>6 DEF SyncInv, QueueAgrees, ServerAgrees, Agree
    <2>8. NoOverlap'
      BY <2>1, <2>2, <2>5 DEF SyncInv, NoOverlap, Asking
    <2>9. Admitted'
      <3>1. IsSeq(queue)
        BY <1>0, PathIsSeq
      <3>2. Opens(queue') /\ (Guarded(queue) => Guarded(queue'))
        BY <2>1, <2>3, <3>1, AppendAdmits
      <3>3. QED
        BY <2>1, <3>2 DEF SyncInv, Admitted
    <2>10. QED
      BY <2>7, <2>8, <2>9 DEF SyncInv
  <1>3. CASE Deauthenticate \/ ReceiveAuthenticated
    <2>1. UNCHANGED <<setVars, queue, wire, server, link, replayed, sound, pc, argument,
                      logins>>
      BY <1>3 DEF Deauthenticate, ReceiveAuthenticated, threadVars, linkVars, countVars
    <2>2. QED
      BY <2>1, SyncFrame DEF Asking, Replaying, NobodyAsks
  <1>4. QED
    BY <1>1, <1>2, <1>3

\* HandleReconnect.
LEMMA SyncReconnect ==
  ASSUME SyncInv, TypeInv', HandleReconnect
  PROVE  SyncInv'
  <1>0. TypeInv
    BY DEF SyncInv
  <1>1. SUFFICES ASSUME sound'
                 PROVE  QueueAgrees' /\ ServerAgrees' /\ NoOverlap' /\ Admitted'
    BY DEF SyncInv, QueueAgrees, ServerAgrees, NoOverlap, Admitted
  <1> DEFINE p == Authentication(stored, refresh, 0)
  <1>2. /\ UNCHANGED <<setVars, argument, wire, server, logins>>
        /\ queue' = <<p>> \o queue /\ Goto(Net, "replay")
        /\ replayed' = [stage |-> 1, i |-> 1, topic |-> None]
        /\ refresh = {stored} /\ pc[App] \in {"idle", "authenticate"}
        /\ sound \/ queue = <<>>
        /\ pc[Net] = "idle" /\ link = "fresh"
    BY <1>1 DEF HandleReconnect, PushFront, countVars
  <1>3. Auth(p) /\ Good(p)
    BY <1>2 DEF Authentication, Auth, Good
  <1> HIDE DEF p
  <1>4. /\ pc'[Net] = "replay" /\ pc'[App] \in {"idle", "authenticate", "replay"}
        /\ ~Asking' /\ Replaying'
    <2>1. pc[Net] \in LoopPlaces /\ "replay" \in LoopPlaces
      BY <1>2 DEF LoopPlaces
    <2>2. pc'[Net] = "replay" /\ pc'[App] \in {pc[App], "replay"} 
      BY <1>0, <1>2, <2>1, NetMoves
    <2>3. QED
      BY <1>2, <2>2 DEF Asking, Replaying
  <1>5. wire = <<>> /\ server.topics = {}
    BY <1>0, <1>2 DEF TypeInv, PathOK, Forgotten
  <1>6. /\ Registered' = Registered /\ Registered \subseteq Topics
        /\ Wanted = Registered /\ Wanted' = Registered
        /\ Certain = Topics /\ Certain' = Topics
    BY <1>0, <1>2, <1>4, PathIsSeq DEF Registered, Wanted, Certain, setVars
  <1>7. IsSeq(queue) /\ \A T : After(queue', T) = After(queue, T)
    BY <1>0, <1>2, <1>3, AfterPrepend, PathIsSeq
  <1>8. Agree(After(queue, Registered), Registered)
    <2>1. CASE sound
      BY <1>6, <2>1 DEF SyncInv, QueueAgrees
    <2>2. CASE queue = <<>>
      BY <1>6, <2>2, AfterNothing DEF Agree
    <2>3. QED
      BY <1>2, <2>1, <2>2
  <1>9. QueueAgrees'
    BY <1>6, <1>7, <1>8 DEF QueueAgrees, Agree
  <1>10. ASSUME NEW t \in Topics
         PROVE  t \in ToReplay' <=> t \in Registered
    <2>1. /\ DOMAIN vectors[1] = 1..Len(vectors[1])
          /\ DOMAIN vectors[2] = 1..Len(vectors[2])
      <3>1. vectors[1] \in Seq(Topics) /\ vectors[2] \in Seq(Topics)
        BY <1>0, VectorsAreSeqs
      <3>2. QED
        BY <3>1
    <2>2. InFlags(t)' <=> t \in active
      BY <1>2 DEF InFlags, setVars
    <2>3. InVectors(t)' <=> \E v \in 1..2 : \E k \in 1..Len(vectors[v]) : t = vectors[v][k]
      BY <1>2 DEF InVectors, setVars
    <2>4. InVectors(t)' <=> t \in Range(vectors[1]) \cup Range(vectors[2])
      BY <2>1, <2>3 DEF Range
    <2>5. QED
      BY <1>4, <2>2, <2>4 DEF ToReplay, Registered
  <1>11. ServerAgrees'
    <2>1. After(wire', server'.topics) = {}
      BY <1>2, <1>5, AfterNothing
    <2>2. \A t \in Topics : t \in After(queue, {}) => t \in Registered
      BY <1>6, <1>8 DEF After, Agree
    <2>3. QED
      BY <1>6, <1>7, <1>10, <2>1, <2>2 DEF ServerAgrees, Agree
  <1>12. NoOverlap'
    BY <1>4 DEF NoOverlap
  <1>13. Admitted'
    BY <1>2, <1>3, <1>5, <1>7, PrependAdmits, EmptyAdmits DEF Admitted
  <1>14. QED
    BY <1>9, <1>11, <1>12, <1>13

\* A step of the replay that queues nothing leaves what is to be replayed.
LEMMA ReplayKeeps ==
  ASSUME TypeInv, Replay
  PROVE  /\ ToReplay' = ToReplay
         /\ pc'[Net] = "push" => replayed'.topic \in Registered
         /\ \E where \in LoopPlaces : Goto(Net, where) \/ pc' = pc
         /\ Replaying
  <1>1. /\ pc[Net] = "replay" /\ UNCHANGED <<vectors, active>>
        /\ ReplayEntry \/ ReplaySkip
    BY DEF Replay, ReplayEntry, ReplaySkip, setVars
  <1>2. /\ replayed.stage \in 1..3 /\ replayed.i \in Nat \ {0}
        /\ vectors[1] \in Seq(Topics) /\ vectors[2] \in Seq(Topics)
        /\ Flags \in Seq(Topics) /\ Net \in DOMAIN pc
        /\ replayed \in [stage : 1..3, i : Nat \ {0}, topic : Topics \cup {None}]
    <2>2. vectors[1] \in Seq(Topics) /\ vectors[2] \in Seq(Topics)
      BY VectorsAreSeqs
    <2>3. Flags \in Seq(Topics)
      BY TopicsAssumption, SeqMonotonic DEF Topics
    <2>4. QED
      BY <2>2, <2>3 DEF TypeInv, ThreadOK
  <1>3. /\ Len(vectors[1]) \in Nat /\ Len(vectors[2]) \in Nat /\ Len(Flags) \in Nat
    BY <1>2
  <1>4. CASE ReplayEntry
    <2> DEFINE topic == Entries[replayed.i]
               next == replayed.i + 1
    <2>1. /\ replayed.i \in 1..Len(Entries)
          /\ replayed.stage = 3 => Flags[replayed.i] \in active
          /\ replayed' = [replayed EXCEPT !.i = next, !.topic = topic]
          /\ Goto(Net, "push")
      <3>1. Len(Entries) \in Nat
        BY <1>2, <1>3 DEF Entries
      <3>2. QED
        BY <1>2, <1>4, <3>1 DEF ReplayEntry
    <2>2. /\ replayed'.stage = replayed.stage /\ replayed'.i = replayed.i + 1
          /\ replayed'.topic = topic
      <3> HIDE DEF next, topic
      <3>1. /\ replayed'.stage = replayed.stage /\ replayed'.i = next
            /\ replayed'.topic = topic
        BY <1>2, <2>1
      <3>2. QED
        BY <3>1 DEF next
    <2>3. pc'[Net] = "push"
      BY <1>2, <2>1 DEF Goto
    <2>4. topic \in Registered /\ topic \in Topics
      <3>1. CASE replayed.stage = 3
        <4>1. topic \in active
          BY <2>1, <3>1 DEF Entries
        <4>2. QED
          BY <1>2, <2>1, <3>1, <4>1, ElementOfSeq DEF Entries, Registered
      <3>2. CASE replayed.stage = 1
        <4>1. topic = vectors[1][replayed.i] /\ replayed.i \in 1..Len(vectors[1])
          BY <2>1, <3>2 DEF Entries
        <4>2. QED
          BY <1>2, <4>1, ElementOfSeq DEF Registered, Range
      <3>3. CASE replayed.stage = 2
        <4>1. topic = vectors[2][replayed.i] /\ replayed.i \in 1..Len(vectors[2])
          BY <2>1, <3>3 DEF Entries
        <4>2. QED
          BY <1>2, <4>1, ElementOfSeq DEF Registered, Range
      <3>4. QED
        BY <1>2, <3>1, <3>2, <3>3
    <2>5. ASSUME NEW t \in Topics
          PROVE  InVectors(t) \/ InFlags(t) <=> t = topic \/ InVectors(t)' \/ InFlags(t)'
      <3>1. CASE replayed.stage = 3
        <4>1. InVectors(t) <=> FALSE
          BY <3>1 DEF InVectors
        <4>2. InVectors(t)' <=> FALSE
          BY <2>2, <3>1 DEF InVectors
        <4>3. topic = Flags[replayed.i] /\ topic \in active /\ replayed.i \in 1..Len(Flags)
          BY <2>1, <3>1 DEF Entries
        <4>4. \A k \in 1..Len(Flags) : replayed.i <= k <=> k = replayed.i \/ replayed.i + 1 <= k
          BY <1>2, <1>3
        <4>5. InFlags(t) <=> t \in active /\ \E k \in 1..Len(Flags) : t = Flags[k] /\ replayed.i <= k
          BY <3>1 DEF InFlags
        <4>6. InFlags(t)' <=> t \in active /\ \E k \in 1..Len(Flags) : t = Flags[k] /\ replayed.i + 1 <= k
          BY <1>1, <2>2, <3>1 DEF InFlags
        <4> HIDE DEF topic
        <4>7. QED
          BY <4>1, <4>2, <4>3, <4>4, <4>5, <4>6
      <3>2. CASE replayed.stage # 3
        <4> DEFINE v == replayed.stage
        <4>1. v \in 1..2 /\ topic = vectors[v][replayed.i] /\ replayed.i \in 1..Len(vectors[v])
              /\ Len(vectors[v]) \in Nat
          BY <1>2, <1>3, <2>1, <3>2 DEF Entries
        <4>2. \A k \in 1..Len(vectors[v]) : replayed.i <= k <=> k = replayed.i \/ replayed.i + 1 <= k
          BY <1>2, <4>1
        <4>3. InVectors(t) <=>
                \E w \in 1..2 : \E k \in 1..Len(vectors[w]) :
                  t = vectors[w][k] /\ (v < w \/ (v = w /\ replayed.i <= k))
          BY DEF InVectors
        <4>4. InVectors(t)' <=>
                \E w \in 1..2 : \E k \in 1..Len(vectors[w]) :
                  t = vectors[w][k] /\ (v < w \/ (v = w /\ replayed.i + 1 <= k))
          BY <1>1, <2>2 DEF InVectors
        <4>5. InFlags(t)' <=> InFlags(t)
          BY <1>1, <2>2, <4>1 DEF InFlags
        <4> HIDE DEF topic, v
        <4>6. InVectors(t) <=> t = topic \/ InVectors(t)'
          BY <4>1, <4>2, <4>3, <4>4
        <4>7. QED
          BY <4>5, <4>6
      <3>3. QED
        BY <3>1, <3>2
    <2>6. ToReplay' = ToReplay
      <3>1. \A t \in Topics : t \in ToReplay <=> InVectors(t) \/ InFlags(t)
        BY <1>1 DEF ToReplay, Replaying
      <3>2. \A t \in Topics : t \in ToReplay' <=> t = topic \/ InVectors(t)' \/ InFlags(t)'
        BY <2>2, <2>3 DEF ToReplay, Replaying
      <3>3. ToReplay \subseteq Topics /\ ToReplay' \subseteq Topics
        BY DEF ToReplay
      <3>4. QED
        BY <2>5, <3>1, <3>2, <3>3
    <2>7. QED
      BY <1>1, <2>1, <2>2, <2>4, <2>6 DEF LoopPlaces, Replaying
  <1>5. CASE ReplaySkip
    <2>1. ASSUME NEW t \in Topics
          PROVE  (InVectors(t) \/ InFlags(t)) <=>
                   (pc'[Net] = "replay" /\ (InVectors(t)' \/ InFlags(t)'))
      <3>1. CASE /\ replayed.i <= Len(Entries)
                 /\ replayed.stage = 3 /\ Flags[replayed.i] \notin active
                 /\ replayed' = [replayed EXCEPT !.i = @ + 1]
                 /\ UNCHANGED pc
        <4>1. replayed'.stage = 3 /\ replayed'.i = replayed.i + 1 /\ pc'[Net] = "replay"
          BY <1>1, <1>2, <3>1
        <4>2. ~InVectors(t)
          BY <3>1 DEF InVectors
        <4>3. ~InVectors(t)'
          BY <4>1 DEF InVectors
        <4>4. InFlags(t) <=> t \in active /\ \E k \in 1..Len(Flags) : t = Flags[k] /\ replayed.i <= k
          BY <3>1 DEF InFlags
        <4>5. InFlags(t)' <=> t \in active /\ \E k \in 1..Len(Flags) : t = Flags[k] /\ replayed.i + 1 <= k
          BY <1>1, <4>1 DEF InFlags
        <4>6. \A k \in 1..Len(Flags) : replayed.i <= k <=> k = replayed.i \/ replayed.i + 1 <= k
          BY <1>2, <1>3
        <4>7. QED
          BY <3>1, <4>1, <4>2, <4>3, <4>4, <4>5, <4>6
      <3>2. CASE /\ replayed.i > Len(Entries) /\ replayed.stage < 3
                 /\ replayed' = [replayed EXCEPT !.stage = @ + 1, !.i = 1]
                 /\ UNCHANGED pc
        <4> DEFINE v == replayed.stage
                   next == v + 1
        <4>1. v \in 1..2 /\ replayed.i > Len(vectors[v]) /\ Len(vectors[v]) \in Nat
          BY <1>2, <1>3, <3>2 DEF Entries
        <4>2. replayed'.stage = v + 1 /\ replayed'.i = 1 /\ pc'[Net] = "replay"
          <5>1. replayed' = [replayed EXCEPT !.stage = next, !.i = 1]
            BY <3>2
          <5> HIDE DEF next
          <5>2. replayed'.stage = next /\ replayed'.i = 1
            BY <1>2, <5>1
          <5>3. QED
            BY <1>1, <3>2, <5>2 DEF next
        <4>3. \A k \in 1..Len(vectors[v]) : ~(replayed.i <= k)
          BY <1>2, <4>1
        <4>4. InVectors(t) <=>
                \E w \in 1..2 : \E k \in 1..Len(vectors[w]) : t = vectors[w][k] /\ v < w
          BY <4>1, <4>3 DEF InVectors
        <4>5. InVectors(t)' <=>
                \E w \in 1..2 : \E k \in 1..Len(vectors[w]) :
                  t = vectors[w][k] /\ (v + 1 < w \/ (v + 1 = w /\ 1 <= k))
          BY <1>1, <4>2 DEF InVectors
        <4>6. \A w \in 1..2 : \A k \in 1..Len(vectors[w]) :
                v < w <=> (v + 1 < w \/ (v + 1 = w /\ 1 <= k))
          BY <4>1, <1>3
        <4>7. InVectors(t)' <=> InVectors(t)
          BY <4>4, <4>5, <4>6
        <4>8. InFlags(t)' <=> InFlags(t)
          <5>1. InFlags(t) <=> t \in active
            BY <3>2 DEF InFlags
          <5>2. active' = active
            BY <1>1
          <5>3. CASE v = 1
            BY <4>2, <5>1, <5>2, <5>3 DEF InFlags
          <5>4. CASE v = 2
            <6>1. t \in active => \E k \in 1..Len(Flags) : t = Flags[k] /\ 1 <= k
              <7>1. active \subseteq Range(Flags)
                BY DEF TypeInv, Sets
              <7>2. QED
                BY <1>2, <7>1 DEF Range
            <6>2. QED
              BY <4>2, <5>1, <5>2, <5>4, <6>1 DEF InFlags
          <5>5. QED
            BY <4>1, <5>3, <5>4
        <4>9. QED
          BY <4>2, <4>7, <4>8
      <3>3. CASE /\ replayed.i > Len(Entries) /\ replayed.stage = 3
                 /\ Goto(Net, "idle")
        <4>1. pc'[Net] = "idle"
          BY <1>2, <3>3 DEF Goto
        <4>2. \A k \in 1..Len(Flags) : ~(replayed.i <= k)
          BY <1>2, <1>3, <3>3 DEF Entries
        <4>3. ~InVectors(t) /\ ~InFlags(t)
          BY <3>3, <4>2 DEF InVectors, InFlags
        <4>4. QED
          BY <4>1, <4>3
      <3>4. QED
        BY <1>5, <3>1, <3>2, <3>3 DEF ReplaySkip
    <2>2. pc' = pc \/ Goto(Net, "idle")
      BY <1>5 DEF ReplaySkip
    <2>3. pc'[Net] = "replay" \/ pc'[Net] = "idle"
      BY <1>1, <1>2, <2>2 DEF Goto
    <2>4. ToReplay' = ToReplay
      <3>1. \A t \in Topics : t \in ToReplay <=> InVectors(t) \/ InFlags(t)
        BY <1>1 DEF ToReplay, Replaying
      <3>2. \A t \in Topics :
              t \in ToReplay' <=> pc'[Net] = "replay" /\ (InVectors(t)' \/ InFlags(t)')
        BY <2>3 DEF ToReplay, Replaying
      <3>3. ToReplay \subseteq Topics /\ ToReplay' \subseteq Topics
        BY DEF ToReplay
      <3>4. QED
        BY <2>1, <3>1, <3>2, <3>3
    <2>5. QED
      BY <1>1, <2>2, <2>3, <2>4 DEF LoopPlaces, Replaying
  <1>6. QED
    BY <1>1, <1>4, <1>5

LEMMA SyncReplay ==
  ASSUME SyncInv, TypeInv', Replay
  PROVE  SyncInv'
  <1>1. /\ TypeInv /\ Replaying
        /\ UNCHANGED <<setVars, queue, wire, server, link, argument, sound>>
        /\ ToReplay' = ToReplay
        /\ pc'[Net] = "push" => replayed'.topic \in Registered
    BY ReplayKeeps DEF SyncInv, Replay, linkVars
  <1>2. /\ pc'[App] = pc[App] \/ (pc[App] \in LoopPlaces /\ pc'[App] \in LoopPlaces)
        /\ Asking' <=> Asking
    <2>1. pc[Net] \in LoopPlaces
      BY <1>1 DEF Replaying, LoopPlaces
    <2>2. PICK where \in LoopPlaces : Goto(Net, where) \/ pc' = pc
      BY <1>1, ReplayKeeps
    <2>3. QED
      BY <1>1, <2>1, <2>2, NetMoves DEF Asking
  <1>3. Registered' = Registered
    BY <1>1 DEF Registered, setVars
  <1>4. Wanted' = Wanted /\ Certain' = Certain
    BY <1>1, <1>2, <1>3 DEF Wanted, Certain, LoopPlaces
  <1>5. QueueAgrees' /\ ServerAgrees'
    BY <1>1, <1>4 DEF SyncInv, QueueAgrees, ServerAgrees, Agree
  <1>6. NoOverlap'
    BY <1>1, <1>2, <1>3 DEF SyncInv, NoOverlap
  <1>7. Admitted'
    BY <1>1 DEF SyncInv, Admitted, NobodyAsks
  <1>8. QED
    BY <1>5, <1>6, <1>7 DEF SyncInv

LEMMA SyncPushReplayed ==
  ASSUME SyncInv, TypeInv', PushReplayed
  PROVE  SyncInv'
  <1> DEFINE x == replayed.topic
             p == Subscription("subscribe", x)
  <1>1. /\ TypeInv /\ pc[Net] = "push" /\ Goto(Net, "replay")
        /\ UNCHANGED <<setVars, argument, wire, server, link, logins, sound>>
        /\ queue' = Append(queue, p)
        /\ replayed' = [replayed EXCEPT !.topic = None]
    BY DEF SyncInv, PushReplayed, QueuePayload, linkVars, countVars
  <1>2. /\ pc'[Net] = "replay"
        /\ pc'[App] = pc[App] \/ (pc[App] \in LoopPlaces /\ pc'[App] \in LoopPlaces)
        /\ Asking' <=> Asking
    BY <1>1, NetMoves DEF LoopPlaces
  <1>3. ~Auth(p) /\ p.op = "subscribe" /\ \A t : About(p, t) <=> t = x
    BY DEF Subscription, Auth, About
  <1> HIDE DEF p
  <1>4. Registered' = Registered
    BY <1>1 DEF Registered, setVars
  <1>5. Wanted' = Wanted /\ Certain' = Certain
    BY <1>1, <1>2, <1>4 DEF Wanted, Certain, LoopPlaces
  <1>6. IsSeq(queue) /\ \A T : After(queue', T) = Done(p, After(queue, T))
    BY <1>1, AfterAppend, PathIsSeq
  <1>7. x \in Topics /\ (sound => x \in Wanted)
    BY <1>1 DEF SyncInv, NoOverlap, Wanted, TypeInv, ThreadOK
  <1>8. QueueAgrees'
    <2>1. SUFFICES ASSUME sound, NEW t \in Certain
                   PROVE  t \in After(queue', Wanted) <=> t \in Wanted
      BY <1>1, <1>5 DEF QueueAgrees, Agree
    <2>2. t \in After(queue, Wanted) <=> t \in Wanted
      BY <2>1 DEF SyncInv, QueueAgrees, Agree
    <2>3. QED
      BY <1>3, <1>6, <1>7, <2>1, <2>2 DEF Done, Certain
  <1>9. \A t \in Topics : t # x => (t \in ToReplay' <=> t \in ToReplay)
    <2>1. replayed'.stage = replayed.stage /\ replayed'.i = replayed.i
      BY <1>1 DEF TypeInv, ThreadOK
    <2>2. \A t : (InVectors(t)' <=> InVectors(t)) /\ (InFlags(t)' <=> InFlags(t))
      BY <1>1, <2>1 DEF InVectors, InFlags, setVars
    <2>3. QED
      BY <1>1, <1>2, <2>2 DEF ToReplay, Replaying
  <1>10. ServerAgrees'
    <2> DEFINE T == After(wire, server.topics)
    <2>1. SUFFICES ASSUME sound, link = "up", NEW t \in Certain
                   PROVE  t \in (After(queue', T) \cup ToReplay') <=> t \in Wanted
      BY <1>1, <1>5 DEF ServerAgrees, Agree
    <2>2. t \in (After(queue, T) \cup ToReplay) <=> t \in Wanted
      BY <2>1 DEF SyncInv, ServerAgrees, Agree
    <2> HIDE DEF T
    <2>3. t \in Topics
      BY <2>1 DEF Certain
    <2>4. CASE t = x
      BY <1>3, <1>6, <1>7, <2>1, <2>4 DEF Done
    <2>5. CASE t # x
      BY <1>3, <1>6, <1>9, <2>2, <2>3, <2>5 DEF Done
    <2>6. QED
      BY <2>4, <2>5
  <1>11. NoOverlap'
    BY <1>1, <1>2 DEF SyncInv, NoOverlap, Replaying
  <1>12. Admitted'
    <2>1. /\ Opens(queue') <=> Opens(queue) \/ Good(p)
          /\ Guarded(queue) /\ Opens(queue) => Guarded(queue')
      BY <1>1, <1>6, AppendAdmits
    <2>2. ~NobodyAsks
      BY <1>1 DEF NobodyAsks, Replaying
    <2>3. QED
      BY <1>1, <2>1, <2>2 DEF SyncInv, Admitted
  <1>13. QED
    BY <1>8, <1>10, <1>11, <1>12 DEF SyncInv

LEMMA SyncSend ==
  ASSUME SyncInv, TypeInv', SendPayload
  PROVE  SyncInv'
  <1> DEFINE p == Head(queue)
  <1>1. /\ TypeInv /\ queue # <<>> /\ queue' = Tail(queue)
        /\ link = "up" => wire' = Append(wire, p)
        /\ UNCHANGED <<setVars, pc, argument, replayed, server, link, logins, sound>>
    BY DEF SyncInv, SendPayload, threadVars, countVars
  <1>2. IsSeq(queue) /\ IsSeq(wire)
    BY <1>1, PathIsSeq
  <1>3. /\ \A T : After(queue, T) = After(queue', Done(p, T))
        /\ \A T : \A t \in Topics : (t \in After(queue, T) <=> t \in T)
                                   => (t \in After(queue', T) <=> t \in T)
    BY <1>1, <1>2, AfterTail
  <1>4. link = "up" => \A T : After(wire', T) = Done(p, After(wire, T))
    BY <1>1, <1>2, AfterAppend
  <1>5. /\ Opens(queue) <=> Opens(queue') \/ Good(p)
        /\ Guarded(queue) => Auth(p) /\ (Good(p) \/ Guarded(queue'))
    BY <1>1, <1>2, TailAdmits
  <1>6. link = "up" =>
          /\ Opens(wire') <=> Opens(wire) \/ Good(p)
          /\ Guarded(wire) /\ (Auth(p) \/ Opens(wire)) => Guarded(wire')
    BY <1>1, <1>2, AppendAdmits
  <1> HIDE DEF p
  <1>7. /\ Registered' = Registered /\ ToReplay' = ToReplay
        /\ Wanted' = Wanted /\ Certain' = Certain
        /\ Replaying' = Replaying /\ Asking' = Asking /\ NobodyAsks' = NobodyAsks
    BY <1>1 DEF Registered, ToReplay, InVectors, InFlags, Wanted, Certain, Replaying,
                Asking, NobodyAsks, setVars
  <1>8. QueueAgrees'
    <2>1. SUFFICES ASSUME sound, NEW t \in Certain
                   PROVE  t \in After(queue', Wanted) <=> t \in Wanted
      BY <1>1, <1>7 DEF QueueAgrees, Agree
    <2>2. t \in After(queue, Wanted) <=> t \in Wanted
      BY <2>1 DEF SyncInv, QueueAgrees, Agree
    <2>3. QED
      BY <1>3, <2>1, <2>2 DEF Certain
  <1>9. ServerAgrees'
    BY <1>1, <1>3, <1>4, <1>7 DEF SyncInv, ServerAgrees, Agree
  <1>10. NoOverlap'
    BY <1>1, <1>7 DEF SyncInv, NoOverlap
  <1>11. Admitted'
    BY <1>1, <1>5, <1>6, <1>7 DEF SyncInv, Admitted
  <1>12. QED
    BY <1>8, <1>9, <1>10, <1>11 DEF SyncInv

LEMMA SyncServe ==
  ASSUME SyncInv, TypeInv', Serve
  PROVE  SyncInv'
  <1> DEFINE p == Head(wire)
  <1>1. /\ TypeInv /\ wire # <<>> /\ wire' = Tail(wire)
        /\ UNCHANGED <<setVars, pc, argument, replayed, queue, link, logins, sound>>
    BY DEF SyncInv, Serve, ServeAuthentication, ServeSubscription, threadVars, countVars
  <1>2. IsSeq(wire) /\ server.topics \in SUBSET Topics /\ server.authenticated \in BOOLEAN
        /\ server \in [authenticated : BOOLEAN, topics : SUBSET Topics]
    BY <1>1, PathIsSeq DEF TypeInv, PathOK
  <1>3. \A T : After(wire, T) = After(wire', Done(p, T))
    BY <1>1, <1>2, AfterTail
  <1>4. /\ Opens(wire) <=> Opens(wire') \/ Good(p)
        /\ Guarded(wire) => Auth(p) /\ (Good(p) \/ Guarded(wire'))
    BY <1>1, <1>2, TailAdmits
  <1>5. p \in Payloads
    BY <1>1, HeadTailProperties DEF TypeInv, PathOK
  <1> HIDE DEF p
  <1>6. /\ Registered' = Registered /\ ToReplay' = ToReplay
        /\ Wanted' = Wanted /\ Certain' = Certain
        /\ Replaying' = Replaying /\ Asking' = Asking /\ NobodyAsks' = NobodyAsks
    BY <1>1 DEF Registered, ToReplay, InVectors, InFlags, Wanted, Certain, Replaying,
                Asking, NobodyAsks, setVars
  <1>7. QueueAgrees' /\ NoOverlap'
    BY <1>1, <1>6 DEF SyncInv, QueueAgrees, NoOverlap, Agree
  <1>8. ASSUME sound, link = "up"
        PROVE  /\ server'.topics = Done(p, server.topics)
               /\ ~server'.authenticated => ~server.authenticated /\ ~Good(p)
    <2>1. CASE ServeAuthentication
      <3>1. /\ Auth(p)
            /\ server' = IF Good(p) THEN [server EXCEPT !.authenticated = TRUE] ELSE server
        BY <2>1 DEF ServeAuthentication, Auth, Good, p
      <3>2. Done(p, server.topics) = server.topics
        BY <1>2, <3>1 DEF Done, About
      <3>3. QED
        BY <1>2, <3>1, <3>2
    <2>2. CASE ServeSubscription
      <3>1. ~Auth(p)
        BY <2>2 DEF ServeSubscription, Auth, p
      <3>2. server.authenticated
        BY <1>4, <1>8, <3>1 DEF SyncInv, Admitted
      <3>3. p.topic \in Topics
        BY <1>5, <3>1 DEF Payloads, Auth
      <3>4. server' = [server EXCEPT !.topics =
                IF p.op = "subscribe" THEN server.topics \cup {p.topic}
                ELSE server.topics \ {p.topic}]
        BY <2>2, <3>2 DEF ServeSubscription, p
      <3>5. /\ server'.authenticated = server.authenticated
            /\ server'.topics = IF p.op = "subscribe" THEN server.topics \cup {p.topic}
                                ELSE server.topics \ {p.topic}
        BY <1>2, <3>4
      <3>6. server'.topics = Done(p, server.topics)
        BY <1>2, <3>1, <3>3, <3>5 DEF Done, About
      <3>7. QED
        BY <3>2, <3>5, <3>6
    <2>3. QED
      BY <2>1, <2>2 DEF Serve
  <1>9. ServerAgrees'
    BY <1>1, <1>3, <1>6, <1>8 DEF SyncInv, ServerAgrees, Agree
  <1>10. Admitted'
    BY <1>1, <1>4, <1>6, <1>8 DEF SyncInv, Admitted
  <1>11. QED
    BY <1>7, <1>9, <1>10 DEF SyncInv

LEMMA SyncLink ==
  ASSUME SyncInv, TypeInv', Disconnect \/ Reconnect
  PROVE  SyncInv'
  <1>1. /\ UNCHANGED <<setVars, pc, argument, replayed, queue, sound>>
        /\ link' # "up"
    BY DEF Disconnect, Reconnect, threadVars
  <1>2. /\ Registered' = Registered /\ Wanted' = Wanted /\ Certain' = Certain
        /\ Replaying' = Replaying /\ Asking' = Asking
    BY <1>1 DEF Registered, Wanted, Certain, Replaying, Asking, setVars
  <1>3. QueueAgrees' /\ NoOverlap'
    BY <1>1, <1>2 DEF SyncInv, QueueAgrees, NoOverlap, Agree
  <1>4. ServerAgrees' /\ Admitted'
    BY <1>1 DEF ServerAgrees, Admitted
  <1>5. QED
    BY <1>3, <1>4 DEF SyncInv

LEMMA SyncStep == SyncInv /\ [Next]_vars => SyncInv'
  <1> SUFFICES ASSUME SyncInv, [Next]_vars
               PROVE  SyncInv'
    OBVIOUS
  <1>1. TypeInv'
    BY TypeStep DEF SyncInv
  <1>2. CASE UNCHANGED vars
    <2>1. UNCHANGED <<setVars, queue, wire, server, link, replayed, sound, pc, argument,
                      logins>>
      BY <1>2 DEF vars, threadVars, linkVars, countVars
    <2>2. QED
      BY <1>1, <2>1, SyncFrame DEF Asking, Replaying, NobodyAsks
  <1>3. CASE Next
    <2>1. CASE \E topic \in Topics : BeginSubscribe(topic) \/ BeginUnsubscribe(topic)
      BY <1>1, <2>1, SyncBegin
    <2>2. CASE \/ \E who \in Identities : BeginAuthenticate(who)
               \/ Deauthenticate \/ AppStep
      BY <1>1, <2>2, SyncAsking, SyncLogin DEF AppStep
    <2>3. CASE NetStep
      BY <1>1, <2>3, SyncLogin, SyncReconnect, SyncReplay, SyncPushReplayed, SyncSend
      DEF NetStep
    <2>4. CASE Serve \/ Disconnect \/ Reconnect
      BY <1>1, <2>4, SyncServe, SyncLink
    <2>5. QED
      BY <1>3, <2>1, <2>2, <2>3, <2>4 DEF Next
  <1>4. QED
    BY <1>2, <1>3

LEMMA SyncInvInSync == SyncInv => InSync
  <1> SUFFICES ASSUME SyncInv, Quiet, sound
               PROVE  server.topics = Registered
    BY DEF InSync
  <1>1. /\ TypeInv /\ link = "up" /\ pc[App] = "idle" /\ ~Replaying
        /\ queue = <<>> /\ wire = <<>>
    BY DEF SyncInv, Quiet, Replaying
  <1>2. /\ server.topics \in SUBSET Topics /\ Registered \subseteq Topics
        /\ ToReplay = {} /\ Wanted = Registered /\ Certain = Topics
    BY <1>1, PathIsSeq, NoReplay DEF Wanted, Certain
  <1>3. After(queue, After(wire, server.topics)) = server.topics
    BY <1>1, <1>2, AfterNothing
  <1>4. Agree(server.topics \cup {}, Registered)
    BY <1>1, <1>2, <1>3 DEF SyncInv, ServerAgrees
  <1>5. QED
    BY <1>2, <1>4 DEF Agree

\* When all that was asked for has been done, the server has the topics that
\* the SDK holds to be subscribed, for any topics, calls, logins and lost
\* connections, with one thread or two; provided that HandleReconnect had a
\* token of the stored identity and that no call overlapped the replay
\* (src/gamelink.cpp:545-612, test/reconnect.cpp:253).
THEOREM InSyncHolds == Spec => []InSync
  BY SyncInit, SyncStep, SyncInvInSync, PTL DEF Spec
=============================================================================
