------------------------- MODULE SessionLink_proof -------------------------
(***************************************************************************)
(* The proofs that SessionManager implements SmppLink, and that an open    *)
(* session keeps listening.  Both follow what the steps make of "ready":   *)
(* which PDUs a step can add to it (none but the ones that were received), *)
(* and whether it leaves an entry that reads on or closes.                 *)
(***************************************************************************)
EXTENDS SessionManager_proof

Pdus(s) == {s[i].pdu : i \in DOMAIN s}

\* s has what r had, and otherwise only entries that carry no PDU.
Follows(s, r) == s \in Seq(Entry) /\ Pdus(s) \subseteq Pdus(r) \union {NoPdu}

\* An entry of s will read on or close.
Listens(e) == e.fn \in {"header", "body", "close"}
Listening(s) == \E i \in DOMAIN s : Listens(s[i])

-----------------------------------------------------------------------------
(* Sequences of entries.                                                   *)

\* Both, said of the elements.
LEMMA ElemsSay ==
    ASSUME NEW s
    PROVE  /\ Pdus(s) = {e.pdu : e \in Elems(s)}
           /\ Listening(s) <=> \E e \in Elems(s) : Listens(e)
  BY DEF Pdus, Listening, Elems

\* Appending is a concatenation.
LEMMA AppendIs ==
    ASSUME NEW s \in Seq(Entry), NEW e \in Entry
    PROVE  Append(s, e) = s \o <<e>> /\ <<e>> \in Seq(Entry)
  OBVIOUS

\* What is posted keeps Follows, and the entries that listen.
LEMMA PostFollows ==
    ASSUME NEW s \in Seq(Entry), NEW r, NEW b \in Seq(Entry),
           Pdus(b) \subseteq {NoPdu}
    PROVE  /\ Follows(s, r) => Follows(s \o b, r)
           /\ Listening(s) \/ Listening(b) => Listening(s \o b)
<1>1. s \o b \in Seq(Entry)
  BY ConcatProperties
<1>2. Elems(s \o b) = Elems(s) \union Elems(b)
  BY ElemsConcat
<1>3. Pdus(s \o b) \subseteq Pdus(s) \union Pdus(b)
  BY <1>2, ElemsSay
<1>4. Listening(s) \/ Listening(b) => Listening(s \o b)
  BY <1>2, ElemsSay
<1>5. QED
  BY <1>1, <1>3, <1>4 DEF Follows

\* The same for one entry.
LEMMA AppendFollows ==
    ASSUME NEW s \in Seq(Entry), NEW r, NEW fn \in Handlers, NEW err \in Outcomes
    PROVE  /\ Follows(s, r) => Follows(Append(s, Posted(fn, err)), r)
           /\ Listening(s) => Listening(Append(s, Posted(fn, err)))
           /\ fn \in {"header", "body", "close"} =>
                Listening(Append(s, Posted(fn, err)))
<1> DEFINE e == Posted(fn, err)
<1>1. e \in Entry /\ e.pdu = NoPdu /\ e.fn = fn
  BY PostedType DEF Posted
<1> HIDE DEF e
<1>2. Append(s, e) = s \o <<e>> /\ <<e>> \in Seq(Entry)
  BY <1>1, AppendIs
<1>3. Pdus(<<e>>) \subseteq {NoPdu}
  BY <1>1 DEF Pdus
<1>4. fn \in {"header", "body", "close"} => Listening(<<e>>)
  <2>1. 1 \in DOMAIN <<e>> /\ <<e>>[1] = e
    OBVIOUS
  <2>2. QED
    BY <1>1, <2>1 DEF Listening, Listens
<1>5. QED
  BY <1>2, <1>3, <1>4, PostFollows DEF e

\* What follows the first entry, when a handler runs.
LEMMA TailFollows ==
    ASSUME TypeOK, ready # <<>>
    PROVE  /\ Follows(ready, ready) /\ Follows(Tail(ready), ready)
           /\ Listening(ready) => Listens(Head(ready)) \/ Listening(Tail(ready))
<1>1. ready \in Seq(Entry)
  BY DEF TypeOK
<1>2. /\ Tail(ready) \in Seq(Entry)
      /\ Elems(ready) = {Head(ready)} \union Elems(Tail(ready))
  BY <1>1, HeadTailProperties, ElemsTail
<1>3. Pdus(Tail(ready)) \subseteq Pdus(ready)
  BY <1>2, ElemsSay
<1>4. Listening(ready) => Listens(Head(ready)) \/ Listening(Tail(ready))
  BY <1>2, ElemsSay
<1>5. QED
  BY <1>1, <1>2, <1>3, <1>4 DEF Follows

\* What a session posts for itself: writes and reads that fail at once, and what
\* closing the socket cuts short.
FailedWrites(t) == {e \in {Posted("write", "error")} : WriteBroken /\ t.fly # <<>>}
FailedRead(part) == {e \in {Posted(part, "error")} : ReadBroken}
Cut == {Posted(part, "aborted") : part \in Elems(reads)}
       \union {e \in {Posted("connect", "aborted")} : sock = "connecting"}
       \union {e \in {Posted("write", "aborted")} : tx.fly # <<>>}

\* These are the elements of the sequences that the handlers append.
LEMMA PostsAre ==
    ASSUME TypeOK
    PROVE  /\ \A t \in TxRecord : /\ WriteFailures(t) \in Seq(Entry)
                                  /\ Elems(WriteFailures(t)) = FailedWrites(t)
           /\ <<CloseEntry>> \in Seq(Entry) /\ Elems(<<CloseEntry>>) = {CloseEntry}
           /\ <<>> \in Seq(Entry) /\ Elems(<<>>) = {}
           /\ \A part \in {"header", "body"} :
                /\ ReadFailure(part) \in Seq(Entry)
                /\ Elems(ReadFailure(part)) = FailedRead(part)
           /\ Aborted \in Seq(Entry) /\ Elems(Aborted) = Cut
<1>1. ASSUME NEW S, NEW s \in Seq(S), NEW e
      PROVE  Elems([i \in DOMAIN s |-> e]) = {r \in {e} : s # <<>>}
  <2>1. s # <<>> <=> \E i : i \in DOMAIN s
    <3>1. Len(s) \in Nat /\ DOMAIN s = 1 .. Len(s) /\ (s # <<>> <=> Len(s) # 0)
      BY LenProperties, EmptySeq
    <3>2. Len(s) # 0 <=> \E i : i \in 1 .. Len(s)
      <4>1. Len(s) # 0 => 1 \in 1 .. Len(s)
        BY <3>1
      <4>2. QED
        BY <3>1, <4>1
    <3>3. QED
      BY <3>1, <3>2
  <2>2. QED
    BY <2>1 DEF Elems
<1>2. ASSUME NEW t \in TxRecord
      PROVE  /\ WriteFailures(t) \in Seq(Entry)
             /\ Elems(WriteFailures(t)) = FailedWrites(t)
  <2>1. Elems([i \in DOMAIN t.fly |-> Posted("write", "error")]) =
          {e \in {Posted("write", "error")} : t.fly # <<>>}
    BY <1>1, TxFields
  <2>2. QED
    BY <2>1, ElemsOne, WriteFailuresType DEF WriteFailures, FailedWrites
<1>3. /\ <<CloseEntry>> \in Seq(Entry) /\ Elems(<<CloseEntry>>) = {CloseEntry}
      /\ <<>> \in Seq(Entry) /\ Elems(<<>>) = {}
  BY CloseEntryType, ElemsOne
<1>4. ASSUME NEW part \in {"header", "body"}
      PROVE  /\ ReadFailure(part) \in Seq(Entry)
             /\ Elems(ReadFailure(part)) = FailedRead(part)
  <2>1. Posted(part, "error") \in Entry
    BY PostedType, OutcomesAre
  <2>2. <<Posted(part, "error")>> \in Seq(Entry)
    BY <2>1
  <2>3. QED
    BY <1>3, <2>2, ElemsOne DEF ReadFailure, FailedRead
<1>5. Aborted \in Seq(Entry) /\ Elems(Aborted) = Cut
  <2> DEFINE a == [i \in DOMAIN reads |-> Posted(reads[i], "aborted")]
             b == IF sock = "connecting" THEN <<Posted("connect", "aborted")>> ELSE <<>>
             c == [i \in DOMAIN tx.fly |-> Posted("write", "aborted")]
  <2>1. Aborted = a \o b \o c
    BY DEF Aborted
  <2>2. /\ Posted("write", "aborted") \in Entry
        /\ Posted("connect", "aborted") \in Entry
        /\ \A part \in {"header", "body"} : Posted(part, "aborted") \in Entry
    BY PostedType, OutcomesAre
  <2>3. a \in Seq(Entry) /\ Elems(a) = {Posted(part, "aborted") : part \in Elems(reads)}
    <3>1. /\ Len(reads) \in Nat /\ DOMAIN reads = 1 .. Len(reads)
          /\ \A i \in 1 .. Len(reads) : reads[i] \in {"header", "body"}
      BY LenProperties, ElementOfSeq DEF TypeOK
    <3>2. a \in Seq(Entry)
      BY <2>2, <3>1
    <3>3. QED
      BY <3>2 DEF Elems
  <2>4. /\ b \in Seq(Entry)
        /\ Elems(b) = {e \in {Posted("connect", "aborted")} : sock = "connecting"}
    <3>1. <<Posted("connect", "aborted")>> \in Seq(Entry)
      BY <2>2
    <3>2. QED
      BY <1>3, <3>1, ElemsOne
  <2>5. /\ c \in Seq(Entry)
        /\ Elems(c) = {e \in {Posted("write", "aborted")} : tx.fly # <<>>}
    <3>1. tx.fly \in Seq(Pdu)
      BY TxFields DEF TypeOK
    <3>2. Elems(c) = {e \in {Posted("write", "aborted")} : tx.fly # <<>>}
      BY <1>1, <3>1
    <3>3. c \in Seq(Entry)
      BY <2>2, <3>1, EntriesType
    <3>4. QED
      BY <3>2, <3>3
  <2> HIDE DEF a, b, c
  <2>6. a \o b \in Seq(Entry) /\ Elems(a \o b) = Elems(a) \union Elems(b)
    BY <2>3, <2>4, ElemsConcat
  <2> DEFINE ab == a \o b
  <2>7. /\ ab \o c \in Seq(Entry)
        /\ Elems(ab \o c) = Elems(ab) \union Elems(c)
    <3>1. ab \in Seq(Entry) /\ c \in Seq(Entry)
      BY <2>5, <2>6
    <3> HIDE DEF ab
    <3>2. QED
      BY <3>1, ElemsConcat
  <2>8. QED
    BY <2>1, <2>3, <2>4, <2>5, <2>6, <2>7 DEF Cut
<1>6. QED
  BY <1>2, <1>3, <1>4, <1>5

\* There are elements in what is not empty.
LEMMA ElemsSome ==
    ASSUME NEW S, NEW s \in Seq(S)
    PROVE  s # <<>> <=> Elems(s) # {}
<1>1. s # <<>> => Head(s) \in Elems(s)
  BY ElemsOf
<1>2. QED
  BY <1>1, ElemsOne

\* What posting adds to a sequence, for each way the handlers combine it.
LEMMA PostElems ==
    ASSUME TypeOK, NEW s \in Seq(Entry)
    PROVE  /\ \A e \in Entry : /\ Append(s, e) \in Seq(Entry)
                               /\ Elems(Append(s, e)) = Elems(s) \union {e}
           /\ Elems(Append(s, CloseEntry)) = Elems(s) \union {CloseEntry}
           /\ Elems(s \o <<>> \o <<CloseEntry>>) = Elems(s) \union {CloseEntry}
           /\ Elems(s \o Aborted) = Elems(s) \union Cut
           /\ \A part \in {"header", "body"} :
                Elems(s \o ReadFailure(part)) = Elems(s) \union FailedRead(part)
           /\ \A t \in TxRecord :
                /\ Elems(s \o WriteFailures(t)) = Elems(s) \union FailedWrites(t)
                /\ Elems(s \o WriteFailures(t) \o <<CloseEntry>>)
                     = Elems(s) \union FailedWrites(t) \union {CloseEntry}
                /\ Elems(s \o WriteFailures(t) \o ReadFailure("header"))
                     = Elems(s) \union FailedWrites(t) \union FailedRead("header")
<1>1. ASSUME NEW r \in Seq(Entry), NEW b \in Seq(Entry)
      PROVE  r \o b \in Seq(Entry) /\ Elems(r \o b) = Elems(r) \union Elems(b)
  BY ElemsConcat
<1>2. ASSUME NEW r \in Seq(Entry), NEW b \in Seq(Entry), NEW c \in Seq(Entry)
      PROVE  /\ r \o b \o c \in Seq(Entry)
             /\ Elems(r \o b \o c) = Elems(r) \union Elems(b) \union Elems(c)
  <2> DEFINE d == r \o b
  <2>1. d \in Seq(Entry) /\ Elems(d) = Elems(r) \union Elems(b)
    BY <1>1
  <2> HIDE DEF d
  <2>2. d \o c \in Seq(Entry) /\ Elems(d \o c) = Elems(d) \union Elems(c)
    BY <1>1, <2>1
  <2>3. QED
    BY <2>1, <2>2 DEF d
<1>3. ASSUME NEW e \in Entry
      PROVE  Append(s, e) \in Seq(Entry) /\ Elems(Append(s, e)) = Elems(s) \union {e}
  <2>1. Append(s, e) = s \o <<e>> /\ <<e>> \in Seq(Entry)
    BY AppendIs
  <2>2. QED
    BY <1>1, <2>1, ElemsOne
<1>4. CloseEntry \in Entry
  BY CloseEntryType
<1>5. Elems(s \o <<>> \o <<CloseEntry>>) = Elems(s) \union {CloseEntry}
  <2> DEFINE n == <<>>
             c == <<CloseEntry>>
  <2>1. /\ n \in Seq(Entry) /\ Elems(n) = {}
        /\ c \in Seq(Entry) /\ Elems(c) = {CloseEntry}
    BY PostsAre
  <2> HIDE DEF n, c
  <2>2. Elems(s \o n \o c) = Elems(s) \union Elems(n) \union Elems(c)
    BY <1>2, <2>1
  <2>3. QED
    BY <2>1, <2>2 DEF n, c
<1>6. Elems(s \o Aborted) = Elems(s) \union Cut
  BY <1>1, PostsAre
<1>7. \A part \in {"header", "body"} :
        Elems(s \o ReadFailure(part)) = Elems(s) \union FailedRead(part)
  BY <1>1, PostsAre
<1>8. ASSUME NEW t \in TxRecord
      PROVE  /\ Elems(s \o WriteFailures(t)) = Elems(s) \union FailedWrites(t)
             /\ Elems(s \o WriteFailures(t) \o <<CloseEntry>>)
                  = Elems(s) \union FailedWrites(t) \union {CloseEntry}
             /\ Elems(s \o WriteFailures(t) \o ReadFailure("header"))
                  = Elems(s) \union FailedWrites(t) \union FailedRead("header")
  <2> DEFINE w == WriteFailures(t)
             r == ReadFailure("header")
             c == <<CloseEntry>>
  <2>1. /\ w \in Seq(Entry) /\ Elems(w) = FailedWrites(t)
        /\ r \in Seq(Entry) /\ Elems(r) = FailedRead("header")
        /\ c \in Seq(Entry) /\ Elems(c) = {CloseEntry}
    BY PostsAre
  <2> HIDE DEF w, r, c
  <2>2. /\ Elems(s \o w) = Elems(s) \union Elems(w)
        /\ Elems(s \o w \o c) = Elems(s) \union Elems(w) \union Elems(c)
        /\ Elems(s \o w \o r) = Elems(s) \union Elems(w) \union Elems(r)
    BY <1>1, <1>2, <2>1
  <2>3. QED
    BY <2>1, <2>2 DEF w, r, c
<1>9. QED
  BY <1>3, <1>4, <1>5, <1>6, <1>7, <1>8

\* What handle_read_body adds, whatever it has read.
LEMMA ReadNextElems ==
    ASSUME TypeOK, NEW s \in Seq(Entry), NEW t \in TxRecord,
           NEW posts \in {<<>>, <<CloseEntry>>}
    PROVE  Elems(s \o WriteFailures(t) \o posts \o ReadFailure("header"))
             = Elems(s) \union FailedWrites(t) \union Elems(posts)
               \union FailedRead("header")
<1> DEFINE w == WriteFailures(t)
           r == ReadFailure("header")
           d == s \o w
           e == d \o posts
<1>1. /\ w \in Seq(Entry) /\ Elems(w) = FailedWrites(t)
      /\ r \in Seq(Entry) /\ Elems(r) = FailedRead("header")
      /\ posts \in Seq(Entry)
  BY PostsAre
<1> HIDE DEF w, r
<1>2. d \in Seq(Entry) /\ Elems(d) = Elems(s) \union Elems(w)
  BY <1>1, ElemsConcat
<1> HIDE DEF d
<1>3. e \in Seq(Entry) /\ Elems(e) = Elems(d) \union Elems(posts)
  BY <1>1, <1>2, ElemsConcat
<1> HIDE DEF e
<1>4. Elems(e \o r) = Elems(e) \union Elems(r)
  BY <1>1, <1>3, ElemsConcat
<1>5. QED
  BY <1>1, <1>2, <1>3, <1>4 DEF w, r, d, e

\* What the environment and stop() add to "ready".
LEMMA EnvironmentPosts ==
    ASSUME TypeOK
    PROVE  /\ \A n \in {0, 1} :
                /\ ConnectSucceeds(n) =>
                     Elems(ready') = Elems(ready) \union {Posted("connect", "ok")}
                /\ ConnectRefused(n) =>
                     Elems(ready') = Elems(ready) \union {Posted("connect", "error")}
           /\ WriteDone => Elems(ready') = Elems(ready) \union {Posted("write", "ok")}
           /\ WriteFails =>
                Elems(ready') = Elems(ready) \union {Posted("write", "error")}
           /\ ReadDone =>
                Elems(ready') = Elems(ready) \union
                  {[fn |-> Head(reads), err |-> "ok", pdu |-> Head(inbox).pdu]}
           /\ ReadFails =>
                \E err \in {"eof", "error"} :
                  Elems(ready') = Elems(ready) \union {Posted(Head(reads), err)}
           /\ TimerExpires =>
                \E t \in timers \intersect ExpiringTimers :
                  /\ timers' = timers \ {t}
                  /\ Elems(ready') = Elems(ready) \union {Posted(t, "ok")}
           /\ StopPosts => Elems(ready') = Elems(ready) \union {CloseEntry}
<1>1. ready \in Seq(Entry) /\ timers \subseteq Timers
  BY DEF TypeOK
<1>2. \A e \in Entry : Elems(Append(ready, e)) = Elems(ready) \union {e}
  BY <1>1, PostElems
<1>3. \A fn \in Handlers, err \in Outcomes : Posted(fn, err) \in Entry
  BY PostedType
<1>4. ASSUME NEW n \in {0, 1}
      PROVE  /\ ConnectSucceeds(n) =>
                  Elems(ready') = Elems(ready) \union {Posted("connect", "ok")}
             /\ ConnectRefused(n) =>
                  Elems(ready') = Elems(ready) \union {Posted("connect", "error")}
  BY <1>2, <1>3, OutcomesAre DEF ConnectSucceeds, ConnectRefused
<1>5. WriteDone => Elems(ready') = Elems(ready) \union {Posted("write", "ok")}
  BY <1>2, <1>3, OutcomesAre DEF WriteDone
<1>6. WriteFails => Elems(ready') = Elems(ready) \union {Posted("write", "error")}
  BY <1>2, <1>3, OutcomesAre DEF WriteFails
<1>7. reads # <<>> => Head(reads) \in {"header", "body"}
  BY HeadTailProperties DEF TypeOK
<1>8. ReadDone => Elems(ready') = Elems(ready) \union
                    {[fn |-> Head(reads), err |-> "ok", pdu |-> Head(inbox).pdu]}
  <2> SUFFICES ASSUME ReadDone
               PROVE  [fn |-> Head(reads), err |-> "ok", pdu |-> Head(inbox).pdu]
                        \in Entry
    BY <1>2 DEF ReadDone
  <2>1. Head(inbox) \in [part : {"header", "body"}, pdu : Pdu]
    BY HeadTailProperties DEF ReadDone, TypeOK
  <2>2. QED
    BY <1>7, <2>1, OutcomesAre DEF ReadDone, Entry
<1>9. ReadFails => \E err \in {"eof", "error"} :
                     Elems(ready') = Elems(ready) \union {Posted(Head(reads), err)}
  <2> SUFFICES ASSUME ReadFails
               PROVE  \E err \in {"eof", "error"} :
                        Elems(ready') = Elems(ready) \union {Posted(Head(reads), err)}
    OBVIOUS
  <2>1. PICK err \in {"eof", "error"} : ready' = Append(ready, Posted(Head(reads), err))
    BY DEF ReadFails
  <2>2. Posted(Head(reads), err) \in Entry
    BY <1>3, <1>7, OutcomesAre DEF ReadFails
  <2>3. QED
    BY <1>2, <2>1, <2>2
<1>10. TimerExpires =>
         \E t \in timers \intersect ExpiringTimers :
           /\ timers' = timers \ {t}
           /\ Elems(ready') = Elems(ready) \union {Posted(t, "ok")}
  <2> SUFFICES ASSUME NEW t \in timers \intersect ExpiringTimers
               PROVE  Posted(t, "ok") \in Entry
    BY <1>2 DEF TimerExpires
  <2>1. QED
    BY <1>1, <1>3, OutcomesAre DEF Handlers
<1>11. StopPosts => Elems(ready') = Elems(ready) \union {CloseEntry}
  BY <1>1, PostElems DEF StopPosts
<1>12. QED
  BY <1>4, <1>5, <1>6, <1>8, <1>9, <1>10, <1>11

\* What the handlers leave in "ready" and add to it.
LEMMA HandlerPosts ==
    ASSUME TypeOK, ready # <<>>
    PROVE  LET rest == Elems(Tail(ready)) IN
           /\ Elems(ready) = {Head(ready)} \union rest
           /\ CloseConnection => Elems(ready') = rest \union Cut
           /\ HandleConnectOk =>
                Elems(ready') = rest \union FailedWrites(DoBindRequest(tx))
                                     \union FailedRead("header")
           /\ HandleConnectError =>
                Elems(ready') = IF stopFlag THEN rest ELSE rest \union Cut
           /\ HandleReadHeaderOk => Elems(ready') = rest \union FailedRead("body")
           /\ \A b : CloseSession(b) =>
                \E t \in TxRecord :
                  /\ t = IF currentState \in BoundStates THEN DoUnbindRequest(tx) ELSE tx
                  /\ Transmit(t)
                  /\ \/ /\ currentState \in BoundStates
                        /\ Elems(ready') = rest \union FailedWrites(t) \union {CloseEntry}
                     \/ /\ currentState \notin BoundStates
                        /\ Elems(ready') = rest \union {CloseEntry}
           /\ \A t \in TxRecord, posts \in {<<>>, <<CloseEntry>>} :
                ReadNext(t, posts) =>
                  Elems(ready') = rest \union FailedWrites(t) \union Elems(posts)
                                       \union FailedRead("header")
           /\ \A t \in TxRecord :
                ready' = Tail(ready) \o WriteFailures(t) =>
                  Elems(ready') = rest \union FailedWrites(t)
           /\ ready' = Append(Tail(ready), CloseEntry) =>
                Elems(ready') = rest \union {CloseEntry}
<1> DEFINE s == Tail(ready)
<1>1. /\ s \in Seq(Entry) /\ ready \in Seq(Entry)
      /\ tx \in TxRecord /\ DoBindRequest(tx) \in TxRecord
      /\ DoUnbindRequest(tx) \in TxRecord
  BY ReadyType, DoBindRequestType, DoUnbindRequestType DEF TypeOK
<1>2. Elems(ready) = {Head(ready)} \union Elems(s)
  BY <1>1, ElemsTail
<1> HIDE DEF s
<1>3. CloseConnection => Elems(ready') = Elems(s) \union Cut
  BY <1>1, PostElems DEF CloseConnection, s
<1>4. HandleConnectOk =>
        Elems(ready') = Elems(s) \union FailedWrites(DoBindRequest(tx))
                                 \union FailedRead("header")
  <2> DEFINE t == DoBindRequest(tx)
  <2>1. HandleConnectOk => ready' = s \o WriteFailures(t) \o ReadFailure("header")
    BY DEF HandleConnectOk, s
  <2>2. t \in TxRecord
    BY <1>1
  <2> HIDE DEF t
  <2>3. Elems(s \o WriteFailures(t) \o ReadFailure("header"))
          = Elems(s) \union FailedWrites(t) \union FailedRead("header")
    BY <1>1, <2>2, PostElems
  <2>4. QED
    BY <2>1, <2>3 DEF t
<1>5. HandleConnectError =>
        Elems(ready') = IF stopFlag THEN Elems(s) ELSE Elems(s) \union Cut
  BY <1>1, PostElems DEF HandleConnectError, s
<1>6. HandleReadHeaderOk => Elems(ready') = Elems(s) \union FailedRead("body")
  BY <1>1, PostElems DEF HandleReadHeaderOk, s
<1>7. ASSUME NEW b, CloseSession(b)
      PROVE  \E t \in TxRecord :
               /\ t = IF currentState \in BoundStates THEN DoUnbindRequest(tx) ELSE tx
               /\ Transmit(t)
               /\ \/ /\ currentState \in BoundStates
                     /\ Elems(ready') = Elems(s) \union FailedWrites(t) \union {CloseEntry}
                  \/ /\ currentState \notin BoundStates
                     /\ Elems(ready') = Elems(s) \union {CloseEntry}
  <2>1. CASE currentState \in BoundStates
    <3>1. /\ ready' = s \o WriteFailures(DoUnbindRequest(tx)) \o <<CloseEntry>>
          /\ Transmit(DoUnbindRequest(tx))
      BY <1>7, <2>1 DEF CloseSession, s
    <3>2. QED
      BY <1>1, <2>1, <3>1, PostElems
  <2>2. CASE currentState \notin BoundStates
    <3>1. ready' = s \o <<>> \o <<CloseEntry>> /\ Transmit(tx)
      BY <1>7, <2>2 DEF CloseSession, s
    <3>2. QED
      BY <1>1, <2>2, <3>1, PostElems
  <2>3. QED
    BY <2>1, <2>2
<1>8. ASSUME NEW t \in TxRecord, NEW posts \in {<<>>, <<CloseEntry>>},
             ReadNext(t, posts)
      PROVE  Elems(ready') = Elems(s) \union FailedWrites(t) \union Elems(posts)
                                      \union FailedRead("header")
  <2>1. ready' = s \o WriteFailures(t) \o posts \o ReadFailure("header")
    BY <1>8 DEF ReadNext, s
  <2>2. Elems(s \o WriteFailures(t) \o posts \o ReadFailure("header"))
          = Elems(s) \union FailedWrites(t) \union Elems(posts)
            \union FailedRead("header")
    BY <1>1, <1>8, ReadNextElems
  <2>3. QED
    BY <2>1, <2>2
<1>9. ASSUME NEW t \in TxRecord
      PROVE  ready' = s \o WriteFailures(t) =>
               Elems(ready') = Elems(s) \union FailedWrites(t)
  BY <1>1, PostElems
<1>10. ready' = Append(s, CloseEntry) => Elems(ready') = Elems(s) \union {CloseEntry}
  BY <1>1, PostElems
<1>11. QED
  BY <1>2, <1>3, <1>4, <1>5, <1>6, <1>7, <1>8, <1>9, <1>10 DEF s

\* None of it carries a PDU.
LEMMA PostsCarryNothing ==
    ASSUME TypeOK
    PROVE  /\ \A t \in TxRecord : /\ WriteFailures(t) \in Seq(Entry)
                                  /\ Pdus(WriteFailures(t)) \subseteq {NoPdu}
           /\ <<CloseEntry>> \in Seq(Entry) /\ Pdus(<<CloseEntry>>) \subseteq {NoPdu}
           /\ Listening(<<CloseEntry>>)
           /\ <<>> \in Seq(Entry) /\ Pdus(<<>>) \subseteq {NoPdu}
           /\ Aborted \in Seq(Entry) /\ Pdus(Aborted) \subseteq {NoPdu}
           /\ reads # <<>> => Listening(Aborted)
           /\ \A part \in {"header", "body"} :
                /\ ReadFailure(part) \in Seq(Entry)
                /\ Pdus(ReadFailure(part)) \subseteq {NoPdu}
                /\ ReadBroken => Listening(ReadFailure(part))
<1>1. \A s : (\A e \in Elems(s) : e.pdu = NoPdu) => Pdus(s) \subseteq {NoPdu}
  BY ElemsSay
<1>2. \A fn, err : Posted(fn, err).pdu = NoPdu /\ Posted(fn, err).fn = fn
  BY DEF Posted
<1>3. \A t \in TxRecord : /\ WriteFailures(t) \in Seq(Entry)
                          /\ Pdus(WriteFailures(t)) \subseteq {NoPdu}
  BY <1>1, <1>2, PostsAre DEF FailedWrites
<1>4. /\ <<CloseEntry>> \in Seq(Entry) /\ Pdus(<<CloseEntry>>) \subseteq {NoPdu}
      /\ Listening(<<CloseEntry>>)
      /\ <<>> \in Seq(Entry) /\ Pdus(<<>>) \subseteq {NoPdu}
  <2>1. CloseEntry.pdu = NoPdu /\ CloseEntry.fn = "close"
    BY <1>2 DEF CloseEntry
  <2>2. QED
    BY <1>1, <2>1, PostsAre, ElemsSay DEF Listens
<1>5. ASSUME NEW part \in {"header", "body"}
      PROVE  /\ ReadFailure(part) \in Seq(Entry)
             /\ Pdus(ReadFailure(part)) \subseteq {NoPdu}
             /\ ReadBroken => Listening(ReadFailure(part))
  <2> DEFINE f == ReadFailure(part)
             e == Posted(part, "error")
  <2>1. f \in Seq(Entry) /\ Elems(f) = {r \in {e} : ReadBroken}
    BY PostsAre DEF FailedRead
  <2>2. e.pdu = NoPdu /\ Listens(e)
    BY <1>2 DEF Listens
  <2> HIDE DEF e, f
  <2>3. Pdus(f) \subseteq {NoPdu} /\ (ReadBroken => Listening(f))
    BY <2>1, <2>2, ElemsSay
  <2>4. QED
    BY <2>1, <2>3 DEF f
<1>6. Aborted \in Seq(Entry) /\ Pdus(Aborted) \subseteq {NoPdu}
  BY <1>1, <1>2, PostsAre DEF Cut
<1>7. reads # <<>> => Listening(Aborted)
  <2> SUFFICES ASSUME reads # <<>> PROVE Listening(Aborted)
    OBVIOUS
  <2>1. PICK part \in Elems(reads) : part \in {"header", "body"}
    BY ElemsSome, ElemsOf DEF TypeOK
  <2>2. Posted(part, "aborted") \in Elems(Aborted)
    BY PostsAre DEF Cut
  <2>3. Listens(Posted(part, "aborted"))
    BY <1>2, <2>1 DEF Listens
  <2>4. QED
    BY <2>2, <2>3, ElemsSay
<1>8. QED
  BY <1>3, <1>4, <1>5, <1>6, <1>7

-----------------------------------------------------------------------------
(* What each step makes of "ready".                                        *)

Hears == reads # <<>> \/ Listening(ready)

\* A step adds no PDU to "ready", and a session that listens goes on listening
\* unless the step closes it or finds it being stopped.
Carries ==
    /\ Follows(ready', ready)
    /\ \/ currentState' = "CLOSED" \/ Hears'
       \/ /\ UNCHANGED currentState
          /\ stopFlag' \/ (~stopFlag /\ (Hears => Hears'))

\* The read that a handler starts is pending, or its failure is queued.
LEMMA ReadHears ==
    ASSUME TypeOK, NEW s \in Seq(Entry), NEW r, Follows(s, r),
           NEW part \in {"header", "body"}, Read(part),
           ready' = s \o ReadFailure(part)
    PROVE  Follows(ready', r) /\ Hears'
<1>1. /\ ReadFailure(part) \in Seq(Entry)
      /\ Pdus(ReadFailure(part)) \subseteq {NoPdu}
      /\ ReadBroken => Listening(ReadFailure(part))
  BY PostsCarryNothing
<1>2. Follows(ready', r) /\ (ReadBroken => Listening(ready'))
  BY <1>1, PostFollows
<1>3. ~ReadBroken => reads' # <<>>
  <2>1. reads \in Seq({"header", "body"})
    BY DEF TypeOK
  <2>2. Append(reads, part) # <<>>
    BY <2>1, AppendProperties
  <2>3. QED
    BY <2>2 DEF Read
<1>4. QED
  BY <1>2, <1>3 DEF Hears, Listening, Listens

\* handle_read_body reads on, whatever it has read.
LEMMA ReadNextCarries ==
    ASSUME TypeOK, ready # <<>>, NEW t \in TxRecord,
           NEW posts \in {<<>>, <<CloseEntry>>}, ReadNext(t, posts)
    PROVE  Follows(ready', ready) /\ Hears' /\ UNCHANGED <<inbox, sock>>
<1>1. /\ Read("header")
      /\ ready' = Tail(ready) \o WriteFailures(t) \o posts \o ReadFailure("header")
      /\ UNCHANGED <<inbox, sock>>
  BY DEF ReadNext, mcVars, connVars
<1> DEFINE s == Tail(ready) \o WriteFailures(t)
<1>2. Follows(s, ready)
  BY TailFollows, PostsCarryNothing, PostFollows DEF Follows
<1>3. Follows(s \o posts, ready)
  <2>1. posts \in Seq(Entry) /\ Pdus(posts) \subseteq {NoPdu} /\ s \in Seq(Entry)
    BY <1>2, PostsCarryNothing DEF Follows
  <2> HIDE DEF s
  <2>2. QED
    BY <1>2, <2>1, PostFollows
<1>4. ready' = (s \o posts) \o ReadFailure("header")
  BY <1>1
<1>5. s \o posts \in Seq(Entry)
  BY <1>3 DEF Follows
<1> HIDE DEF s
<1>6. QED
  BY <1>1, <1>3, <1>4, <1>5, ReadHears

\* close_session() queues the end of the session.
LEMMA CloseSessionCarries ==
    ASSUME TypeOK, ready # <<>>, NEW b \in BOOLEAN, CloseSession(b)
    PROVE  Follows(ready', ready) /\ Hears'
<1> DEFINE bound == currentState \in BoundStates
           t     == IF bound THEN DoUnbindRequest(tx) ELSE tx
           f     == IF bound THEN WriteFailures(t) ELSE <<>>
<1>1. ready' = Tail(ready) \o f \o <<CloseEntry>>
  BY DEF CloseSession
<1>2. t \in TxRecord
  BY DoUnbindRequestType DEF TypeOK
<1> HIDE DEF bound, t
<1>3. f \in Seq(Entry) /\ Pdus(f) \subseteq {NoPdu}
  BY <1>2, PostsCarryNothing
<1> HIDE DEF f
<1>4. Follows(Tail(ready), ready)
  BY TailFollows
<1>5. Follows(Tail(ready) \o f, ready)
  BY <1>3, <1>4, PostFollows DEF Follows
<1>6. Follows(ready', ready) /\ Listening(ready')
  BY <1>1, <1>5, PostsCarryNothing, PostFollows DEF Follows
<1>7. QED
  BY <1>6 DEF Hears, Listening, Listens

\* Whatever handle_read_body has read, it ends in the same way.
LEMMA ProcessReadsNext ==
    ASSUME TypeOK,
           ProcBindResp \/ ProcEnquireLink \/ ProcDeliverSm \/ ProcGarbled
           \/ ProcUnbind \/ ProcUnbindResp \/ ProcOutbind \/ ProcNothing
    PROVE  /\ ready # <<>>
           /\ \E t \in TxRecord, posts \in {<<>>, <<CloseEntry>>} : ReadNext(t, posts)
<1>1. ready # <<>>
  BY DEF ProcBindResp, ProcEnquireLink, ProcDeliverSm, ProcGarbled, ProcUnbind,
         ProcUnbindResp, ProcOutbind, ProcNothing, Arrived, Runs
<1>2. \E t \in TxRecord, posts \in {<<>>, <<CloseEntry>>} : ReadNext(t, posts)
  <2>1. tx \in TxRecord
    BY DEF TypeOK
  <2>2. \A cmd \in {"unbind_resp", "enquire_resp", "deliver_resp"} :
          Respond(cmd) \in TxRecord
    <3>1. \A cmd \in Commands : Answer(cmd, Head(ready).pdu) \in Pdu
      BY <1>1, ReadyType, PduFields, NewPduType DEF Answer
    <3>2. QED
      BY <2>1, <3>1, DoWriteType, LevelsAre, CommandsAre DEF Respond
  <2>3. DoUnbindRequest(tx) \in TxRecord /\ DoBindRequest(tx) \in TxRecord
    BY <2>1, DoUnbindRequestType, DoBindRequestType
  <2>4. CASE ProcBindResp \/ ProcUnbindResp \/ ProcNothing
    BY <2>1, <2>4 DEF ProcBindResp, ProcUnbindResp, ProcNothing
  <2>5. CASE ProcEnquireLink \/ ProcDeliverSm \/ ProcUnbind
    BY <2>2, <2>5 DEF ProcEnquireLink, ProcDeliverSm, ProcUnbind
  <2>6. CASE ProcOutbind
    BY <2>3, <2>6 DEF ProcOutbind
  <2>7. CASE ProcGarbled
    <3>1. \/ ReadNext(DoUnbindRequest(tx), <<CloseEntry>>)
          \/ ReadNext(tx, <<CloseEntry>>)
      BY <2>7 DEF ProcGarbled
    <3>2. QED
      BY <2>1, <2>3, <3>1
  <2>8. QED
    BY <2>4, <2>5, <2>6, <2>7
<1>3. QED
  BY <1>1, <1>2

\* The handlers of PDUs.
LEMMA ProcessCarries ==
    ASSUME TypeOK,
           ProcBindResp \/ ProcEnquireLink \/ ProcDeliverSm \/ ProcGarbled
           \/ ProcUnbind \/ ProcUnbindResp \/ ProcOutbind \/ ProcNothing
    PROVE  ready # <<>> /\ Carries /\ UNCHANGED <<inbox, sock>>
  BY ProcessReadsNext, ReadNextCarries DEF Carries

\* The handlers of connections, reads, writes and timers.
LEMMA HandlerCarries ==
    ASSUME TypeOK,
           CloseConnection \/ HandleConnectOk \/ HandleConnectError
           \/ HandleReadHeaderOk \/ HandleReadError \/ HandleWriteOk
           \/ HandleWriteError \/ DoEnquireLink \/ DoEnquireLinkFailure
           \/ AgeCleanupBegins
    PROVE  Carries
<1>1. ready # <<>>
  BY DEF CloseConnection, HandleConnectOk, HandleConnectError,
         HandleReadHeaderOk, HandleReadError, HandleWriteOk, HandleWriteError,
         DoEnquireLink, DoEnquireLinkFailure, AgeCleanupBegins, Runs
<1>2. /\ Follows(Tail(ready), ready)
      /\ Listening(ready) => Listens(Head(ready)) \/ Listening(Tail(ready))
  BY <1>1, TailFollows
<1>3. Tail(ready) \in Seq(Entry) /\ tx \in TxRecord
  BY <1>2 DEF Follows, TypeOK
<1>4. \A t \in TxRecord :
        /\ Follows(Tail(ready) \o WriteFailures(t), ready)
        /\ Listening(Tail(ready)) => Listening(Tail(ready) \o WriteFailures(t))
  BY <1>2, <1>3, PostsCarryNothing, PostFollows
<1>5. /\ Follows(Tail(ready) \o Aborted, ready)
      /\ Listening(Tail(ready)) \/ reads # <<>> => Listening(Tail(ready) \o Aborted)
  BY <1>2, <1>3, PostsCarryNothing, PostFollows
<1>6. Follows(Append(Tail(ready), CloseEntry), ready)
  BY <1>2, <1>3, AppendFollows, OutcomesAre DEF CloseEntry
<1>7. ASSUME NEW fn \in {"connect", "write", "enquire", "response", "age"},
             Head(ready).fn = fn
      PROVE  Hears => reads # <<>> \/ Listening(Tail(ready))
  BY <1>2, <1>7 DEF Hears, Listens
<1>8. CASE CloseConnection
  BY <1>5, <1>8 DEF CloseConnection, Carries
<1>9. CASE HandleConnectOk
  <2> DEFINE t == DoBindRequest(tx)
  <2>1. /\ Read("header")
        /\ ready' = (Tail(ready) \o WriteFailures(t)) \o ReadFailure("header")
    BY <1>9 DEF HandleConnectOk
  <2>2. Follows(Tail(ready) \o WriteFailures(t), ready)
    BY <1>3, <1>4, DoBindRequestType
  <2> HIDE DEF t
  <2>3. Follows(ready', ready) /\ Hears'
    BY <2>1, <2>2, ReadHears DEF Follows
  <2>4. QED
    BY <2>3 DEF Carries
<1>10. CASE HandleConnectError
  <2>1. Hears => reads # <<>> \/ Listening(Tail(ready))
    BY <1>7, <1>10 DEF HandleConnectError, Runs
  <2>2. CASE stopFlag
    BY <1>2, <1>10, <2>2 DEF HandleConnectError, Carries, flagVars
  <2>3. CASE ~stopFlag
    <3>1. ready' = Tail(ready) \o Aborted /\ UNCHANGED currentState
      BY <1>10, <2>3 DEF HandleConnectError
    <3>2. Follows(ready', ready) /\ (Hears => Listening(ready'))
      BY <1>5, <2>1, <3>1
    <3>3. QED
      BY <2>3, <3>1, <3>2 DEF Carries, Hears, Listening
  <2>4. QED
    BY <2>2, <2>3
<1>11. CASE HandleReadHeaderOk
  <2>1. Read("body") /\ ready' = Tail(ready) \o ReadFailure("body")
    BY <1>11 DEF HandleReadHeaderOk
  <2>2. Follows(ready', ready) /\ Hears'
    BY <1>2, <1>3, <2>1, ReadHears
  <2>3. QED
    BY <2>2 DEF Carries
<1>12. CASE HandleReadError
  <2>1. CASE CloseSession(TRUE)
    BY <1>1, <2>1, CloseSessionCarries DEF Carries
  <2>2. CASE ~CloseSession(TRUE)
    <3>1. \/ stopFlag' /\ ready' = Tail(ready) /\ UNCHANGED currentState
          \/ currentState' = "CLOSED" /\ ready' = Append(Tail(ready), CloseEntry)
      BY <1>12, <2>2 DEF HandleReadError
    <3>2. QED
      BY <1>2, <1>6, <3>1 DEF Carries
  <2>3. QED
    BY <2>1, <2>2
<1>13. CASE HandleWriteOk
  <2> DEFINE t == IF CanSend(w4rQ') /\ ~IsEmpty(tx.q) THEN WritePdu(tx) ELSE tx
  <2>1. /\ ready' = Tail(ready) \o WriteFailures(t)
        /\ UNCHANGED <<currentState, stopFlag, reads>>
    BY <1>13 DEF HandleWriteOk, flagVars
  <2>2. t \in TxRecord
    BY <1>3, WritePduType
  <2> HIDE DEF t
  <2>3. Hears => reads # <<>> \/ Listening(Tail(ready))
    BY <1>7, <1>13 DEF HandleWriteOk, Runs
  <2>4. Follows(ready', ready) /\ (Listening(Tail(ready)) => Listening(ready'))
    BY <1>4, <2>1, <2>2
  <2>5. QED
    BY <2>1, <2>3, <2>4 DEF Carries, Hears, Listening
<1>14. CASE HandleWriteError
  BY <1>2, <1>6, <1>14 DEF HandleWriteError, Carries
<1>15. CASE DoEnquireLink
  <2> DEFINE t == DoWrite(NextSeq(tx), NewPdu("enquire", tx.mVal, 0), SESSION)
  <2>1. /\ ready' = Tail(ready) \o WriteFailures(t)
        /\ UNCHANGED <<currentState, stopFlag, reads>>
    BY <1>15 DEF DoEnquireLink, flagVars
  <2>2. t \in TxRecord
    <3>1. NextSeq(tx) \in TxRecord /\ tx.mVal \in Nat
      BY <1>3, TxFields
    <3>2. NewPdu("enquire", tx.mVal, 0) \in Pdu
      BY <3>1, NewPduType, CommandsAre
    <3>3. QED
      BY <3>1, <3>2, DoWriteType, LevelsAre
  <2> HIDE DEF t
  <2>3. Hears => reads # <<>> \/ Listening(Tail(ready))
    BY <1>7, <1>15 DEF DoEnquireLink, Runs
  <2>4. Follows(ready', ready) /\ (Listening(Tail(ready)) => Listening(ready'))
    BY <1>4, <2>1, <2>2
  <2>5. QED
    BY <2>1, <2>3, <2>4 DEF Carries, Hears, Listening
<1>16. CASE DoEnquireLinkFailure
  <2>1. CASE stopFlag
    BY <1>2, <1>16, <2>1 DEF DoEnquireLinkFailure, Carries
  <2>2. CASE ~stopFlag
    BY <1>1, <1>16, <2>2, CloseSessionCarries DEF DoEnquireLinkFailure, Carries
  <2>3. QED
    BY <2>1, <2>2
<1>17. CASE AgeCleanupBegins
  <2>1. /\ ready' = Tail(ready)
        /\ UNCHANGED <<currentState, stopFlag, reads>>
    BY <1>17 DEF AgeCleanupBegins, flagVars
  <2>2. Hears => reads # <<>> \/ Listening(Tail(ready))
    BY <1>7, <1>17 DEF AgeCleanupBegins, Runs
  <2>3. QED
    BY <1>2, <2>1, <2>2 DEF Carries, Hears, Listening
<1>18. QED
  BY <1>8, <1>9, <1>10, <1>11, <1>12, <1>13, <1>14, <1>15, <1>16, <1>17

\* The network, the MC, the clock, the other threads, and the rest of the loop
\* over w4rQ: they only append to "ready".
LEMMA OthersCarry ==
    ASSUME TypeOK,
           \/ \E n \in {0, 1} : ConnectSucceeds(n) \/ ConnectRefused(n)
           \/ WriteDone \/ WriteFails \/ ReadFails \/ MessageCentre \/ TimerExpires
           \/ AgeCleanupResends \/ AgeCleanupEnds \/ RunReturns \/ OtherThreads
    PROVE  Carries
<1> USE DEF flagVars, mcVars, connVars, apiVars
<1>1. ready \in Seq(Entry) /\ tx \in TxRecord /\ Follows(ready, ready)
  BY DEF TypeOK, Follows
<1>2. ASSUME NEW fn \in Handlers, NEW err \in Outcomes,
             ready' = Append(ready, Posted(fn, err)),
             UNCHANGED <<currentState, stopFlag, reads>>
      PROVE  Carries
  BY <1>1, <1>2, AppendFollows DEF Carries, Hears, Listening
<1>3. ASSUME NEW t \in TxRecord, ready' = ready \o WriteFailures(t),
             UNCHANGED <<currentState, stopFlag, reads>>
      PROVE  Carries
  <2>1. /\ Follows(ready \o WriteFailures(t), ready)
        /\ Listening(ready) => Listening(ready \o WriteFailures(t))
    BY <1>1, PostsCarryNothing, PostFollows
  <2>2. QED
    BY <1>3, <2>1 DEF Carries, Hears, Listening
<1>4. ASSUME UNCHANGED <<ready, currentState, reads>>,
             stopFlag' \/ stopFlag' = stopFlag
      PROVE  Carries
  BY <1>1, <1>4 DEF Carries, Hears, Listening
<1>5. ASSUME NEW n \in {0, 1}, ConnectSucceeds(n) \/ ConnectRefused(n)
      PROVE  Carries
  BY <1>2, <1>5, OutcomesAre DEF ConnectSucceeds, ConnectRefused
<1>6. CASE WriteDone \/ WriteFails
  BY <1>2, <1>6, OutcomesAre DEF WriteDone, WriteFails
<1>7. CASE ReadFails
  <2>1. PICK err \in {"eof", "error"} : ready' = Append(ready, Posted(Head(reads), err))
    BY <1>7 DEF ReadFails
  <2>2. Head(reads) \in {"header", "body"}
    BY <1>7, HeadTailProperties DEF ReadFails, TypeOK
  <2>3. Follows(ready', ready) /\ Listening(ready')
    BY <1>1, <2>1, <2>2, AppendFollows, OutcomesAre
  <2>4. QED
    BY <2>3 DEF Carries, Hears, Listening
<1>8. CASE MessageCentre
  <2>1. UNCHANGED <<ready, currentState, stopFlag, reads>>
    BY <1>8 DEF MessageCentre, MCAnswers, MCAsks, MCDrops
  <2>2. QED
    BY <1>4, <2>1
<1>9. CASE TimerExpires
  <2>1. PICK t \in timers : ready' = Append(ready, Posted(t, "ok"))
    BY <1>9 DEF TimerExpires
  <2>2. t \in Handlers
    BY DEF TypeOK, Handlers
  <2>3. UNCHANGED <<currentState, stopFlag, reads>>
    BY <1>9 DEF TimerExpires
  <2>4. QED
    BY <1>2, <2>1, <2>2, <2>3, OutcomesAre
<1>10. CASE AgeCleanupResends
  <2>1. PICK p \in ageing.todo : ready' = ready \o WriteFailures(DoWrite(tx, p, MESSAGE))
    BY <1>10 DEF AgeCleanupResends
  <2>2. DoWrite(tx, p, MESSAGE) \in TxRecord
    BY <1>1, DoWriteType, LevelsAre DEF TypeOK
  <2>3. UNCHANGED <<currentState, stopFlag, reads>>
    BY <1>10 DEF AgeCleanupResends
  <2>4. QED
    BY <1>3, <2>1, <2>2, <2>3
<1>11. CASE AgeCleanupEnds \/ RunReturns
  BY <1>4, <1>11 DEF AgeCleanupEnds, RunReturns
<1>12. CASE TakeMessage \/ SendPdu \/ Stop \/ StopClearsReconnect \/ StopClosesSession
  BY <1>4, <1>12 DEF TakeMessage, SendPdu, Stop, StopClearsReconnect, StopClosesSession
<1>13. CASE StopPosts
  BY <1>2, <1>13, OutcomesAre DEF StopPosts, CloseEntry
<1>14. ASSUME NEW t \in ThreadIds, OtherThread(t) PROVE Carries
  <2>1. CASE DoWriteWrites(t)
    <3> DEFINE u == [tx EXCEPT !.fly = Append(tx.fly, thread[t].pdu)]
    <3>1. thread[t].pdu \in Pdu
      BY DEF TypeOK
    <3>2. u \in TxRecord
      BY <1>1, <3>1, TxFields, AppendProperties
    <3>3. /\ ready' = ready \o WriteFailures(u)
          /\ UNCHANGED <<currentState, stopFlag, reads>>
      BY <2>1 DEF DoWriteWrites
    <3> HIDE DEF u
    <3>4. QED
      BY <1>3, <3>2, <3>3
  <2>2. CASE ~DoWriteWrites(t)
    <3>1. UNCHANGED <<ready, currentState, stopFlag, reads>>
      BY <1>14, <2>2
      DEF OtherThread, DoWriteLocks, DoWritePushes, DoWritePops, DoWriteCrashes
    <3>2. QED
      BY <1>4, <3>1
  <2>3. QED
    BY <2>1, <2>2
<1>15. QED
  BY <1>5, <1>6, <1>7, <1>8, <1>9, <1>10, <1>11, <1>12, <1>13, <1>14
  DEF OtherThreads

\* What was received moves from the socket to the io thread.
LEMMA ReadDoneCarries ==
    ASSUME TypeOK, ReadDone
    PROVE  /\ Hears' /\ UNCHANGED <<currentState, sock>>
           /\ ResponsesUnread' \subseteq ResponsesUnread
<1> DEFINE Bytes == [part : {"header", "body"}, pdu : Pdu]
           e == [fn |-> Head(reads), err |-> "ok", pdu |-> Head(inbox).pdu]
<1>1. /\ inbox \in Seq(Bytes) /\ inbox # <<>> /\ reads # <<>>
      /\ ready \in Seq(Entry) /\ reads \in Seq({"header", "body"})
      /\ inbox' = Tail(inbox) /\ ready' = Append(ready, e)
  BY DEF TypeOK, ReadDone
<1> HIDE DEF Bytes
<1>2. Head(reads) \in {"header", "body"} /\ Head(inbox) \in Bytes
  BY <1>1, HeadTailProperties
<1>3. e \in Entry
  BY <1>2, OutcomesAre DEF Entry, Bytes
<1>4. e.fn \in {"header", "body"} /\ e.pdu = Head(inbox).pdu
  BY <1>2
<1> HIDE DEF e
<1>5. /\ DOMAIN ready' = 1 .. Len(ready) + 1
      /\ DOMAIN ready = 1 .. Len(ready) /\ Len(ready) \in Nat
      /\ ready'[Len(ready) + 1] = e
      /\ \A i \in 1 .. Len(ready) : ready'[i] = ready[i]
  BY <1>1, <1>3, AppendProperties, LenProperties
<1>6. \A i \in DOMAIN ready' : \/ ready'[i] = e
                               \/ i \in DOMAIN ready /\ ready'[i] = ready[i]
  BY <1>5
<1>7. Len(ready) + 1 \in DOMAIN ready'
  BY <1>5
<1>8. /\ 1 \in DOMAIN inbox /\ Head(inbox) = inbox[1]
      /\ \A i \in DOMAIN Tail(inbox) : i + 1 \in DOMAIN inbox /\ Tail(inbox)[i] = inbox[i + 1]
  <2>1. /\ Len(inbox) \in Nat /\ DOMAIN inbox = 1 .. Len(inbox) /\ Len(inbox) # 0
    BY <1>1, LenProperties, EmptySeq
  <2>2. /\ Tail(inbox) \in Seq(Bytes) /\ Len(Tail(inbox)) = Len(inbox) - 1
        /\ Head(inbox) = inbox[1]
        /\ \A k \in 1 .. Len(inbox) - 1 : Tail(inbox)[k] = inbox[k + 1]
    BY <1>1, HeadTailProperties
  <2>3. DOMAIN Tail(inbox) = 1 .. Len(inbox) - 1
    BY <2>2, LenProperties
  <2>4. QED
    BY <2>1, <2>2, <2>3
<1>9. ResponsesUnread' \subseteq ResponsesUnread
  BY <1>1, <1>4, <1>6, <1>8 DEF ResponsesUnread
<1>10. Hears'
  BY <1>4, <1>5, <1>7 DEF Hears, Listening, Listens
<1>11. QED
  BY <1>9, <1>10 DEF ReadDone, connVars

-----------------------------------------------------------------------------
(* An open session keeps listening.                                        *)

\* The two ways to say it are the same.
LEMMA KeepsListeningIs ==
    KeepsListening <=> (currentState # "CLOSED" /\ ~stopFlag => Hears)
  BY DEF KeepsListening, Hears, Listening, Listens

\* Every step keeps an open session listening.
LEMMA NextListens == TypeOK /\ KeepsListening /\ [Next]_vars => KeepsListening'
<1> SUFFICES ASSUME TypeOK, KeepsListening, [Next]_vars PROVE KeepsListening'
  OBVIOUS
<1>1. ASSUME Carries PROVE KeepsListening'
  BY <1>1, KeepsListeningIs DEF Carries, KeepsListening, Hears, Listening, Listens
<1>2. CASE ReadDone
  BY <1>2, ReadDoneCarries DEF KeepsListening, Hears, Listening, Listens
<1>3. CASE UNCHANGED vars
  BY <1>3 DEF vars, flagVars, KeepsListening
<1>4. QED
  BY <1>1, <1>2, <1>3, ProcessCarries, HandlerCarries, OthersCarry
  DEF Next, Network, IoThread

\* The session listens: no handler ends with the session open, not being stopped,
\* and nothing that will read on or close it.
THEOREM SessionKeepsListening == Spec => []KeepsListening
<1>1. Init => KeepsListening
  BY DEF Init, KeepsListening
<1>2. QED
  BY <1>1, NextListens, SessionTypeOK, PTL DEF Spec

-----------------------------------------------------------------------------
(* The session implements SmppLink.                                        *)

\* An acceptance that is on its way was on its way, or is lost.
LEMMA LosesAcceptance ==
    ASSUME linkAccepted' => linkAccepted
    PROVE  Link!MayLose
<1>1. linkAccepted \in BOOLEAN /\ linkAccepted' \in BOOLEAN
  BY DEF linkAccepted
<1>2. QED
  BY <1>1 DEF Link!MayLose

\* Only what was received can hold an acceptance.
LEMMA CarriesNoAcceptance ==
    ASSUME Carries, inbox' \in {inbox, <<>>}
    PROVE  Link!MayLose
<1>1. ResponsesUnread' \subseteq ResponsesUnread \union {NoPdu}
  <2>1. Pdus(ready') \subseteq Pdus(ready) \union {NoPdu}
    BY DEF Carries, Follows
  <2>2. Pdus(inbox') \subseteq Pdus(inbox)
    BY DEF Pdus
  <2>3. /\ ResponsesUnread = Pdus(inbox) \union Pdus(ready)
        /\ ResponsesUnread' = Pdus(inbox') \union Pdus(ready')
    BY DEF ResponsesUnread, Pdus
  <2>4. QED
    BY <2>1, <2>2, <2>3
<1>2. NoPdu.cmd # "bind_resp"
  BY DEF NoPdu
<1>3. linkAccepted' => linkAccepted
  BY <1>1, <1>2 DEF linkAccepted
<1>4. QED
  BY <1>3, LosesAcceptance

\* A step that leaves the state and the socket alone loses an acceptance, or is
\* the MC's.
LEMMA StaysLinked ==
    ASSUME UNCHANGED <<currentState, sock>>, sock = "connected" \/ Link!MayLose
    PROVE  Link!Next
<1>1. UNCHANGED <<linkState, linkConn>>
  BY DEF linkState, linkConn
<1>2. CASE Link!MayLose
  BY <1>1, <1>2 DEF Link!Next, Link!Lose
<1>3. CASE sock = "connected" /\ linkAccepted'
  <2>1. linkAccepted' = TRUE
    BY <1>3 DEF linkAccepted
  <2>2. linkConn = "up"
    BY <1>3 DEF linkConn
  <2>3. QED
    BY <1>1, <2>1, <2>2 DEF Link!Next, Link!Accept
<1>4. CASE ~linkAccepted'
  <2>1. Link!MayLose
    BY <1>4, LosesAcceptance
  <2>2. QED
    BY <1>1, <2>1 DEF Link!Next, Link!Lose
<1>5. QED
  BY <1>2, <1>3, <1>4

\* The handlers of PDUs bind and unbind.
LEMMA ProcessLinks ==
    ASSUME TypeOK,
           ProcBindResp \/ ProcEnquireLink \/ ProcDeliverSm \/ ProcGarbled
           \/ ProcUnbind \/ ProcUnbindResp \/ ProcOutbind \/ ProcNothing
    PROVE  Link!Next
<1>1. ready # <<>> /\ Link!MayLose /\ UNCHANGED <<inbox, sock>>
  BY ProcessCarries, CarriesNoAcceptance
<1>2. UNCHANGED linkConn
  BY <1>1 DEF linkConn
<1>3. CASE ProcBindResp
  <2>1. linkState = "OPEN" /\ linkState' = "BOUND"
    BY <1>3, SessionAssumption
    DEF ProcBindResp, Arrived, linkState, StateAfterBind, BoundStates, BindTypes
  <2>2. linkAccepted
    <3>1. Head(ready).pdu.cmd = "bind_resp"
      BY <1>3 DEF ProcBindResp, Arrived
    <3>2. Head(ready).pdu \in ResponsesUnread
      BY <1>1, ElemsOf DEF TypeOK, ResponsesUnread, Elems
    <3>3. QED
      BY <3>1, <3>2 DEF linkAccepted
  <2>3. QED
    BY <1>1, <1>2, <2>1, <2>2 DEF Link!Next, Link!Bind
<1>4. CASE ProcUnbind \/ ProcUnbindResp
  <2>1. linkState = "BOUND" /\ linkState' \in {"UNBOUND", "OPEN"}
    BY <1>4 DEF ProcUnbind, ProcUnbindResp, Arrived, linkState, BoundStates
  <2>2. QED
    BY <1>1, <1>2, <2>1 DEF Link!Next, Link!Unbind
<1>5. CASE ProcEnquireLink \/ ProcDeliverSm \/ ProcGarbled \/ ProcOutbind
           \/ ProcNothing
  <2>1. UNCHANGED currentState
    BY <1>5 DEF ProcEnquireLink, ProcDeliverSm, ProcGarbled, ProcOutbind,
                ProcNothing
  <2>2. QED
    BY <1>1, <2>1, StaysLinked
<1>6. QED
  BY <1>3, <1>4, <1>5

\* The other handlers open, fail, close and try again.
LEMMA HandlerLinks ==
    ASSUME TypeOK,
           CloseConnection \/ HandleConnectOk \/ HandleConnectError
           \/ HandleReadHeaderOk \/ HandleReadError \/ HandleWriteOk
           \/ HandleWriteError \/ DoEnquireLink \/ DoEnquireLinkFailure
           \/ AgeCleanupBegins
    PROVE  Link!Next
<1> USE DEF mcVars, connVars
<1>1. inbox' \in {inbox, <<>>}
  BY DEF CloseConnection, HandleConnectOk, HandleConnectError, ConnectionGone,
         HandleReadHeaderOk, HandleReadError, HandleWriteOk, HandleWriteError,
         DoEnquireLink, DoEnquireLinkFailure, AgeCleanupBegins
<1>2. Link!MayLose
  BY <1>1, HandlerCarries, CarriesNoAcceptance
<1>3. CASE CloseConnection
  <2>1. linkState' = "CLOSED" /\ linkConn' \in {"closed", "connecting"}
    BY <1>3 DEF CloseConnection, Connect, linkState, linkConn, BoundStates
  <2>2. QED
    BY <1>2, <2>1 DEF Link!Next, Link!Close
<1>4. CASE HandleConnectOk
  <2>1. linkState' = "OPEN" /\ linkConn # "closed" /\ UNCHANGED linkConn
    BY <1>4 DEF HandleConnectOk, linkState, linkConn, BoundStates
  <2>2. QED
    BY <1>2, <2>1 DEF Link!Next, Link!Open
<1>5. CASE HandleConnectError
  <2>1. CASE stopFlag
    BY <1>2, <1>5, <2>1, StaysLinked DEF HandleConnectError
  <2>2. CASE ~stopFlag
    <3>1. linkConn' = "connecting" /\ UNCHANGED linkState
      BY <1>5, <2>2 DEF HandleConnectError, Connect, linkConn, linkState
    <3>2. QED
      BY <1>2, <3>1 DEF Link!Next, Link!Retry
  <2>3. QED
    BY <2>1, <2>2
<1>6. CASE HandleReadError \/ HandleWriteError
  <2>1. UNCHANGED sock /\ (UNCHANGED currentState \/ currentState' = "CLOSED")
    BY <1>6 DEF HandleReadError, HandleWriteError
  <2>2. CASE currentState' = "CLOSED"
    <3>1. linkState' = "CLOSED" /\ UNCHANGED linkConn
      BY <2>1, <2>2 DEF linkState, linkConn, BoundStates
    <3>2. QED
      BY <1>2, <3>1 DEF Link!Next, Link!Fail
  <2>3. QED
    BY <1>2, <2>1, <2>2, StaysLinked
<1>7. CASE HandleReadHeaderOk \/ HandleWriteOk \/ DoEnquireLink
           \/ DoEnquireLinkFailure \/ AgeCleanupBegins
  <2>1. UNCHANGED <<currentState, sock>>
    BY <1>7 DEF HandleReadHeaderOk, HandleWriteOk, DoEnquireLink,
                DoEnquireLinkFailure, AgeCleanupBegins
  <2>2. QED
    BY <1>2, <2>1, StaysLinked
<1>8. QED
  BY <1>3, <1>4, <1>5, <1>6, <1>7

\* The network, the MC, the clock and the other threads leave the state alone.
LEMMA OthersLink ==
    ASSUME TypeOK, Network \/ MessageCentre \/ TimerExpires \/ AgeCleanupResends
                   \/ AgeCleanupEnds \/ RunReturns \/ OtherThreads
    PROVE  Link!Next
<1> USE DEF mcVars, connVars
<1>1. ASSUME NEW n \in {0, 1}, ConnectSucceeds(n) PROVE Link!Next
  <2>1. linkConn = "connecting" /\ linkConn' = "up" /\ UNCHANGED linkState
    BY <1>1 DEF ConnectSucceeds, linkConn, linkState
  <2>2. UNCHANGED inbox
    BY <1>1 DEF ConnectSucceeds
  <2>3. Link!MayLose
    BY <1>1, <2>2, OthersCarry, CarriesNoAcceptance
  <2>4. QED
    BY <2>1, <2>3 DEF Link!Next, Link!ComesUp
<1>2. ASSUME NEW n \in {0, 1}, ConnectRefused(n) PROVE Link!Next
  <2>1. linkConn = "connecting" /\ UNCHANGED <<linkConn, linkState>>
    BY <1>2 DEF ConnectRefused, linkConn, linkState
  <2>2. UNCHANGED inbox
    BY <1>2 DEF ConnectRefused
  <2>3. Link!MayLose
    BY <1>2, <2>2, OthersCarry, CarriesNoAcceptance
  <2>4. QED
    BY <2>1, <2>3 DEF Link!Next, Link!Lose
<1>3. CASE WriteDone \/ WriteFails \/ ReadFails \/ TimerExpires
           \/ AgeCleanupResends \/ AgeCleanupEnds \/ RunReturns
  <2>1. UNCHANGED <<currentState, sock, inbox>>
    BY <1>3 DEF WriteDone, WriteFails, ReadFails, TimerExpires,
                AgeCleanupResends, AgeCleanupEnds, RunReturns
  <2>2. QED
    BY <1>3, <2>1, OthersCarry, CarriesNoAcceptance, StaysLinked
<1>4. CASE ReadDone
  BY <1>4, ReadDoneCarries, StaysLinked DEF ReadDone
<1>5. CASE MessageCentre
  BY <1>5, StaysLinked DEF MessageCentre, MCAnswers, MCAsks, MCDrops
<1>6. CASE OtherThreads
  <2>1. UNCHANGED <<currentState, sock, inbox>>
    <3>1. CASE \/ TakeMessage \/ SendPdu \/ Stop \/ StopClearsReconnect
               \/ StopClosesSession \/ StopPosts
      BY <3>1 DEF TakeMessage, SendPdu, Stop, StopClearsReconnect,
                  StopClosesSession, StopPosts
    <3>2. CASE \E t \in ThreadIds : OtherThread(t)
      BY <3>2 DEF OtherThread, DoWriteLocks, DoWritePushes, DoWritePops,
                  DoWriteCrashes, DoWriteWrites
    <3>3. QED
      BY <1>6, <3>1, <3>2 DEF OtherThreads
  <2>2. QED
    BY <1>6, <2>1, OthersCarry, CarriesNoAcceptance, StaysLinked
<1>7. QED
  BY <1>1, <1>2, <1>3, <1>4, <1>5, <1>6 DEF Network

\* Seen through linkState, linkConn and linkAccepted, every execution of the
\* session is one of SmppLink: what the gateway is built on holds of the code's
\* handlers, for every type of bind and any number of faults.
THEOREM SessionImplementsLink == Spec => ImplementsLink
<1>1. Init => Link!Init
  <2>1. SUFFICES ASSUME Init PROVE Link!Init
    OBVIOUS
  <2>2. linkState = "CLOSED" /\ linkConn = "connecting"
    BY <2>1 DEF Init, linkState, linkConn, BoundStates
  <2>3. linkAccepted = FALSE
    BY <2>1 DEF Init, linkAccepted, ResponsesUnread
  <2>4. QED
    BY <2>2, <2>3 DEF Link!Init
<1>2. TypeOK /\ [Next]_vars => [Link!Next]_Link!linkVars
  <2>1. SUFFICES ASSUME TypeOK, [Next]_vars PROVE [Link!Next]_Link!linkVars
    OBVIOUS
  <2>2. CASE UNCHANGED vars
    BY <2>2 DEF vars, connVars, mcVars, Link!linkVars, linkState, linkConn,
                linkAccepted, ResponsesUnread
  <2>3. CASE Next
    BY <2>1, <2>3, ProcessLinks, HandlerLinks, OthersLink DEF Next, IoThread
  <2>4. QED
    BY <2>1, <2>2, <2>3
<1>3. QED
  BY <1>1, <1>2, SessionTypeOK, PTL DEF Spec, ImplementsLink, Link!Spec

=============================================================================
