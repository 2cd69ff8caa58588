------------------------ MODULE SessionAnswers_proof ------------------------
(***************************************************************************)
(* What SessionManager's responses answer, in both directions.             *)
(*                                                                         *)
(* A response of the MC erases the entry of the request it answers         *)
(* (AnswersMatch).  That joins two arguments about a step: what it adds to *)
(* the requests with a number is numbered afresh, and what it adds to the  *)
(* responses that are not read yet, only the MC can have sent.             *)
(*                                                                         *)
(* A response of the session goes out under the number of the request it   *)
(* answers (ResponsesKeepNumber), because write_pdu() renumbers only what  *)
(* has a number up to SeqMin.                                              *)
(***************************************************************************)
EXTENDS SessionNumbers_proof, SessionLink_proof

Unread == {a \in ResponsesUnread : IsResponse(a)}

Answers(a, r) ==
    \/ a.cmd = ResponseOf[r.cmd]
    \/ a.cmd = "bind_reject" /\ r.cmd = "bind"
    \/ a.cmd = "garbled_resp" /\ r.cmd = "submit"

\* A number that was answered is not going to be given again.
AnswersBelow == \A a \in Unread : a.seq <= SeqMin \/ a.seq < tx.mVal

\* Wherever the request is held.
AnswersFit == \A a \in Unread, r \in Numbered : a.seq = r.seq => Answers(a, r)

AnswersInv == AnswersBelow /\ AnswersFit

\* Where there is no PDU the entries have one that answers nothing.
LEMMA NoPduType == NoPdu \in Pdu /\ ~IsResponse(NoPdu)
  BY DEF NoPdu, Pdu, Commands, IsResponse, Responses, ResponseOf

\* After a step the session still holds PDUs.
LEMMA HeldTypeNext == TypeOK' => Held' \subseteq Pdu
<1> SUFFICES ASSUME TypeOK' PROVE Held' \subseteq Pdu
  OBVIOUS
<1>1. Held' = TxPdus(tx') \union OtherHeld'
  BY DEF Held, TxPdus, OtherHeld, Elems
<1>2. TxPdus(tx') \subseteq Pdu
  BY TxPdusOf DEF TypeOK
<1>3. OtherHeld' \subseteq Pdu
  BY DEF OtherHeld, TypeOK
<1>4. QED
  BY <1>1, <1>2, <1>3

\* What is not read yet are PDUs.
LEMMA UnreadType == TypeOK => ResponsesUnread \subseteq Pdu
<1> SUFFICES ASSUME TypeOK PROVE ResponsesUnread \subseteq Pdu
  OBVIOUS
<1>1. /\ DOMAIN inbox = 1 .. Len(inbox) /\ DOMAIN ready = 1 .. Len(ready)
  BY LenProperties DEF TypeOK
<1>2. \A i \in DOMAIN inbox : inbox[i] \in [part : {"header", "body"}, pdu : Pdu]
  BY <1>1, ElementOfSeq DEF TypeOK
<1>3. \A i \in DOMAIN ready : ready[i] \in Entry
  BY <1>1, ElementOfSeq DEF TypeOK
<1>4. QED
  BY <1>2, <1>3 DEF ResponsesUnread, Entry

\* A step that receives no response keeps what the others are for.
LEMMA NoAnswerArrives ==
    ASSUME TypeOK, TypeOK', SeqKept, AnswersInv,
           \A a \in ResponsesUnread' : a \in ResponsesUnread \/ ~IsResponse(a)
    PROVE  AnswersInv'
<1>2. Unread' \subseteq Unread
  BY DEF Unread, IsResponse
<1>3. /\ \A a \in Unread : a.seq \in Nat
      /\ \A r \in Numbered' : r.seq \in Nat /\ r.seq > SeqMin
      /\ SeqMin \in Nat /\ tx.mVal \in Nat /\ tx'.mVal \in Nat
  <2>1. Held' \subseteq Pdu
    BY HeldTypeNext
  <2>2. QED
    BY <2>1, UnreadType, PduFields, TxFields, SessionAssumption
    DEF Unread, Numbered, TypeOK
<1>4. /\ tx.mVal <= tx'.mVal
      /\ \A r \in Numbered' : r \in Numbered \/ tx.mVal <= r.seq
  BY DEF SeqKept
<1>5. AnswersBelow'
  BY <1>2, <1>3, <1>4 DEF AnswersInv, AnswersBelow
<1>6. ASSUME NEW a \in Unread', NEW r \in Numbered', a.seq = r.seq
      PROVE  Answers(a, r)
  <2>1. a \in Unread /\ (a.seq <= SeqMin \/ a.seq < tx.mVal)
    BY <1>2, <1>6 DEF AnswersInv, AnswersBelow
  <2>2. r \in Numbered
    BY <1>3, <1>4, <1>6, <2>1
  <2>3. QED
    BY <1>6, <2>1, <2>2 DEF AnswersInv, AnswersFit
<1>7. QED
  BY <1>5, <1>6 DEF AnswersInv, AnswersFit, Answers

\* What arrives is the one PDU that the MC sends.
LEMMA OnePduArrives ==
    ASSUME TypeOK, NEW p \in Pdu, Arrive(p), UNCHANGED ready
    PROVE  ResponsesUnread' \subseteq ResponsesUnread \union {p, NoPdu}
<1> DEFINE Bytes == [part : {"header", "body"}, pdu : Pdu]
           b == <<[part |-> "header", pdu |-> NoPdu], [part |-> "body", pdu |-> p]>>
<1>1. NoPdu \in Pdu
  BY NoPduType
<1>2. /\ inbox \in Seq(Bytes) /\ inbox' = inbox \o b /\ b \in Seq(Bytes)
      /\ Len(b) = 2 /\ b[1].pdu = NoPdu /\ b[2].pdu = p
  BY <1>1 DEF TypeOK, Arrive
<1> HIDE DEF b, Bytes
<1>3. /\ DOMAIN inbox' = 1 .. Len(inbox) + 2 /\ DOMAIN inbox = 1 .. Len(inbox)
      /\ Len(inbox) \in Nat
      /\ \A i \in 1 .. Len(inbox) + 2 :
           inbox'[i] = IF i <= Len(inbox) THEN inbox[i] ELSE b[i - Len(inbox)]
  <2>1. /\ inbox' \in Seq(Bytes) /\ Len(inbox') = Len(inbox) + Len(b)
        /\ \A i \in 1 .. Len(inbox) + Len(b) :
             inbox'[i] = IF i <= Len(inbox) THEN inbox[i] ELSE b[i - Len(inbox)]
    BY <1>2, ConcatProperties
  <2>2. /\ DOMAIN inbox' = 1 .. Len(inbox') /\ DOMAIN inbox = 1 .. Len(inbox)
        /\ Len(inbox) \in Nat
    BY <1>2, <2>1, LenProperties
  <2>3. QED
    BY <1>2, <2>1, <2>2
<1>4. ASSUME NEW i \in DOMAIN inbox'
      PROVE  inbox'[i].pdu \in ResponsesUnread \union {p, NoPdu}
  <2>1. CASE i <= Len(inbox)
    <3>1. i \in DOMAIN inbox /\ inbox'[i] = inbox[i]
      BY <1>3, <1>4, <2>1
    <3>2. QED
      BY <3>1 DEF ResponsesUnread
  <2>2. CASE ~(i <= Len(inbox))
    <3>1. i - Len(inbox) \in {1, 2} /\ inbox'[i] = b[i - Len(inbox)]
      BY <1>3, <1>4, <2>2
    <3>2. QED
      BY <1>2, <3>1
  <2>3. QED
    BY <2>1, <2>2
<1>5. QED
  BY <1>4 DEF ResponsesUnread

\* The MC answers a request under its number: the only request that has it.
LEMMA AnswerFits ==
    ASSUME TypeOK, TypeOK', SeqInv, SeqKept, AnswersInv, MCAnswers
    PROVE  AnswersInv'
<1>1. PICK p \in mcQ, cmd \in Commands :
         /\ Arrive(Answer(cmd, p))
         /\ \/ cmd = ResponseOf[p.cmd] \/ cmd = "generic_nack"
            \/ cmd = "bind_reject" /\ p.cmd = "bind"
            \/ cmd = "garbled_resp" /\ p.cmd = "submit"
  <2>1. PICK p \in mcQ :
           \/ Arrive(Answer(ResponseOf[p.cmd], p)) \/ Arrive(Answer("generic_nack", p))
           \/ Arrive(Answer("bind_reject", p)) /\ p.cmd = "bind"
           \/ Arrive(Answer("garbled_resp", p)) /\ p.cmd = "submit"
    BY DEF MCAnswers
  <2>2. p.cmd \in Requests
    BY DEF TypeOK
  <2>3. {ResponseOf[p.cmd], "generic_nack", "bind_reject", "garbled_resp"}
          \subseteq Commands
    BY <2>2 DEF Requests, ResponseOf, Commands, Responses
  <2>4. QED
    BY <2>1, <2>3
<1>2. UNCHANGED <<ready, tx>>
  BY DEF MCAnswers
<1> DEFINE a == Answer(cmd, p)
<1>3. /\ p \in Pdu /\ p.cmd \in Requests /\ p \in Held
      /\ p.seq \in Nat /\ SeqMin \in Nat /\ tx.mVal \in Nat
  BY PduFields, HeldIs, TxFields, SessionAssumption DEF TypeOK, OtherHeld
<1>4. a \in Pdu /\ a.cmd = cmd /\ a.seq = p.seq
  BY <1>1, <1>3, NewPduType DEF Answer, NewPdu
<1>5. ~IsResponse(p)
  BY <1>3 DEF IsResponse, Requests, Responses, ResponseOf
<1>6. ResponsesUnread' \subseteq ResponsesUnread \union {a, NoPdu}
  BY <1>1, <1>2, <1>4, OnePduArrives
<1> HIDE DEF a
<1>7. \A q \in Unread' : q \in Unread \/ (q = a /\ IsResponse(a))
  BY <1>6, NoPduType DEF Unread, IsResponse
<1>8. a.seq <= SeqMin \/ a.seq < tx.mVal
  <2>1. CASE p.seq > SeqMin
    <3>1. p \in Numbered
      BY <1>3, <1>5, <2>1 DEF Numbered
    <3>2. QED
      BY <1>4, <3>1 DEF SeqInv, NumbersBelow
  <2>2. QED
    BY <1>3, <1>4, <2>1
<1>9. AnswersBelow'
  BY <1>2, <1>7, <1>8 DEF AnswersInv, AnswersBelow
<1>10. /\ \A r \in Numbered' : r.seq \in Nat /\ r.seq > SeqMin
       /\ \A r \in Numbered' : r \in Numbered \/ tx.mVal <= r.seq
  <2>1. Held' \subseteq Pdu
    BY HeldTypeNext
  <2>2. QED
    BY <2>1, PduFields DEF Numbered, SeqKept
<1>11. \A q \in Unread : q.seq \in Nat /\ (q.seq <= SeqMin \/ q.seq < tx.mVal)
  BY UnreadType, PduFields DEF Unread, AnswersInv, AnswersBelow
<1>12. ASSUME NEW q \in Unread', NEW r \in Numbered', q.seq = r.seq
       PROVE  Answers(q, r)
  <2>1. r \in Numbered
    BY <1>3, <1>4, <1>7, <1>8, <1>10, <1>11, <1>12
  <2>2. CASE q \in Unread
    BY <1>12, <2>1, <2>2 DEF AnswersInv, AnswersFit
  <2>3. CASE q = a /\ IsResponse(a)
    <3>1. p \in Numbered
      BY <1>3, <1>4, <1>5, <1>10, <1>12, <2>3 DEF Numbered
    <3>2. r = p
      BY <1>4, <1>12, <2>1, <2>3, <3>1 DEF SeqInv, SeqIdentifiesRequest
    <3>3. cmd # "generic_nack"
      BY <1>4, <2>3 DEF IsResponse, Responses, ResponseOf
    <3>4. QED
      BY <1>1, <1>4, <2>3, <3>2, <3>3 DEF Answers
  <2>4. QED
    BY <1>7, <1>12, <2>2, <2>3
<1>13. QED
  BY <1>9, <1>12 DEF AnswersInv, AnswersFit, Answers

\* A request of the MC answers nothing.
LEMMA RequestAnswersNothing ==
    ASSUME TypeOK, TypeOK', SeqKept, AnswersInv, MCAsks
    PROVE  AnswersInv'
<1>1. PICK cmd \in MCSends, seq \in MCSeqs :
         Arrive(NewPdu(cmd, seq, left.requests)) /\ UNCHANGED ready
  BY DEF MCAsks
<1> DEFINE p == NewPdu(cmd, seq, left.requests)
<1>2. cmd \in MCRequests /\ seq \in Nat /\ left.requests \in Nat
  BY SessionAssumption DEF TypeOK
<1>3. p \in Pdu /\ p.cmd = cmd
  BY <1>2, NewPduType DEF MCRequests, Commands, NewPdu
<1>4. ResponsesUnread' \subseteq ResponsesUnread \union {p, NoPdu}
  BY <1>1, <1>3, OnePduArrives
<1>5. ~IsResponse(p)
  BY <1>2, <1>3 DEF MCRequests, IsResponse, Responses, ResponseOf
<1> HIDE DEF p
<1>6. QED
  BY <1>4, <1>5, NoPduType, NoAnswerArrives

\* What a step keeps of the bytes and takes over into the queue of the io thread.
LEMMA CarriesAnswers ==
    ASSUME Follows(ready', ready),
           \A i \in DOMAIN inbox' : \E k \in DOMAIN inbox : inbox'[i].pdu = inbox[k].pdu
    PROVE  ResponsesUnread' \subseteq ResponsesUnread \union {NoPdu}
<1>1. ASSUME NEW i \in DOMAIN inbox'
      PROVE  inbox'[i].pdu \in ResponsesUnread
  BY <1>1 DEF ResponsesUnread
<1>2. ASSUME NEW i \in DOMAIN ready'
      PROVE  ready'[i].pdu \in ResponsesUnread \/ ready'[i].pdu = NoPdu
  <2>1. ready'[i].pdu \in Pdus(ready) \union {NoPdu}
    BY <1>2 DEF Follows, Pdus
  <2>2. QED
    BY <2>1 DEF Pdus, ResponsesUnread
<1>3. QED
  BY <1>1, <1>2 DEF ResponsesUnread

\* The MC that ends a connection may cut off the last PDU; nothing else changes
\* the bytes, except to drop them all.
LEMMA InboxKept ==
    ASSUME TypeOK,
           \/ inbox' = inbox \/ inbox' = <<>>
           \/ inbox # <<>> /\ inbox' = SubSeq(inbox, 1, Len(inbox) - 1)
    PROVE  \A i \in DOMAIN inbox' : \E k \in DOMAIN inbox : inbox'[i].pdu = inbox[k].pdu
<1>1. CASE inbox' = inbox \/ inbox' = <<>>
  BY <1>1
<1>2. CASE inbox # <<>> /\ inbox' = SubSeq(inbox, 1, Len(inbox) - 1)
  <2> DEFINE Bytes == [part : {"header", "body"}, pdu : Pdu]
             n == Len(inbox) - 1
  <2>1. inbox \in Seq(Bytes)
    BY DEF TypeOK
  <2> HIDE DEF Bytes
  <2>2. DOMAIN inbox = 1 .. Len(inbox) /\ Len(inbox) \in Nat /\ n \in Int
    BY <2>1, LenProperties
  <2>3. \A i \in 1 .. n : i \in DOMAIN inbox
    BY <2>2
  <2> HIDE DEF n
  <2>4. \A i \in 1 .. n : inbox[i] \in Bytes
    BY <2>1, <2>2, <2>3, ElementOfSeq
  <2> DEFINE cut == SubSeq(inbox, 1, n)
  <2>5. /\ cut \in Seq(Bytes) /\ Len(cut) = IF 1 <= n THEN n - 1 + 1 ELSE 0
        /\ \A i \in 1 .. n - 1 + 1 : cut[i] = inbox[1 + i - 1]
    BY <2>2, <2>4, SubSeqProperties
  <2>6. inbox' = cut
    BY <1>2 DEF n
  <2> HIDE DEF cut
  <2>7. DOMAIN cut = 1 .. Len(cut)
    BY <2>5, LenProperties
  <2>8. ASSUME NEW i \in DOMAIN cut
        PROVE  i \in DOMAIN inbox /\ cut[i] = inbox[i]
    <3>1. i \in 1 .. n /\ i \in 1 .. n - 1 + 1
      BY <2>2, <2>5, <2>7, <2>8
    <3>2. cut[i] = inbox[1 + i - 1] /\ 1 + i - 1 = i
      BY <2>5, <3>1
    <3>3. QED
      BY <2>3, <3>1, <3>2
  <2>9. QED
    BY <2>6, <2>8
<1>3. QED
  BY <1>1, <1>2

LEMMA InitAnswers == Init => AnswersInv
<1> SUFFICES ASSUME Init PROVE AnswersInv
  OBVIOUS
<1>1. ResponsesUnread = {}
  BY DEF Init, ResponsesUnread
<1>2. QED
  BY <1>1 DEF AnswersInv, AnswersBelow, AnswersFit, Unread

\* The steps in which no response arrives.
LEMMA StepsWithoutAnswer ==
    ASSUME TypeOK, [Next]_vars, ~MCAnswers, ~MCAsks
    PROVE  ResponsesUnread' \subseteq ResponsesUnread \union {NoPdu}
<1> USE DEF connVars, flagVars, mcVars, apiVars
<1>1. CASE ReadDone
  BY <1>1, ReadDoneCarries
<1>2. CASE ProcBindResp \/ ProcEnquireLink \/ ProcDeliverSm \/ ProcGarbled
           \/ ProcUnbind \/ ProcUnbindResp \/ ProcOutbind \/ ProcNothing
  BY <1>2, ProcessCarries, InboxKept, CarriesAnswers DEF Carries
<1>3. CASE CloseConnection \/ HandleConnectOk \/ HandleConnectError
           \/ HandleReadHeaderOk \/ HandleReadError \/ HandleWriteOk
           \/ HandleWriteError \/ DoEnquireLink \/ DoEnquireLinkFailure
           \/ AgeCleanupBegins
  <2>1. inbox' = inbox \/ inbox' = <<>>
    BY <1>3 DEF CloseConnection, HandleConnectOk, HandleConnectError,
       HandleReadHeaderOk, HandleReadError, HandleWriteOk, HandleWriteError,
       DoEnquireLink, DoEnquireLinkFailure, AgeCleanupBegins, ConnectionGone
  <2>2. QED
    BY <1>3, <2>1, HandlerCarries, InboxKept, CarriesAnswers DEF Carries
<1>4. CASE \/ \E n \in {0, 1} : ConnectSucceeds(n) \/ ConnectRefused(n)
           \/ WriteDone \/ WriteFails \/ ReadFails \/ MCDrops \/ TimerExpires
           \/ AgeCleanupResends \/ AgeCleanupEnds \/ RunReturns \/ OtherThreads
  <2>1. Follows(ready', ready)
    BY <1>4, OthersCarry DEF Carries, MessageCentre
  <2>2. \/ inbox' = inbox \/ inbox' = <<>>
        \/ inbox # <<>> /\ inbox' = SubSeq(inbox, 1, Len(inbox) - 1)
    <3>1. CASE MCDrops
      BY <3>1 DEF MCDrops
    <3>2. CASE OtherThreads
      BY <3>2 DEF OtherThreads, OtherThread, TakeMessage, SendPdu, Stop,
         StopClearsReconnect, StopClosesSession, StopPosts, DoWriteLocks,
         DoWritePushes, DoWritePops, DoWriteCrashes, DoWriteWrites
    <3>3. CASE \E n \in {0, 1} : ConnectSucceeds(n) \/ ConnectRefused(n)
      BY <3>3 DEF ConnectSucceeds, ConnectRefused
    <3>4. CASE WriteDone \/ WriteFails \/ ReadFails \/ TimerExpires
               \/ AgeCleanupResends \/ AgeCleanupEnds \/ RunReturns
      BY <3>4 DEF WriteDone, WriteFails, ReadFails, TimerExpires,
         AgeCleanupResends, AgeCleanupEnds, RunReturns
    <3>5. QED
      BY <1>4, <3>1, <3>2, <3>3, <3>4
  <2>3. QED
    BY <2>1, <2>2, InboxKept, CarriesAnswers
<1>5. CASE UNCHANGED vars
  <2>1. ResponsesUnread' = ResponsesUnread
    BY <1>5 DEF vars, ResponsesUnread
  <2>2. QED
    BY <2>1
<1>6. QED
  BY <1>1, <1>2, <1>3, <1>4, <1>5
  DEF Next, Network, MessageCentre, IoThread

LEMMA NextAnswers ==
    TypeOK /\ SeqInv /\ AnswersInv /\ [Next]_vars => AnswersInv'
<1> SUFFICES ASSUME TypeOK, SeqInv, AnswersInv, [Next]_vars PROVE AnswersInv'
  OBVIOUS
<1>1. TypeOK' /\ SeqKept
  BY NextType, NextSeqInv
<1>2. CASE MCAnswers
  BY <1>1, <1>2, AnswerFits
<1>3. CASE MCAsks
  BY <1>1, <1>3, RequestAnswersNothing
<1>4. CASE ~MCAnswers /\ ~MCAsks
  <2>1. \A a \in ResponsesUnread' : a \in ResponsesUnread \/ ~IsResponse(a)
    BY <1>4, StepsWithoutAnswer, NoPduType
  <2>2. QED
    BY <1>1, <2>1, NoAnswerArrives
<1>5. QED
  BY <1>2, <1>3, <1>4

-----------------------------------------------------------------------------
(* What waits for a response was written under a number.                   *)

Fns(s) == {e.fn : e \in Elems(s)}

\* As long as the generator has given out no number there has been no connection,
\* and nothing can be written.
Fresh ==
    /\ currentState = "CLOSED" /\ reads = <<>> /\ tx.fly = <<>>
    /\ w4rQ = {} /\ ageing.todo = {}
    /\ timers \subseteq {"age"} /\ Fns(ready) \subseteq {"connect", "age", "close"}
    /\ \A t \in ThreadIds : thread[t].pc \notin {"lock", "push", "pop", "write"}

\* No write is under way, nor on its way to handle_write.
NothingWritten ==
    /\ tx.fly = <<>> /\ "write" \notin Fns(ready)
    /\ \A t \in ThreadIds : thread[t].pc # "write"

\* After the first number every PDU is written under one above SeqMin, so that
\* handle_write, which looks at the last PDU popped, finds such a number.
NumInv ==
    /\ SeqMin <= tx.mVal /\ (tx.mVal = SeqMin => Fresh)
    /\ tx.last.pdu.seq > SeqMin \/ NothingWritten
    /\ \A p \in w4rQ : p.seq > SeqMin /\ ~IsResponse(p)

\* What a step does to the last PDU popped.
LastStays ==
    tx'.last.pdu.seq > SeqMin \/ (tx'.last = tx.last /\ (NothingWritten => NothingWritten'))

\* The entries of "ready": the one in front and the others.
LEMMA FnsOfReady ==
    ASSUME TypeOK, ready # <<>>
    PROVE  /\ Head(ready).fn \in Fns(ready)
           /\ \A e \in Elems(Tail(ready)) : e.fn \in Fns(ready)
  BY ElemsTail DEF Fns, TypeOK

\* What sessions post for themselves, by the handler it is for.
LEMMA FnsOfPosts ==
    ASSUME TypeOK
    PROVE  /\ \A t : \A e \in FailedWrites(t) : e.fn = "write" /\ t.fly # <<>>
           /\ \A part : \A e \in FailedRead(part) : e.fn = part
           /\ \A e \in Cut :
                \/ e.fn \in {"header", "body"} /\ reads # <<>>
                \/ e.fn = "connect" /\ sock = "connecting"
                \/ e.fn = "write" /\ tx.fly # <<>>
           /\ CloseEntry.fn = "close"
           /\ \A posts \in {<<>>, <<CloseEntry>>} :
                \A e \in Elems(posts) : e.fn = "close"
<1>1. \A fn, err : Posted(fn, err).fn = fn
  BY DEF Posted
<1>2. \A t : \A e \in FailedWrites(t) : e.fn = "write" /\ t.fly # <<>>
  BY <1>1 DEF FailedWrites
<1>3. \A part : \A e \in FailedRead(part) : e.fn = part
  BY <1>1 DEF FailedRead
<1>4. CloseEntry.fn = "close"
  BY <1>1 DEF CloseEntry
<1>5. \A part \in Elems(reads) : part \in {"header", "body"} /\ reads # <<>>
  BY ElemsOf, ElemsSome DEF TypeOK
<1>6. \A e \in Cut : \/ e.fn \in {"header", "body"} /\ reads # <<>>
                     \/ e.fn = "connect" /\ sock = "connecting"
                     \/ e.fn = "write" /\ tx.fly # <<>>
  BY <1>1, <1>5 DEF Cut
<1>7. \A posts \in {<<>>, <<CloseEntry>>} : \A e \in Elems(posts) : e.fn = "close"
  BY <1>4, ElemsOne
<1>8. QED
  BY <1>2, <1>3, <1>4, <1>6, <1>7

\* Before the first connection every step but handle_connect leaves it so.
LEMMA FreshSteps ==
    ASSUME TypeOK, Fresh, [Next]_vars
    PROVE  Fresh' \/ HandleConnectOk
<1> USE DEF connVars, flagVars, mcVars, apiVars
<1> DEFINE Early(s) == \A e \in s : e.fn \in {"connect", "age", "close"}
           Idle == \A t \in ThreadIds : thread[t].pc \notin {"lock", "push", "pop", "write"}
<1>1. Early(Elems(ready)) /\ Idle
  BY DEF Fresh, Fns
<1>2. \A fn, err : Posted(fn, err).fn = fn
  BY DEF Posted
<1>3. ASSUME Early(Elems(ready')), Idle', UNCHANGED <<currentState, reads, w4rQ>>,
             tx'.fly = <<>>, ageing'.todo = {}, timers' \subseteq {"age"}
      PROVE  Fresh'
  BY <1>3 DEF Fresh, Fns
<1>4. CASE \E n \in {0, 1} : ConnectSucceeds(n) \/ ConnectRefused(n)
  <2>1. Elems(ready') \in {Elems(ready) \union {Posted("connect", "ok")},
                           Elems(ready) \union {Posted("connect", "error")}}
    BY <1>4, EnvironmentPosts
  <2>2. UNCHANGED <<currentState, reads, w4rQ, tx, ageing, timers, thread>>
    BY <1>4 DEF ConnectSucceeds, ConnectRefused
  <2>3. QED
    BY <1>1, <1>2, <1>3, <2>1, <2>2 DEF Fresh
<1>5. ~(WriteDone \/ WriteFails \/ ReadDone \/ ReadFails)
  BY DEF Fresh, WriteDone, WriteFails, ReadDone, ReadFails
<1>6. CASE MessageCentre
  <2>1. UNCHANGED <<currentState, reads, w4rQ, tx, ageing, timers, thread, ready>>
    BY <1>6 DEF MessageCentre, MCAnswers, MCAsks, MCDrops
  <2>2. QED
    BY <1>1, <1>3, <2>1 DEF Fresh
<1>7. CASE TimerExpires
  <2>1. /\ timers' \subseteq timers
        /\ Elems(ready') = Elems(ready) \union {Posted("age", "ok")}
    BY <1>7, EnvironmentPosts DEF Fresh
  <2>2. UNCHANGED <<currentState, reads, w4rQ, tx, ageing, thread>>
    BY <1>7 DEF TimerExpires
  <2>3. QED
    BY <1>1, <1>2, <1>3, <2>1, <2>2 DEF Fresh
<1>8. CASE CloseConnection \/ HandleConnectError
  <2>1. ready # <<>>
    BY <1>8 DEF CloseConnection, HandleConnectError, Runs
  <2>2. Early(Elems(Tail(ready))) /\ Early(Cut)
    BY <1>1, <2>1, FnsOfReady, FnsOfPosts DEF Fresh
  <2>3. Early(Elems(ready'))
    <3>1. Elems(ready') = Elems(Tail(ready)) \/ Elems(ready') = Elems(Tail(ready)) \union Cut
      BY <1>8, <2>1, HandlerPosts
    <3>2. QED
      BY <2>2, <3>1
  <2>4. tx'.fly = <<>>
    BY <1>8 DEF CloseConnection, HandleConnectError, Fresh, TypeOK, TxRecord
  <2>5. /\ currentState' = "CLOSED" /\ reads' = <<>> /\ timers' \subseteq timers
        /\ UNCHANGED <<w4rQ, ageing, thread>>
    BY <1>8 DEF CloseConnection, HandleConnectError, ConnectionGone, Fresh
  <2>6. QED
    BY <1>1, <1>3, <2>3, <2>4, <2>5 DEF Fresh
<1>9. ~(HandleReadHeaderOk \/ HandleReadError \/ HandleWriteOk \/ HandleWriteError
        \/ ProcBindResp \/ ProcEnquireLink \/ ProcDeliverSm \/ ProcGarbled
        \/ ProcUnbind \/ ProcUnbindResp \/ ProcOutbind \/ ProcNothing
        \/ DoEnquireLink \/ DoEnquireLinkFailure)
  <2>1. \A fn \in {"header", "body", "write", "enquire", "response"} :
          ~\E err : Runs(fn, err)
    BY FnsOfReady DEF Runs, Fresh
  <2>2. ~(HandleReadHeaderOk \/ HandleReadError \/ HandleWriteOk \/ HandleWriteError
          \/ DoEnquireLink \/ DoEnquireLinkFailure)
    BY <2>1 DEF HandleReadHeaderOk, HandleReadError, HandleWriteOk,
       HandleWriteError, DoEnquireLink, DoEnquireLinkFailure
  <2>3. QED
    BY <2>1, <2>2 DEF ProcBindResp, ProcEnquireLink, ProcDeliverSm, ProcGarbled,
       ProcUnbind, ProcUnbindResp, ProcOutbind, ProcNothing, Arrived
<1>10. CASE AgeCleanupBegins
  <2>1. ready # <<>> /\ ready' = Tail(ready)
    BY <1>10 DEF AgeCleanupBegins, Runs
  <2>2. Early(Elems(ready'))
    BY <1>1, <2>1, FnsOfReady DEF Fresh
  <2>3. UNCHANGED <<currentState, reads, w4rQ, tx, ageing, timers, thread>>
    BY <1>10 DEF AgeCleanupBegins, Fresh
  <2>4. QED
    BY <1>1, <1>3, <2>2, <2>3 DEF Fresh
<1>11. CASE AgeCleanupResends \/ AgeCleanupEnds \/ RunReturns
  <2>1. ~AgeCleanupResends
    BY DEF AgeCleanupResends, Fresh
  <2>2. /\ UNCHANGED <<currentState, reads, w4rQ, tx, thread, ready>>
        /\ timers' \subseteq {"age"} /\ ageing'.todo = {}
    <3>1. CASE AgeCleanupEnds
      BY <3>1 DEF AgeCleanupEnds, Fresh
    <3>2. CASE RunReturns
      BY <3>2 DEF RunReturns, Fresh
    <3>3. QED
      BY <1>11, <2>1, <3>1, <3>2
  <2>3. QED
    BY <1>1, <1>3, <2>2 DEF Fresh
<1>12. CASE OtherThreads
  <2>1. /\ {"sender", "main"} = ThreadIds
        /\ thread \in [ThreadIds -> [pc : ThreadPcs, pdu : Pdu, busy : BOOLEAN]]
    BY DEF TypeOK, ThreadIds
  <2>2. ~\E t \in ThreadIds : OtherThread(t)
    BY <1>1 DEF OtherThread, DoWriteLocks, DoWritePushes, DoWritePops, DoWriteCrashes,
       DoWriteWrites
  <2>3. currentState \notin SendingStates \union BoundStates
    BY DEF Fresh, SendingStates, BoundStates
  <2>4. Idle'
    <3>1. ASSUME NEW t \in ThreadIds, NEW pc, Goto(t, pc),
                 pc \notin {"lock", "push", "pop", "write"}
          PROVE  Idle'
      BY <1>1, <2>1, <3>1 DEF Goto
    <3>2. CASE TakeMessage
      BY <1>1, <2>1, <3>2 DEF TakeMessage
    <3>3. CASE \/ SendPdu \/ Stop \/ StopClearsReconnect
               \/ StopClosesSession \/ StopPosts
      BY <2>1, <2>3, <3>1, <3>3
      DEF SendPdu, Stop, StopClearsReconnect, StopClosesSession, StopPosts
    <3>4. QED
      BY <1>12, <2>2, <3>2, <3>3 DEF OtherThreads
  <2>5. Elems(ready') = Elems(ready) \/ Elems(ready') = Elems(ready) \union {CloseEntry}
    BY <1>12, <2>2, EnvironmentPosts
    DEF OtherThreads, TakeMessage, SendPdu, Stop, StopClearsReconnect,
        StopClosesSession
  <2>6. UNCHANGED <<currentState, reads, w4rQ, tx, ageing, timers>>
    BY <1>12, <2>2
    DEF OtherThreads, TakeMessage, SendPdu, Stop, StopClearsReconnect,
        StopClosesSession, StopPosts
  <2>7. QED
    BY <1>1, <1>3, <2>4, <2>5, <2>6, FnsOfPosts DEF Fresh
<1>13. CASE UNCHANGED vars
  BY <1>1, <1>3, <1>13 DEF vars, Fresh
<1>14. QED
  BY <1>4, <1>5, <1>6, <1>7, <1>8, <1>9, <1>10, <1>11, <1>12, <1>13
  DEF Next, Network, IoThread

Above(t) == t.last.pdu.seq > SeqMin

\* write_pdu() and do_write() after the first number.
LEMMA WritesAbove ==
    ASSUME NEW t \in TxRecord, t.mVal > SeqMin
    PROVE  /\ ~IsEmpty(t.q) => Above(PopPdu(t)) /\ Above(WritePdu(t))
           /\ \A p \in Pdu, l \in Levels :
                LET u == DoWrite(t, p, l) IN
                Above(u) \/ (u.last = t.last /\ u.fly = t.fly)
<1>1. SeqMin \in Nat /\ t.mVal \in Nat /\ t.q \in Queues
  BY SessionAssumption, TxFields
<1>2. ASSUME NEW v \in TxRecord, ~IsEmpty(v.q), v.mVal = t.mVal
      PROVE  Above(PopPdu(v)) /\ Above(WritePdu(v))
  <2> DEFINE p == Front(v.q)
  <2>1. p \in Pdu
    BY <1>2, TxFields, PopType
  <2> HIDE DEF p
  <2>2. ASSUME NEW u, u.last.pdu = IF NeedsSeq(p) THEN [p EXCEPT !.seq = t.mVal] ELSE p
        PROVE  Above(u)
    <3>1. CASE NeedsSeq(p)
      <4>1. u.last.pdu.seq = t.mVal
        BY <2>1, <2>2, <3>1 DEF Pdu
      <4>2. QED
        BY <4>1 DEF Above
    <3>2. CASE ~NeedsSeq(p)
      BY <1>1, <2>1, <2>2, <3>2, PduFields DEF Above, NeedsSeq
    <3>3. QED
      BY <3>1, <3>2
  <2>3. QED
    BY <1>2, <2>2, PopPduNumbers, WritePduNumbers DEF p
<1>3. ASSUME NEW p \in Pdu, NEW l \in Levels
      PROVE  LET u == DoWrite(t, p, l) IN
             Above(u) \/ (u.last = t.last /\ u.fly = t.fly)
  <2> DEFINE v == [t EXCEPT !.q = Push(t.q, p, l)]
  <2>1. /\ v.q = Push(t.q, p, l) /\ v.last = t.last /\ v.fly = t.fly
        /\ v.mVal = t.mVal
    BY DEF TxRecord
  <2>2. v \in TxRecord /\ ~IsEmpty(v.q)
    BY <1>1, <2>1, PushType, PushNotEmpty, TxFields
  <2>3. DoWrite(t, p, l) = IF IsEmpty(t.q) THEN WritePdu(v) ELSE v
    BY DEF DoWrite
  <2> HIDE DEF v
  <2>4. QED
    BY <1>2, <2>1, <2>2, <2>3
<1>4. QED
  BY <1>2, <1>3

\* The requests that take a number themselves: also the very first one.
LEMMA RequestsAbove ==
    ASSUME NEW t \in TxRecord, SeqMin <= t.mVal, NEW cmd \in Commands
    PROVE  LET u == DoWrite(NextSeq(t), NewPdu(cmd, t.mVal, 0), SESSION) IN
           /\ u \in TxRecord
           /\ Above(u) \/ (u.last = t.last /\ u.fly = t.fly)
<1> DEFINE v == NextSeq(t)
           p == NewPdu(cmd, t.mVal, 0)
<1>1. /\ v \in TxRecord /\ p \in Pdu /\ SESSION \in Levels
  BY TxFields, NewPduType, LevelsAre
<1>2. /\ v.last = t.last /\ v.fly = t.fly /\ v.mVal = t.mVal + 1
  BY DEF NextSeq, TxRecord
<1>3. v.mVal > SeqMin
  BY <1>2, SessionAssumption, TxFields
<1> HIDE DEF v, p
<1>4. QED
  BY <1>1, <1>2, <1>3, WritesAbove, DoWriteType DEF v, p

\* A handler that writes t.
LEMMA WriterStays ==
    ASSUME TypeOK, ready # <<>>, NEW t \in TxRecord, Transmit(t), thread' = thread,
           Above(t) \/ (t.last = tx.last /\ t.fly = tx.fly),
           \A e \in Elems(ready') :
             e \in Elems(Tail(ready)) \union FailedWrites(t) \/ e.fn # "write"
    PROVE  LastStays
<1>1. tx'.last = t.last /\ tx'.fly \in {t.fly, <<>>}
  BY DEF Transmit, TxRecord
<1>2. CASE Above(t)
  BY <1>1, <1>2 DEF LastStays, Above
<1>3. CASE t.last = tx.last /\ t.fly = tx.fly
  <2> SUFFICES ASSUME NothingWritten PROVE NothingWritten'
    BY <1>1, <1>3 DEF LastStays
  <2>1. \A e \in Elems(ready') : e.fn # "write"
    BY <1>3, FnsOfReady, FnsOfPosts DEF NothingWritten
  <2>2. QED
    BY <1>1, <1>3, <2>1 DEF NothingWritten, Fns
<1>4. QED
  BY <1>2, <1>3

\* A step that writes nothing.
LEMMA QuietStays ==
    ASSUME TypeOK, tx'.last = tx.last, tx.fly = <<>> => tx'.fly = <<>>,
           NothingWritten => \A e \in Elems(ready') : e.fn # "write",
           \A t \in ThreadIds : thread'[t].pc = "write" => thread[t].pc = "write"
    PROVE  LastStays
  BY DEF LastStays, NothingWritten, Fns

\* handle_read_body.
LEMMA ProcessStays ==
    ASSUME TypeOK, tx.mVal > SeqMin,
           \/ ProcBindResp \/ ProcEnquireLink \/ ProcDeliverSm \/ ProcGarbled
           \/ ProcUnbind \/ ProcUnbindResp \/ ProcOutbind \/ ProcNothing
    PROVE  LastStays
<1>1. tx \in TxRecord /\ SESSION \in Levels /\ RESPONSE \in Levels /\ SeqMin \in Nat
  BY LevelsAre, SessionAssumption DEF TypeOK
<1>2. ready # <<>>
  BY DEF ProcBindResp, ProcEnquireLink, ProcDeliverSm, ProcGarbled, ProcUnbind,
         ProcUnbindResp, ProcOutbind, ProcNothing, Arrived, Runs
<1>3. ASSUME NEW t \in TxRecord, NEW posts \in {<<>>, <<CloseEntry>>},
             ReadNext(t, posts), Above(t) \/ (t.last = tx.last /\ t.fly = tx.fly)
      PROVE  LastStays
  <2>1. Transmit(t) /\ thread' = thread
    BY <1>3 DEF ReadNext, apiVars
  <2>2. Elems(ready') = Elems(Tail(ready)) \union FailedWrites(t)
                        \union Elems(posts) \union FailedRead("header")
    BY <1>2, <1>3, HandlerPosts
  <2>3. \A e \in Elems(ready') :
          e \in Elems(Tail(ready)) \union FailedWrites(t) \/ e.fn # "write"
    BY <2>2, FnsOfPosts
  <2>4. QED
    BY <1>2, <1>3, <2>1, <2>3, WriterStays
<1>4. ASSUME NEW cmd \in Commands
      PROVE  LET t == Respond(cmd) IN
             t \in TxRecord /\ (Above(t) \/ (t.last = tx.last /\ t.fly = tx.fly))
  <2>1. Answer(cmd, Head(ready).pdu) \in Pdu
    BY <1>2, ReadyType, PduFields, NewPduType DEF Answer
  <2>2. QED
    BY <1>1, <2>1, WritesAbove, DoWriteType DEF Respond
<1>5. CASE ProcBindResp \/ ProcUnbindResp \/ ProcNothing
  <2>1. ReadNext(tx, <<>>) \/ ReadNext(tx, <<CloseEntry>>)
    BY <1>5 DEF ProcBindResp, ProcUnbindResp, ProcNothing
  <2>2. QED
    BY <1>1, <1>3, <2>1
<1>6. CASE ProcEnquireLink \/ ProcDeliverSm \/ ProcUnbind
  <2>1. \E cmd \in Commands :
          ReadNext(Respond(cmd), <<>>) \/ ReadNext(Respond(cmd), <<CloseEntry>>)
    BY <1>6, CommandsAre DEF ProcEnquireLink, ProcDeliverSm, ProcUnbind
  <2>2. QED
    BY <1>3, <1>4, <2>1
<1>7. CASE ProcGarbled
  <2> DEFINE t == DoUnbindRequest(tx)
  <2>1. NewPdu("unbind", SeqMin, 0) \in Pdu
    BY <1>1, NewPduType, CommandsAre
  <2>2. t \in TxRecord /\ (Above(t) \/ (t.last = tx.last /\ t.fly = tx.fly))
    BY <1>1, <2>1, WritesAbove, DoWriteType DEF DoUnbindRequest
  <2>3. ReadNext(t, <<CloseEntry>>) \/ ReadNext(tx, <<CloseEntry>>)
    BY <1>7 DEF ProcGarbled
  <2> HIDE DEF t
  <2>4. QED
    BY <1>1, <1>3, <2>2, <2>3
<1>8. CASE ProcOutbind
  <2> DEFINE t == DoBindRequest(tx)
  <2>1. t \in TxRecord /\ (Above(t) \/ (t.last = tx.last /\ t.fly = tx.fly))
    BY <1>1, RequestsAbove, CommandsAre, TxFields DEF DoBindRequest
  <2>2. ReadNext(t, <<>>)
    BY <1>8 DEF ProcOutbind
  <2> HIDE DEF t
  <2>3. QED
    BY <1>3, <2>1, <2>2
<1>9. QED
  BY <1>5, <1>6, <1>7, <1>8

\* The other handlers of the io thread.
LEMMA HandlerStays ==
    ASSUME TypeOK, SeqMin <= tx.mVal, tx.mVal > SeqMin \/ HandleConnectOk,
           \/ CloseConnection \/ HandleConnectOk \/ HandleConnectError
           \/ HandleReadHeaderOk \/ HandleReadError \/ HandleWriteOk
           \/ HandleWriteError \/ DoEnquireLink \/ DoEnquireLinkFailure
           \/ AgeCleanupBegins
    PROVE  LastStays
<1> USE DEF connVars, flagVars, mcVars, apiVars
<1>1. tx \in TxRecord /\ SESSION \in Levels
  BY LevelsAre DEF TypeOK
<1>2. ready # <<>>
  BY DEF CloseConnection, HandleConnectOk, HandleConnectError, HandleReadHeaderOk,
     HandleReadError, HandleWriteOk, HandleWriteError, DoEnquireLink,
     DoEnquireLinkFailure, AgeCleanupBegins, Runs
<1>3. NothingWritten => \A e \in Elems(Tail(ready)) : e.fn # "write"
  BY <1>2, FnsOfReady DEF NothingWritten
<1>4. CASE CloseConnection \/ HandleConnectError
  <2>1. Elems(ready') = Elems(Tail(ready)) \/ Elems(ready') = Elems(Tail(ready)) \union Cut
    BY <1>2, <1>4, HandlerPosts
  <2>2. NothingWritten => \A e \in Elems(ready') : e.fn # "write"
    BY <1>3, <2>1, FnsOfPosts DEF NothingWritten
  <2>3. /\ tx'.last = tx.last /\ (tx.fly = <<>> => tx'.fly = <<>>)
        /\ thread' = thread
    BY <1>1, <1>4 DEF CloseConnection, HandleConnectError, TxRecord
  <2>4. QED
    BY <2>2, <2>3, QuietStays
<1>5. CASE HandleConnectOk
  <2> DEFINE t == DoBindRequest(tx)
  <2>1. t \in TxRecord /\ (Above(t) \/ (t.last = tx.last /\ t.fly = tx.fly))
    BY <1>1, RequestsAbove, CommandsAre DEF DoBindRequest
  <2>2. /\ Transmit(t) /\ thread' = thread
        /\ Elems(ready') = Elems(Tail(ready)) \union FailedWrites(t)
                           \union FailedRead("header")
    BY <1>2, <1>5, HandlerPosts DEF HandleConnectOk
  <2> HIDE DEF t
  <2>3. QED
    BY <1>2, <2>1, <2>2, FnsOfPosts, WriterStays
<1>6. CASE HandleReadHeaderOk \/ AgeCleanupBegins
  <2>1. \/ Elems(ready') = Elems(Tail(ready)) \union FailedRead("body")
        \/ Elems(ready') = Elems(Tail(ready))
    BY <1>2, <1>6, HandlerPosts DEF AgeCleanupBegins
  <2>2. tx' = tx /\ thread' = thread
    BY <1>6 DEF HandleReadHeaderOk, AgeCleanupBegins
  <2>3. QED
    BY <1>3, <2>1, <2>2, FnsOfPosts, QuietStays
<1>7. ASSUME NEW b, CloseSession(b), thread' = thread, tx.mVal > SeqMin
      PROVE  LastStays
  <2>1. PICK t \in TxRecord :
          /\ t = IF currentState \in BoundStates THEN DoUnbindRequest(tx) ELSE tx
          /\ Transmit(t)
          /\ \/ Elems(ready') = Elems(Tail(ready)) \union FailedWrites(t)
                                \union {CloseEntry}
             \/ Elems(ready') = Elems(Tail(ready)) \union {CloseEntry}
    BY <1>2, <1>7, HandlerPosts
  <2>2. NewPdu("unbind", SeqMin, 0) \in Pdu
    BY NewPduType, CommandsAre, SessionAssumption
  <2>3. Above(t) \/ (t.last = tx.last /\ t.fly = tx.fly)
    BY <1>1, <1>7, <2>1, <2>2, WritesAbove DEF DoUnbindRequest
  <2>4. \A e \in Elems(ready') :
          e \in Elems(Tail(ready)) \union FailedWrites(t) \/ e.fn # "write"
    BY <2>1, FnsOfPosts
  <2>5. QED
    BY <1>2, <1>7, <2>1, <2>3, <2>4, WriterStays
<1>8. CASE HandleReadError \/ DoEnquireLinkFailure
  <2>1. CASE CloseSession(TRUE) \/ CloseSession(FALSE)
    BY <1>7, <1>8, <2>1 DEF HandleReadError, DoEnquireLinkFailure, HandleConnectOk, Runs
  <2>2. CASE ~(CloseSession(TRUE) \/ CloseSession(FALSE))
    <3>1. /\ ready' = Tail(ready) \/ ready' = Append(Tail(ready), CloseEntry)
          /\ tx' = tx /\ thread' = thread
      BY <1>8, <2>2 DEF HandleReadError, DoEnquireLinkFailure
    <3>2. \A e \in Elems(ready') : e \in Elems(Tail(ready)) \/ e = CloseEntry
      BY <1>2, <3>1, HandlerPosts
    <3>3. QED
      BY <1>3, <3>1, <3>2, FnsOfPosts, QuietStays
  <2>3. QED
    BY <2>1, <2>2
<1>9. CASE HandleWriteOk
  <2> DEFINE t == IF CanSend(w4rQ') /\ ~IsEmpty(tx.q) THEN WritePdu(tx) ELSE tx
  <2>1. /\ Transmit(t) /\ thread' = thread
        /\ ready' = Tail(ready) \o WriteFailures(t)
    BY <1>9 DEF HandleWriteOk
  <2>2. tx.mVal > SeqMin
    BY <1>9 DEF HandleWriteOk, HandleConnectOk, Runs
  <2>3. t \in TxRecord /\ (Above(t) \/ (t.last = tx.last /\ t.fly = tx.fly))
    BY <1>1, <2>2, WritePduType, WritesAbove
  <2> HIDE DEF t
  <2>4. Elems(ready') = Elems(Tail(ready)) \union FailedWrites(t)
    BY <1>2, <2>1, <2>3, HandlerPosts
  <2>5. QED
    BY <1>2, <2>1, <2>3, <2>4, WriterStays
<1>10. CASE HandleWriteError
  <2>1. ready' = Tail(ready) \/ ready' = Append(Tail(ready), CloseEntry)
    BY <1>10 DEF HandleWriteError
  <2>2. \A e \in Elems(ready') : e \in Elems(Tail(ready)) \/ e = CloseEntry
    BY <1>2, <2>1, HandlerPosts
  <2>3. tx'.last = tx.last /\ tx'.fly = tx.fly /\ thread' = thread
    BY <1>1, <1>10 DEF HandleWriteError, TxRecord
  <2>4. QED
    BY <1>3, <2>2, <2>3, FnsOfPosts, QuietStays
<1>11. CASE DoEnquireLink
  <2> DEFINE t == DoWrite(NextSeq(tx), NewPdu("enquire", tx.mVal, 0), SESSION)
  <2>1. t \in TxRecord /\ (Above(t) \/ (t.last = tx.last /\ t.fly = tx.fly))
    BY <1>1, RequestsAbove, CommandsAre
  <2>2. /\ Transmit(t) /\ thread' = thread
        /\ ready' = Tail(ready) \o WriteFailures(t)
    BY <1>11 DEF DoEnquireLink
  <2> HIDE DEF t
  <2>3. Elems(ready') = Elems(Tail(ready)) \union FailedWrites(t)
    BY <1>2, <2>1, <2>2, HandlerPosts
  <2>4. QED
    BY <1>2, <2>1, <2>2, <2>3, WriterStays
<1>12. QED
  BY <1>4, <1>5, <1>6, <1>8, <1>9, <1>10, <1>11

\* The environment, the loop over w4rQ and the other threads.
LEMMA OthersStay ==
    ASSUME TypeOK, tx.mVal > SeqMin,
           \/ Network \/ MessageCentre \/ TimerExpires \/ AgeCleanupResends
           \/ AgeCleanupEnds \/ RunReturns \/ OtherThreads
    PROVE  LastStays
<1> USE DEF connVars, flagVars, mcVars, apiVars
<1>1. /\ tx \in TxRecord /\ SESSION \in Levels /\ MESSAGE \in Levels
      /\ {"sender", "main"} = ThreadIds
      /\ thread \in [ThreadIds -> [pc : ThreadPcs, pdu : Pdu, busy : BOOLEAN]]
  BY LevelsAre DEF TypeOK, ThreadIds
<1>2. NothingWritten => \A e \in Elems(ready) : e.fn # "write"
  BY DEF NothingWritten, Fns
<1>3. \A fn, err : Posted(fn, err).fn = fn
  BY DEF Posted
<1>4. CASE WriteDone \/ WriteFails
  <2>1. tx.fly # <<>> /\ tx' = [tx EXCEPT !.fly = Tail(tx.fly)] /\ thread' = thread
    BY <1>4 DEF WriteDone, WriteFails
  <2>2. tx'.last = tx.last
    BY <1>1, <2>1 DEF TxRecord
  <2>3. QED
    BY <2>1, <2>2, QuietStays DEF NothingWritten
<1>5. CASE \/ \E n \in {0, 1} : ConnectSucceeds(n) \/ ConnectRefused(n)
           \/ ReadDone \/ ReadFails \/ TimerExpires
  <2>1. \A e \in Elems(ready') : e \in Elems(ready) \/ e.fn # "write"
    <3>1. CASE \E n \in {0, 1} : ConnectSucceeds(n) \/ ConnectRefused(n)
      BY <1>3, <3>1, EnvironmentPosts
    <3>2. CASE ReadDone \/ ReadFails
      <4>1. Head(reads) \in {"header", "body"}
        BY <3>2, HeadTailProperties DEF ReadDone, ReadFails, TypeOK
      <4>2. QED
        BY <1>3, <3>2, <4>1, EnvironmentPosts
    <3>3. CASE TimerExpires
      <4>1. timers \subseteq {"enquire", "response", "age"}
        BY DEF TypeOK, Timers
      <4>2. QED
        BY <1>3, <3>3, <4>1, EnvironmentPosts
    <3>4. QED
      BY <1>5, <3>1, <3>2, <3>3
  <2>2. tx' = tx /\ thread' = thread
    BY <1>5 DEF ConnectSucceeds, ConnectRefused, ReadDone, ReadFails, TimerExpires
  <2>3. QED
    BY <1>2, <2>1, <2>2, QuietStays
<1>6. CASE MessageCentre \/ AgeCleanupEnds \/ RunReturns
  <2>1. tx' = tx /\ thread' = thread /\ ready' = ready
    BY <1>6 DEF MessageCentre, MCAnswers, MCAsks, MCDrops, AgeCleanupEnds, RunReturns
  <2>2. QED
    BY <1>2, <2>1, QuietStays
<1>7. CASE AgeCleanupResends
  <2>1. PICK p \in ageing.todo :
          /\ Transmit(DoWrite(tx, p, MESSAGE)) /\ thread' = thread
          /\ ready' = ready \o WriteFailures(DoWrite(tx, p, MESSAGE))
    BY <1>7 DEF AgeCleanupResends
  <2> DEFINE t == DoWrite(tx, p, MESSAGE)
  <2>2. p \in Pdu
    BY DEF TypeOK
  <2>3. t \in TxRecord /\ (Above(t) \/ (t.last = tx.last /\ t.fly = tx.fly))
    BY <1>1, <2>2, DoWriteType, WritesAbove
  <2> HIDE DEF t
  <2>4. tx'.last = t.last /\ (tx'.fly = t.fly \/ tx'.fly = <<>>)
    BY <2>1, <2>3 DEF Transmit, TxRecord, t
  <2>5. Elems(ready') = Elems(ready) \union FailedWrites(t)
    BY <2>1, <2>3, PostElems DEF TypeOK, t
  <2>6. CASE Above(t)
    BY <2>4, <2>6 DEF LastStays, Above
  <2>7. CASE t.last = tx.last /\ t.fly = tx.fly
    BY <1>2, <2>1, <2>4, <2>5, <2>7, FnsOfPosts, QuietStays DEF NothingWritten
  <2>8. QED
    BY <2>3, <2>6, <2>7
<1>8. CASE \/ TakeMessage \/ SendPdu \/ Stop \/ StopClearsReconnect
           \/ StopClosesSession \/ StopPosts
  <2>1. \A t \in ThreadIds : thread'[t].pc = "write" => thread[t].pc = "write"
    BY <1>1, <1>8 DEF TakeMessage, SendPdu, Stop, StopClearsReconnect,
                      StopClosesSession, StopPosts, Goto
  <2>2. Elems(ready') = Elems(ready) \/ Elems(ready') = Elems(ready) \union {CloseEntry}
    BY <1>8, EnvironmentPosts DEF TakeMessage, SendPdu, Stop, StopClearsReconnect,
                                  StopClosesSession
  <2>3. tx' = tx
    BY <1>8 DEF TakeMessage, SendPdu, Stop, StopClearsReconnect,
                StopClosesSession, StopPosts
  <2>4. QED
    BY <1>2, <2>1, <2>2, <2>3, FnsOfPosts, QuietStays
<1>9. ASSUME NEW t \in ThreadIds,
             DoWriteLocks(t) \/ DoWritePushes(t) \/ DoWriteCrashes(t)
      PROVE  LastStays
  <2>1. \A s \in ThreadIds : thread'[s].pc = "write" => thread[s].pc = "write"
    BY <1>1, <1>9
    DEF DoWriteLocks, DoWritePushes, DoWriteCrashes, Goto, Returns
  <2>2. tx'.last = tx.last /\ tx'.fly = tx.fly /\ ready' = ready
    BY <1>1, <1>9 DEF DoWriteLocks, DoWritePushes, DoWriteCrashes, TxRecord
  <2>3. QED
    BY <1>2, <2>1, <2>2, QuietStays
<1>10. ASSUME NEW t \in ThreadIds, DoWritePops(t)
       PROVE  LastStays
  <2>1. Above(tx')
    BY <1>1, <1>10, WritesAbove DEF DoWritePops
  <2>2. QED
    BY <2>1 DEF LastStays, Above
<1>11. ASSUME NEW t \in ThreadIds, DoWriteWrites(t)
       PROVE  LastStays
  <2>1. ~NothingWritten
    BY <1>11 DEF DoWriteWrites, NothingWritten
  <2>2. tx'.last = tx.last
    BY <1>1, <1>11 DEF DoWriteWrites, Transmit, TxRecord
  <2>3. QED
    BY <2>1, <2>2 DEF LastStays
<1>12. QED
  BY <1>4, <1>5, <1>6, <1>7, <1>8, <1>9, <1>10, <1>11
  DEF Network, OtherThreads, OtherThread

\* Every step.
LEMMA LastSteps ==
    ASSUME TypeOK, SeqMin <= tx.mVal, tx.mVal > SeqMin \/ HandleConnectOk, [Next]_vars
    PROVE  LastStays
<1>1. CASE UNCHANGED vars
  <2>1. UNCHANGED <<tx, ready, thread>>
    BY <1>1 DEF vars, apiVars
  <2>2. QED
    BY <2>1 DEF LastStays, NothingWritten, Fns
<1>2. CASE HandleConnectOk
  BY <1>2, HandlerStays
<1>3. CASE Next /\ tx.mVal > SeqMin
  BY <1>3, HandlerStays, ProcessStays, OthersStay DEF Next, IoThread
<1>4. QED
  BY <1>1, <1>2, <1>3

\* What waits for a response: handle_write adds the last PDU popped.
LEMMA W4rQSteps ==
    ASSUME TypeOK, [Next]_vars
    PROVE  \A p \in w4rQ' : \/ p \in w4rQ
                            \/ p = tx.last.pdu /\ ~IsResponse(p) /\ ~NothingWritten
<1> USE DEF connVars, flagVars, mcVars, apiVars
<1>1. CASE HandleWriteOk
  <2>1. ready # <<>> /\ Head(ready).fn = "write"
    BY <1>1 DEF HandleWriteOk, Runs
  <2>2. ~NothingWritten
    BY <2>1, FnsOfReady DEF NothingWritten
  <2>3. QED
    BY <1>1, <2>2 DEF HandleWriteOk, W4rQPut
<1>2. CASE ~HandleWriteOk
  <2>1. CASE Network \/ MessageCentre \/ TimerExpires
    BY <2>1 DEF Network, ConnectSucceeds, ConnectRefused, WriteDone, WriteFails,
       ReadDone, ReadFails, MessageCentre, MCAnswers, MCAsks, MCDrops, TimerExpires
  <2>2. CASE CloseConnection \/ HandleConnectOk \/ HandleConnectError
             \/ HandleReadHeaderOk \/ HandleReadError \/ HandleWriteError
             \/ DoEnquireLink \/ DoEnquireLinkFailure \/ AgeCleanupBegins
             \/ AgeCleanupResends \/ AgeCleanupEnds \/ RunReturns
    BY <2>2 DEF CloseConnection, HandleConnectOk, HandleConnectError,
       HandleReadHeaderOk, HandleReadError, HandleWriteError, DoEnquireLink,
       DoEnquireLinkFailure, AgeCleanupBegins, AgeCleanupResends, AgeCleanupEnds,
       RunReturns
  <2>3. CASE ProcBindResp \/ ProcEnquireLink \/ ProcDeliverSm \/ ProcGarbled
             \/ ProcUnbind \/ ProcUnbindResp \/ ProcOutbind \/ ProcNothing
    BY <2>3 DEF ProcBindResp, ProcEnquireLink, ProcDeliverSm, ProcGarbled,
       ProcUnbind, ProcUnbindResp, ProcOutbind, ProcNothing, ReadNext, W4rQPop
  <2>4. CASE OtherThreads
    BY <2>4 DEF OtherThreads, OtherThread, TakeMessage, SendPdu, Stop,
       StopClearsReconnect, StopClosesSession, StopPosts, DoWriteLocks,
       DoWritePushes, DoWritePops, DoWriteCrashes, DoWriteWrites
  <2>5. CASE UNCHANGED vars
    BY <2>5 DEF vars
  <2>6. QED
    BY <1>2, <2>1, <2>2, <2>3, <2>4, <2>5 DEF Next, IoThread
<1>3. QED
  BY <1>1, <1>2

LEMMA InitNum == Init => NumInv
<1> SUFFICES ASSUME Init PROVE NumInv
  OBVIOUS
<1>1. Fns(ready) = {}
  BY ElemsOne DEF Init, Fns
<1>2. \A t \in ThreadIds : thread[t].pc = "idle"
  BY DEF Init, IdleThread
<1>3. tx.mVal = SeqMin /\ tx.fly = <<>>
  BY DEF Init
<1>4. Fresh /\ NothingWritten
  BY <1>1, <1>2, <1>3 DEF Fresh, NothingWritten, Init
<1>5. QED
  BY <1>3, <1>4, SessionAssumption DEF NumInv, Init

LEMMA NextNum == TypeOK /\ SeqKept /\ NumInv /\ [Next]_vars => NumInv'
<1> SUFFICES ASSUME TypeOK, TypeOK', SeqKept, NumInv, [Next]_vars PROVE NumInv'
  BY NextType
<1>1. /\ SeqMin \in Nat /\ tx.mVal \in Nat /\ tx'.mVal \in Nat
      /\ tx.mVal <= tx'.mVal /\ SeqMin <= tx.mVal
  BY SessionAssumption, TxFields DEF TypeOK, SeqKept, NumInv
<1>2. HandleConnectOk => tx'.mVal > SeqMin
  <2> SUFFICES ASSUME HandleConnectOk PROVE tx'.mVal > SeqMin
    OBVIOUS
  <2> DEFINE p == NewPdu("bind", tx.mVal, 0)
             u == DoBindRequest(tx)
             v == NextSeq(tx)
  <2>1. v \in TxRecord /\ p \in Pdu /\ SESSION \in Levels /\ v.mVal = tx.mVal + 1
    BY TxFields, NewPduType, CommandsAre, LevelsAre DEF TypeOK, NextSeq, TxRecord
  <2>2. u = DoWrite(v, p, SESSION)
    BY DEF DoBindRequest
  <2>3. Transmit(u) /\ u \in TxRecord
    BY DoBindRequestType DEF HandleConnectOk, TypeOK
  <2> HIDE DEF u, v, p
  <2>4. u.mVal = v.mVal \/ u.mVal = v.mVal + 1
    BY <2>1, <2>2, DoWriteSeq
  <2>5. tx'.mVal = u.mVal
    BY <2>3 DEF Transmit, TxRecord
  <2>6. QED
    BY <1>1, <2>1, <2>4, <2>5
<1>3. SeqMin <= tx'.mVal /\ (tx'.mVal = SeqMin => Fresh')
  <2>1. tx'.mVal = SeqMin => Fresh'
    <3> SUFFICES ASSUME tx'.mVal = SeqMin PROVE Fresh'
      OBVIOUS
    <3>1. tx.mVal = SeqMin /\ ~HandleConnectOk
      BY <1>1, <1>2
    <3>2. QED
      BY <3>1, FreshSteps DEF NumInv
  <2>2. QED
    BY <1>1, <2>1
<1>4. tx'.last.pdu.seq > SeqMin \/ NothingWritten'
  <2>1. CASE Fresh'
    BY <2>1 DEF Fresh, NothingWritten
  <2>2. CASE ~Fresh'
    <3>1. tx.mVal > SeqMin \/ HandleConnectOk
      BY <1>1, <2>2, FreshSteps DEF NumInv
    <3>2. LastStays
      BY <1>1, <3>1, LastSteps
    <3>3. QED
      BY <3>2 DEF LastStays, NumInv
  <2>3. QED
    BY <2>1, <2>2
<1>5. \A p \in w4rQ' : p.seq > SeqMin /\ ~IsResponse(p)
  BY W4rQSteps DEF NumInv
<1>6. QED
  BY <1>3, <1>4, <1>5 DEF NumInv, IsResponse

\* What w4rQ_pop() erases when a response is read is the request that the
\* response answers, for every number of retries, reconnections and resends.
THEOREM SessionAnswersMatch ==
    ASSUME BacklogIsNew
    PROVE  Spec => []AnswersMatch
<1>1. Init => TypeOK /\ SeqInv /\ AnswersInv /\ NumInv
  BY InitType, InitSeq, InitAnswers, InitNum
<1>2. TypeOK /\ SeqInv /\ AnswersInv /\ NumInv /\ [Next]_vars
        => (TypeOK /\ SeqInv /\ AnswersInv /\ NumInv)'
  BY NextType, NextSeqInv, NextAnswers, NextNum DEF SeqKept
<1>3. AnswersInv /\ NumInv => AnswersMatch
  <2> SUFFICES ASSUME AnswersInv, NumInv,
                      NEW a \in Unread, NEW r \in w4rQ, a.seq = r.seq
               PROVE  Answers(a, r)
    BY DEF AnswersMatch, Answers, Unread
  <2>1. r \in Numbered
    BY DEF NumInv, Numbered, Held
  <2>2. QED
    BY <2>1 DEF AnswersInv, AnswersFit
<1>4. QED
  BY <1>1, <1>2, <1>3, PTL DEF Spec

-----------------------------------------------------------------------------
(* The session's own responses.                                            *)

KeepsNumber(p) == IsResponse(p) /\ p.ref > SeqMin => p.seq = p.ref

AllKeep(t) == \A p \in TxPdus(t) : KeepsNumber(p)

\* Wherever a response is held, one that is to be written again included.
HeldKeeps == \A p \in Held : KeepsNumber(p)

LEMMA RequestKeeps ==
    \A cmd \in Requests : \A seq, ref : KeepsNumber(NewPdu(cmd, seq, ref))
  BY DEF KeepsNumber, IsResponse, NewPdu, Requests, Responses, ResponseOf

\* write_pdu() gives no new number to a response that has one above SeqMin.
LEMMA WriteKeeps ==
    ASSUME NEW t \in TxRecord, ~IsEmpty(t.q), AllKeep(t)
    PROVE  AllKeep(PopPdu(t)) /\ AllKeep(WritePdu(t))
<1> DEFINE p == Front(t.q)
<1>1. p \in Pdu /\ SeqMin \in Nat
  BY TxFields, PopType, SessionAssumption
<1> HIDE DEF p
<1>2. ASSUME NEW u,
             /\ TxPdus(u) \subseteq TxPdus(t) \union {u.last.pdu}
             /\ IF NeedsSeq(p) THEN u.last.pdu = [p EXCEPT !.seq = t.mVal]
                               ELSE u.last.pdu = p
             /\ p \in TxPdus(t)
      PROVE  AllKeep(u)
  <2>1. KeepsNumber(p)
    BY <1>2 DEF AllKeep
  <2>2. CASE NeedsSeq(p)
    <3>1. u.last.pdu.cmd = p.cmd /\ u.last.pdu.ref = p.ref
      BY <1>1, <1>2, <2>2 DEF Pdu
    <3>2. ~(IsResponse(p) /\ p.ref > SeqMin)
      BY <1>1, <2>1, <2>2, PduFields DEF KeepsNumber, NeedsSeq
    <3>3. KeepsNumber(u.last.pdu)
      BY <3>1, <3>2 DEF KeepsNumber, IsResponse
    <3>4. QED
      BY <1>2, <3>3 DEF AllKeep
  <2>3. CASE ~NeedsSeq(p)
    BY <1>2, <2>1, <2>3 DEF AllKeep
  <2>4. QED
    BY <2>2, <2>3
<1>3. QED
  BY <1>2, PopPduNumbers, WritePduNumbers DEF p

LEMMA DoWriteKeeps ==
    ASSUME NEW t \in TxRecord, NEW p \in Pdu, NEW l \in Levels,
           AllKeep(t), KeepsNumber(p)
    PROVE  AllKeep(DoWrite(t, p, l))
<1> DEFINE v == [t EXCEPT !.q = Push(t.q, p, l)]
<1>1. v.q = Push(t.q, p, l) /\ v.last = t.last /\ v.fly = t.fly
  BY DEF TxRecord
<1>2. v \in TxRecord /\ ~IsEmpty(v.q)
  <2>1. Push(t.q, p, l) \in Queues /\ ~IsEmpty(Push(t.q, p, l))
    BY TxFields, PushType, PushNotEmpty
  <2>2. QED
    BY <1>1, <2>1, TxFields
<1>3. DoWrite(t, p, l) = IF IsEmpty(t.q) THEN WritePdu(v) ELSE v
  BY DEF DoWrite
<1> HIDE DEF v
<1>4. TxPdus(v) \subseteq TxPdus(t) \union {p}
  BY <1>1, ItemsOf, TxFields DEF TxPdus
<1>5. AllKeep(v)
  BY <1>4 DEF AllKeep
<1>6. QED
  BY <1>2, <1>3, <1>5, WriteKeeps

\* The requests the session makes are no responses.
LEMMA NewRequestKeeps ==
    ASSUME NEW t \in TxRecord, NEW cmd \in Requests, AllKeep(t)
    PROVE  /\ AllKeep(DoWrite(NextSeq(t), NewPdu(cmd, t.mVal, 0), SESSION))
           /\ AllKeep(DoUnbindRequest(t))
<1>1. /\ NextSeq(t) \in TxRecord /\ t.mVal \in Nat /\ SeqMin \in Nat
      /\ SESSION \in Levels /\ cmd \in Commands /\ "unbind" \in Requests
      /\ "unbind" \in Commands
  BY TxFields, LevelsAre, SessionAssumption DEF Requests, Commands
<1>2. NextSeq(t).q = t.q /\ NextSeq(t).last = t.last /\ NextSeq(t).fly = t.fly
  BY DEF NextSeq, TxRecord
<1>3. AllKeep(NextSeq(t))
  BY <1>2 DEF AllKeep, TxPdus
<1>4. AllKeep(DoWrite(NextSeq(t), NewPdu(cmd, t.mVal, 0), SESSION))
  BY <1>1, <1>3, NewPduType, RequestKeeps, DoWriteKeeps
<1>5. AllKeep(DoUnbindRequest(t))
  BY <1>1, NewPduType, RequestKeeps, DoWriteKeeps DEF DoUnbindRequest
<1>6. QED
  BY <1>4, <1>5

LEMMA TransmitKeeps ==
    ASSUME tx \in TxRecord, NEW t \in TxRecord, Transmit(t), AllKeep(t)
    PROVE  AllKeep(tx')
<1>1. CASE tx' = t
  BY <1>1
<1>2. CASE tx' = [t EXCEPT !.fly = <<>>]
  <2>1. tx'.q = t.q /\ tx'.last = t.last /\ tx'.fly = <<>>
    BY <1>2 DEF TxRecord
  <2>2. TxPdus(tx') \subseteq TxPdus(t)
    BY <2>1 DEF TxPdus, Elems
  <2>3. QED
    BY <2>2 DEF AllKeep
<1>3. QED
  BY <1>1, <1>2 DEF Transmit

LEMMA CloseSessionKeeps ==
    ASSUME TypeOK, HeldKeeps, NEW b, CloseSession(b)
    PROVE  AllKeep(tx')
<1> DEFINE t == IF currentState \in BoundStates THEN DoUnbindRequest(tx) ELSE tx
<1>1. tx \in TxRecord /\ AllKeep(tx) /\ "unbind" \in Requests
  BY HeldIs DEF TypeOK, HeldKeeps, AllKeep, Requests
<1>2. Transmit(t)
  BY DEF CloseSession
<1>3. t \in TxRecord /\ AllKeep(t)
  BY <1>1, DoUnbindRequestType, NewRequestKeeps
<1> HIDE DEF t
<1>4. QED
  BY <1>1, <1>2, <1>3, TransmitKeeps

\* A step that writes with care, and otherwise moves or forgets PDUs.
LEMMA KeepStep ==
    ASSUME HeldKeeps, AllKeep(tx'),
           \A p \in OtherHeld' : p \in Held \/ p \in TxPdus(tx') \/ KeepsNumber(p)
    PROVE  HeldKeeps'
<1>1. Held' = TxPdus(tx') \union OtherHeld'
  BY DEF Held, TxPdus, OtherHeld, Elems
<1>2. \A p \in Held' : KeepsNumber(p)
  BY <1>1 DEF HeldKeeps, AllKeep
<1>3. QED
  BY <1>2 DEF HeldKeeps, KeepsNumber, IsResponse

LEMMA InitKeeps == Init => HeldKeeps
<1> SUFFICES ASSUME Init PROVE HeldKeeps
  OBVIOUS
<1>1. \A p \in Held : p = NoPdu \/ p.cmd = "submit"
  BY DEF Init, Held, Items, NoItems, Levels, SESSION, RESPONSE, MESSAGE, NewPdu,
     IdleThread
<1>2. \A p \in Held : ~IsResponse(p)
  BY <1>1, NoPduType DEF IsResponse, Responses, ResponseOf
<1>3. QED
  BY <1>2 DEF HeldKeeps, KeepsNumber

\* The network, the MC and the timers write nothing of the session's.
LEMMA EnvironmentKeeps ==
    ASSUME TypeOK, HeldKeeps, Network \/ MessageCentre \/ TimerExpires
    PROVE  HeldKeeps'
<1> USE DEF connVars, flagVars, mcVars, apiVars
<1>1. tx \in TxRecord /\ TxPdus(tx) \subseteq Held /\ OtherHeld \subseteq Held
  BY HeldIs DEF TypeOK
<1>2. CASE WriteDone \/ WriteFails
  <2>1. tx' = [tx EXCEPT !.fly = Tail(tx.fly)] /\ tx.fly # <<>>
    BY <1>2 DEF WriteDone, WriteFails
  <2>2. tx'.q = tx.q /\ tx'.last = tx.last /\ tx'.fly = Tail(tx.fly)
    BY <1>1, <2>1 DEF TxRecord
  <2>3. /\ Head(tx.fly) \in TxPdus(tx) /\ Elems(tx'.fly) \subseteq Elems(tx.fly)
    BY <1>1, <2>1, <2>2, ElemsOf, TxFields, TxPdusOf
  <2>4. TxPdus(tx') \subseteq Held
    BY <1>1, <2>2, <2>3 DEF TxPdus
  <2>5. /\ mcQ' \subseteq mcQ \union {Head(tx.fly)}
        /\ UNCHANGED <<w4rQ, ageing, thread>>
    BY <1>2 DEF WriteDone, WriteFails
  <2>6. \A p \in OtherHeld' : p \in Held
    BY <1>1, <2>3, <2>5 DEF OtherHeld
  <2>7. AllKeep(tx')
    BY <2>4 DEF AllKeep, HeldKeeps
  <2>8. QED
    BY <2>6, <2>7, KeepStep
<1>3. CASE ~(WriteDone \/ WriteFails)
  <2>1. UNCHANGED <<tx, w4rQ, ageing, thread>> /\ mcQ' \subseteq mcQ
    <3>1. CASE Network
      BY <1>3, <3>1 DEF Network, ConnectSucceeds, ConnectRefused, ReadDone, ReadFails
    <3>2. CASE MessageCentre
      BY <3>2 DEF MessageCentre, MCAnswers, MCAsks, MCDrops
    <3>3. CASE TimerExpires
      BY <3>3 DEF TimerExpires
    <3>4. QED
      BY <3>1, <3>2, <3>3
  <2>2. \A p \in OtherHeld' : p \in Held
    BY <1>1, <2>1 DEF OtherHeld
  <2>3. AllKeep(tx')
    BY <1>1, <2>1 DEF AllKeep, HeldKeeps
  <2>4. QED
    BY <2>2, <2>3, KeepStep
<1>4. QED
  BY <1>2, <1>3

\* The handlers of the io thread, except for those of PDUs.
LEMMA HandlersKeep ==
    ASSUME TypeOK, HeldKeeps,
           \/ CloseConnection \/ HandleConnectOk \/ HandleConnectError
           \/ HandleReadHeaderOk \/ HandleReadError \/ HandleWriteOk
           \/ HandleWriteError \/ DoEnquireLink \/ DoEnquireLinkFailure
           \/ AgeCleanupBegins \/ AgeCleanupResends \/ AgeCleanupEnds \/ RunReturns
    PROVE  HeldKeeps'
<1> USE DEF connVars, flagVars, mcVars, apiVars
<1>1. /\ tx \in TxRecord /\ tx.q \in Queues /\ tx.mVal \in Nat
      /\ tx.last.pdu \in Pdu /\ tx.last.level \in Levels
  BY TxFields DEF TypeOK
<1>2. /\ TxPdus(tx) \subseteq Held /\ OtherHeld \subseteq Held
      /\ tx.last.pdu \in Held /\ AllKeep(tx)
  BY <1>1, TxPdusOf, HeldIs DEF AllKeep, HeldKeeps
<1>3. ASSUME AllKeep(tx'), mcQ' \subseteq mcQ, thread' = thread,
             w4rQ' \subseteq w4rQ \union {tx.last.pdu},
             ageing'.todo \subseteq ageing.todo \union w4rQ
      PROVE  HeldKeeps'
  <2>1. \A p \in OtherHeld' : p \in Held
    BY <1>2, <1>3 DEF OtherHeld
  <2>2. QED
    BY <1>3, <2>1, KeepStep
<1>4. CASE CloseConnection
  <2>1. tx' = [tx EXCEPT !.q = ClearSessionQueues(tx.q), !.fly = <<>>]
    BY <1>4 DEF CloseConnection
  <2>2. /\ tx'.last = tx.last /\ tx'.q = ClearSessionQueues(tx.q)
        /\ tx'.fly = <<>>
    BY <1>1, <2>1 DEF TxRecord
  <2>3. TxPdus(tx') \subseteq TxPdus(tx)
    BY <1>1, <2>2, ItemsOf DEF TxPdus, Elems
  <2>4. AllKeep(tx')
    BY <1>2, <2>3 DEF AllKeep
  <2>5. QED
    BY <1>3, <1>4, <2>4 DEF CloseConnection, ConnectionGone
<1>5. CASE HandleConnectOk
  <2>1. Transmit(DoBindRequest(tx)) /\ UNCHANGED <<w4rQ, ageing, mcQ, thread>>
    BY <1>5 DEF HandleConnectOk
  <2>2. DoBindRequest(tx) \in TxRecord /\ AllKeep(DoBindRequest(tx))
    BY <1>1, <1>2, DoBindRequestType, NewRequestKeeps DEF DoBindRequest, Requests
  <2>3. QED
    BY <1>1, <1>3, <2>1, <2>2, TransmitKeeps
<1>6. CASE HandleConnectError
  <2>1. /\ tx' = tx \/ tx' = [tx EXCEPT !.fly = <<>>]
        /\ mcQ' = mcQ \/ mcQ' = {}
        /\ UNCHANGED <<w4rQ, ageing, thread>>
    BY <1>6 DEF HandleConnectError, ConnectionGone
  <2>2. /\ tx'.last = tx.last /\ tx'.q = tx.q
        /\ tx'.fly = tx.fly \/ tx'.fly = <<>>
    BY <1>1, <2>1 DEF TxRecord
  <2>3. TxPdus(tx') \subseteq TxPdus(tx)
    BY <2>2 DEF TxPdus, Elems
  <2>4. AllKeep(tx')
    BY <1>2, <2>3 DEF AllKeep
  <2>5. QED
    BY <1>3, <2>1, <2>4
<1>7. CASE HandleReadHeaderOk \/ AgeCleanupBegins \/ AgeCleanupEnds \/ RunReturns
  <2>1. /\ tx' = tx /\ UNCHANGED <<w4rQ, mcQ, thread>>
        /\ ageing'.todo \subseteq ageing.todo \union w4rQ
    BY <1>7 DEF HandleReadHeaderOk, AgeCleanupBegins, AgeCleanupEnds, RunReturns
  <2>2. QED
    BY <1>2, <1>3, <2>1
<1>8. CASE HandleReadError \/ DoEnquireLinkFailure
  <2>1. /\ tx' = tx \/ CloseSession(TRUE) \/ CloseSession(FALSE)
        /\ UNCHANGED <<w4rQ, ageing, mcQ, thread>>
    BY <1>8 DEF HandleReadError, DoEnquireLinkFailure
  <2>2. AllKeep(tx')
    BY <1>2, <2>1, CloseSessionKeeps
  <2>3. QED
    BY <1>3, <2>1, <2>2
<1>9. CASE HandleWriteOk
  <2> DEFINE t == IF CanSend(w4rQ') /\ ~IsEmpty(tx.q) THEN WritePdu(tx) ELSE tx
  <2>1. /\ Transmit(t) /\ w4rQ' \subseteq w4rQ \union {tx.last.pdu}
        /\ UNCHANGED <<ageing, mcQ, thread>>
    BY <1>9 DEF HandleWriteOk, W4rQPut
  <2>2. t \in TxRecord /\ AllKeep(t)
    BY <1>1, <1>2, WritePduType, WriteKeeps
  <2> HIDE DEF t
  <2>3. QED
    BY <1>1, <1>3, <2>1, <2>2, TransmitKeeps
<1>10. CASE HandleWriteError
  <2>1. /\ tx' = [tx EXCEPT !.q = PutBack(tx.q, tx.last.pdu, tx.last.level)]
        /\ UNCHANGED <<w4rQ, ageing, mcQ, thread>>
    BY <1>10 DEF HandleWriteError
  <2>2. /\ tx'.last = tx.last /\ tx'.fly = tx.fly
        /\ tx'.q = PutBack(tx.q, tx.last.pdu, tx.last.level)
    BY <1>1, <2>1 DEF TxRecord
  <2>3. TxPdus(tx') \subseteq TxPdus(tx)
    BY <1>1, <2>2, ItemsOf DEF TxPdus
  <2>4. AllKeep(tx')
    BY <1>2, <2>3 DEF AllKeep
  <2>5. QED
    BY <1>3, <2>1, <2>4
<1>11. CASE DoEnquireLink
  <2> DEFINE t == DoWrite(NextSeq(tx), NewPdu("enquire", tx.mVal, 0), SESSION)
  <2>1. Transmit(t) /\ UNCHANGED <<w4rQ, ageing, mcQ, thread>>
    BY <1>11 DEF DoEnquireLink
  <2>2. t \in TxRecord
    BY <1>1, TxFields, NewPduType, CommandsAre, DoWriteType, LevelsAre
  <2>3. AllKeep(t)
    BY <1>1, <1>2, NewRequestKeeps DEF Requests
  <2> HIDE DEF t
  <2>4. QED
    BY <1>1, <1>3, <2>1, <2>2, <2>3, TransmitKeeps
<1>12. CASE AgeCleanupResends
  <2>1. PICK p \in ageing.todo :
          /\ Transmit(DoWrite(tx, p, MESSAGE))
          /\ w4rQ' \subseteq w4rQ
          /\ ageing' = [ageing EXCEPT !.todo = {r \in @ : r.seq > p.seq}]
          /\ UNCHANGED <<mcQ, thread>>
    BY <1>12 DEF AgeCleanupResends
  <2>2. p \in Pdu /\ KeepsNumber(p)
    BY <1>2 DEF TypeOK, OtherHeld, HeldKeeps
  <2>3. DoWrite(tx, p, MESSAGE) \in TxRecord /\ AllKeep(DoWrite(tx, p, MESSAGE))
    BY <1>1, <1>2, <2>2, DoWriteType, DoWriteKeeps, LevelsAre
  <2>4. AllKeep(tx')
    BY <1>1, <2>1, <2>3, TransmitKeeps
  <2>5. ageing'.todo \subseteq ageing.todo
    BY <2>1 DEF TypeOK
  <2>6. QED
    BY <1>3, <2>1, <2>4, <2>5
<1>13. QED
  BY <1>4, <1>5, <1>6, <1>7, <1>8, <1>9, <1>10, <1>11, <1>12

\* handle_read_body: a response takes the number of the PDU that was read.
LEMMA ProcessKeeps ==
    ASSUME TypeOK, HeldKeeps,
           \/ ProcBindResp \/ ProcEnquireLink \/ ProcDeliverSm \/ ProcGarbled
           \/ ProcUnbind \/ ProcUnbindResp \/ ProcOutbind \/ ProcNothing
    PROVE  HeldKeeps'
<1>1. tx \in TxRecord /\ AllKeep(tx) /\ OtherHeld \subseteq Held
  BY HeldIs DEF TypeOK, HeldKeeps, AllKeep
<1>2. ready # <<>>
  BY DEF ProcBindResp, ProcEnquireLink, ProcDeliverSm, ProcGarbled, ProcUnbind,
         ProcUnbindResp, ProcOutbind, ProcNothing, Arrived, Runs
<1>3. ASSUME NEW t \in TxRecord, NEW posts, ReadNext(t, posts), AllKeep(t)
      PROVE  HeldKeeps'
  <2>1. Transmit(t) /\ w4rQ' \subseteq w4rQ /\ UNCHANGED <<ageing, mcQ, thread>>
    BY <1>3 DEF ReadNext, W4rQPop, mcVars, apiVars
  <2>2. AllKeep(tx')
    BY <1>1, <1>3, <2>1, TransmitKeeps
  <2>3. \A p \in OtherHeld' : p \in Held
    BY <1>1, <2>1 DEF OtherHeld
  <2>4. QED
    BY <2>2, <2>3, KeepStep
<1>4. ASSUME NEW cmd \in Responses
      PROVE  Respond(cmd) \in TxRecord /\ AllKeep(Respond(cmd))
  <2> DEFINE p == Answer(cmd, Head(ready).pdu)
  <2>1. p \in Pdu
    BY <1>2, ReadyType, PduFields, NewPduType DEF Answer, Commands
  <2>2. KeepsNumber(p)
    BY DEF KeepsNumber, Answer, NewPdu
  <2> HIDE DEF p
  <2>3. DoWrite(tx, p, RESPONSE) \in TxRecord /\ AllKeep(DoWrite(tx, p, RESPONSE))
    BY <1>1, <2>1, <2>2, DoWriteType, DoWriteKeeps, LevelsAre
  <2>4. QED
    BY <2>3 DEF Respond, p
<1>5. {"enquire_resp", "deliver_resp", "unbind_resp"} \subseteq Responses
  BY DEF Responses, ResponseOf
<1>6. CASE ProcBindResp \/ ProcUnbindResp \/ ProcNothing
  <2>1. ReadNext(tx, <<>>) \/ ReadNext(tx, <<CloseEntry>>)
    BY <1>6 DEF ProcBindResp, ProcUnbindResp, ProcNothing
  <2>2. QED
    BY <1>1, <1>3, <2>1
<1>7. CASE ProcEnquireLink \/ ProcDeliverSm \/ ProcUnbind
  <2>1. \E cmd \in Responses :
          ReadNext(Respond(cmd), <<>>) \/ ReadNext(Respond(cmd), <<CloseEntry>>)
    BY <1>5, <1>7 DEF ProcEnquireLink, ProcDeliverSm, ProcUnbind
  <2>2. QED
    BY <1>3, <1>4, <2>1
<1>8. CASE ProcOutbind
  <2>1. ReadNext(DoBindRequest(tx), <<>>)
    BY <1>8 DEF ProcOutbind
  <2>2. DoBindRequest(tx) \in TxRecord /\ AllKeep(DoBindRequest(tx))
    BY <1>1, DoBindRequestType, NewRequestKeeps DEF DoBindRequest, Requests
  <2>3. QED
    BY <1>3, <2>1, <2>2
<1>9. CASE ProcGarbled
  <2>1. "bind" \in Requests
    BY DEF Requests
  <2>2. DoUnbindRequest(tx) \in TxRecord /\ AllKeep(DoUnbindRequest(tx))
    BY <1>1, <2>1, DoUnbindRequestType, NewRequestKeeps
  <2>3. ReadNext(DoUnbindRequest(tx), <<CloseEntry>>) \/ ReadNext(tx, <<CloseEntry>>)
    BY <1>9 DEF ProcGarbled
  <2>4. QED
    BY <1>1, <1>3, <2>2, <2>3
<1>10. QED
  BY <1>6, <1>7, <1>8, <1>9

\* The other threads make requests only.
LEMMA OtherThreadsKeep ==
    ASSUME TypeOK, HeldKeeps, OtherThreads
    PROVE  HeldKeeps'
<1> USE DEF connVars, flagVars, mcVars
<1>1. /\ tx \in TxRecord /\ tx.q \in Queues /\ tx.fly \in Seq(Pdu)
      /\ TxPdus(tx) \subseteq Held /\ OtherHeld \subseteq Held /\ AllKeep(tx)
  BY HeldIs, TxFields DEF TypeOK, AllKeep, HeldKeeps
<1>2. /\ \A t \in ThreadIds : /\ thread[t].pdu \in Pdu /\ thread[t].pdu \in Held
                              /\ KeepsNumber(thread[t].pdu)
      /\ {"sender", "main"} = ThreadIds
      /\ thread \in [ThreadIds -> [pc : ThreadPcs, pdu : Pdu, busy : BOOLEAN]]
  BY <1>1 DEF TypeOK, OtherHeld, ThreadIds, HeldKeeps
<1>3. ASSUME AllKeep(tx'), UNCHANGED <<w4rQ, ageing, mcQ>>,
             \A t \in ThreadIds : KeepsNumber(thread'[t].pdu)
      PROVE  HeldKeeps'
  <2>1. \A p \in OtherHeld' : p \in Held \/ KeepsNumber(p)
    BY <1>1, <1>3 DEF OtherHeld
  <2>2. QED
    BY <1>3, <2>1, KeepStep
<1>4. ASSUME NEW t \in ThreadIds, NEW pc, Goto(t, pc)
      PROVE  \A s \in ThreadIds : thread'[s].pdu = thread[s].pdu
  BY <1>2, <1>4 DEF Goto
<1>5. ASSUME NEW t \in ThreadIds, NEW p, KeepsNumber(p), NEW pc,
             thread' = [thread EXCEPT ![t] = [@ EXCEPT !.pc = pc, !.pdu = p]]
      PROVE  \A s \in ThreadIds : KeepsNumber(thread'[s].pdu)
  <2>1. \A s \in ThreadIds : thread'[s].pdu = IF s = t THEN p ELSE thread[s].pdu
    BY <1>2, <1>5
  <2>2. QED
    BY <1>2, <1>5, <2>1
<1>6. CASE TakeMessage \/ StopClosesSession
  <2>1. UNCHANGED <<tx, w4rQ, ageing, mcQ>>
    BY <1>6 DEF TakeMessage, StopClosesSession
  <2>2. /\ KeepsNumber(NewPdu("submit", SeqMin, nextMsg))
        /\ KeepsNumber(NewPdu("unbind", SeqMin, 0))
    BY RequestKeeps DEF Requests
  <2>3. \A t \in ThreadIds : KeepsNumber(thread'[t].pdu)
    <3>1. CASE TakeMessage
      BY <1>2, <1>5, <2>2, <3>1 DEF TakeMessage
    <3>2. CASE StopClosesSession
      <4>1. CASE Goto("main", "post")
        BY <1>2, <1>4, <4>1
      <4>2. QED
        BY <1>2, <1>5, <2>2, <3>2, <4>1 DEF StopClosesSession
    <3>3. QED
      BY <1>6, <3>1, <3>2
  <2>4. QED
    BY <1>1, <1>3, <2>1, <2>3
<1>7. CASE \/ SendPdu \/ Stop \/ StopClearsReconnect \/ StopPosts
           \/ \E t \in ThreadIds : DoWriteLocks(t) \/ DoWriteCrashes(t)
  <2>1. UNCHANGED <<tx, w4rQ, ageing, mcQ>>
    BY <1>7 DEF SendPdu, Stop, StopClearsReconnect, StopPosts, DoWriteLocks,
                DoWriteCrashes
  <2>2. \A t \in ThreadIds : thread'[t].pdu = thread[t].pdu
    <3>1. CASE SendPdu \/ Stop \/ StopClearsReconnect \/ StopPosts
      BY <1>2, <1>4, <3>1 DEF SendPdu, Stop, StopClearsReconnect, StopPosts
    <3>2. CASE \E t \in ThreadIds : DoWriteLocks(t)
      BY <1>2, <3>2 DEF DoWriteLocks
    <3>3. CASE \E t \in ThreadIds : DoWriteCrashes(t)
      BY <1>2, <3>3 DEF DoWriteCrashes
    <3>4. QED
      BY <1>7, <3>1, <3>2, <3>3
  <2>3. QED
    BY <1>1, <1>2, <1>3, <2>1, <2>2
<1>8. ASSUME NEW t \in ThreadIds, DoWritePushes(t)
      PROVE  HeldKeeps'
  <2>1. /\ tx' = [tx EXCEPT !.q = Push(tx.q, thread[t].pdu, LevelOf(t))]
        /\ UNCHANGED <<w4rQ, ageing, mcQ>>
    BY <1>8 DEF DoWritePushes
  <2>2. /\ tx'.q = Push(tx.q, thread[t].pdu, LevelOf(t)) /\ tx'.last = tx.last
        /\ tx'.fly = tx.fly
    BY <1>1, <2>1 DEF TxRecord
  <2>3. LevelOf(t) \in Levels
    BY LevelsAre DEF LevelOf
  <2>4. TxPdus(tx') \subseteq TxPdus(tx) \union {thread[t].pdu}
    BY <1>1, <1>2, <2>2, <2>3, ItemsOf DEF TxPdus
  <2>5. AllKeep(tx')
    BY <1>1, <1>2, <2>4 DEF AllKeep
  <2>6. \A s \in ThreadIds : thread'[s].pdu = thread[s].pdu
    BY <1>4, <1>8 DEF DoWritePushes
  <2>7. QED
    BY <1>2, <1>3, <2>1, <2>5, <2>6
<1>9. ASSUME NEW t \in ThreadIds, DoWritePops(t)
      PROVE  HeldKeeps'
  <2>1. /\ tx' = PopPdu(tx) /\ ~IsEmpty(tx.q)
        /\ thread' = [thread EXCEPT ![t].pc = "write", ![t].pdu = tx'.last.pdu]
        /\ UNCHANGED <<w4rQ, ageing, mcQ>>
    BY <1>9 DEF DoWritePops
  <2>2. AllKeep(tx') /\ tx'.last.pdu \in TxPdus(tx')
    BY <1>1, <2>1, WriteKeeps DEF TxPdus
  <2>3. \A s \in ThreadIds :
          thread'[s].pdu = IF s = t THEN tx'.last.pdu ELSE thread[s].pdu
    BY <1>2, <2>1
  <2>4. \A s \in ThreadIds : KeepsNumber(thread'[s].pdu)
    BY <1>2, <2>2, <2>3 DEF AllKeep
  <2>5. QED
    BY <1>3, <2>1, <2>2, <2>4
<1>10. ASSUME NEW t \in ThreadIds, DoWriteWrites(t)
       PROVE  HeldKeeps'
  <2> DEFINE u == [tx EXCEPT !.fly = Append(tx.fly, thread[t].pdu)]
  <2>1. Transmit(u) /\ Goto(t, Returns(t)) /\ UNCHANGED <<w4rQ, ageing, mcQ>>
    BY <1>10 DEF DoWriteWrites
  <2>2. u \in TxRecord
    <3>1. Append(tx.fly, thread[t].pdu) \in Seq(Pdu)
      BY <1>1, <1>2, AppendProperties
    <3>2. QED
      BY <1>1, <3>1, TxFields DEF TxRecord
  <2>3. /\ u.q = tx.q /\ u.last = tx.last
        /\ u.fly = Append(tx.fly, thread[t].pdu)
    BY <1>1 DEF TxRecord
  <2> HIDE DEF u
  <2>4. TxPdus(u) \subseteq TxPdus(tx) \union {thread[t].pdu}
    BY <1>1, <1>2, <2>3, ElemsOf DEF TxPdus
  <2>5. AllKeep(u)
    BY <1>1, <1>2, <2>4 DEF AllKeep
  <2>6. AllKeep(tx')
    BY <1>1, <2>1, <2>2, <2>5, TransmitKeeps
  <2>7. \A s \in ThreadIds : thread'[s].pdu = thread[s].pdu
    BY <1>4, <2>1
  <2>8. QED
    BY <1>2, <1>3, <2>1, <2>6, <2>7
<1>11. QED
  BY <1>6, <1>7, <1>8, <1>9, <1>10 DEF OtherThreads, OtherThread

LEMMA NextKeeps == TypeOK /\ HeldKeeps /\ [Next]_vars => HeldKeeps'
<1> SUFFICES ASSUME TypeOK, HeldKeeps, [Next]_vars PROVE HeldKeeps'
  OBVIOUS
<1>1. CASE Next
  BY <1>1, EnvironmentKeeps, HandlersKeep, ProcessKeeps, OtherThreadsKeep
  DEF Next, IoThread
<1>2. CASE UNCHANGED vars
  BY <1>2 DEF vars, mcVars, apiVars, HeldKeeps, Held, KeepsNumber, IsResponse
<1>3. QED
  BY <1>1, <1>2

\* A response leaves the session under the number of the request it answers,
\* however often its write fails and it is put back, for every number of the MC
\* above SeqMin.  Below that it does not: write_pdu() takes it for unnumbered.
THEOREM SessionResponsesKeepNumber == Spec => []ResponsesKeepNumber
<1>1. Init => TypeOK /\ HeldKeeps
  BY InitType, InitKeeps
<1>2. TypeOK /\ HeldKeeps /\ [Next]_vars => (TypeOK /\ HeldKeeps)'
  BY NextType, NextKeeps
<1>3. HeldKeeps => ResponsesKeepNumber
  BY DEF HeldKeeps, KeepsNumber, ResponsesKeepNumber, Held
<1>4. QED
  BY <1>1, <1>2, <1>3, PTL DEF Spec

=============================================================================
