------------------------- MODULE SessionAlive_proof -------------------------
(***************************************************************************)
(* That the threads of the session do not come to a halt.                  *)
(*                                                                         *)
(* The sendingProcessor thread never pops an empty queue, although the io  *)
(* thread clears the queue without taking writeMutex (SenderFindsMessage). *)
(* The io thread is not left without work as long as the session is not    *)
(* stopped and the MC answers enquire_link in time (NeverAbandoned).  And  *)
(* nothing stays in the queue with nobody to write it as long as no write  *)
(* fails (QueueMeansBusy).                                                 *)
(***************************************************************************)
EXTENDS SessionAnswers_proof

-----------------------------------------------------------------------------
(* The sender finds its message.                                           *)

\* Between the push and the write of do_write(), which writeMutex protects.
Inside(t) == thread[t].pc \in {"push", "pop", "write"}
OneInside == \A s, t \in ThreadIds : Inside(s) /\ Inside(t) => s = t

SenderInv == OneInside /\ SenderFindsMessage

\* A step of the io thread takes messages only when it can lock writeMutex.
MessagesStay ==
    /\ thread' = thread
    /\ tx.q[MESSAGE] # <<>> /\ ~MutexFree => tx'.q[MESSAGE] # <<>>

\* Such a step leaves the sender what it looks for.
LEMMA StaysFound == TypeOK /\ SenderInv /\ MessagesStay => SenderInv'
<1> SUFFICES ASSUME TypeOK, SenderInv, MessagesStay PROVE SenderInv'
  OBVIOUS
<1>1. thread' = thread /\ "sender" \in ThreadIds
  BY DEF MessagesStay, ThreadIds
<1>2. SenderFindsMessage'
  BY <1>1 DEF SenderInv, SenderFindsMessage, MessagesStay, MutexFree
<1>3. OneInside'
  BY <1>1 DEF SenderInv, OneInside, Inside
<1>4. QED
  BY <1>2, <1>3 DEF SenderInv

\* async_write leaves the queue alone.
LEMMA TransmitLeaves ==
    ASSUME NEW t \in TxRecord, Transmit(t)
    PROVE  tx'.q = t.q
  BY DEF Transmit, TxRecord

\* close_connection() clears the other levels, handle_write puts back.
LEMMA MessagesLeft ==
    ASSUME NEW q \in Queues
    PROVE  /\ ClearSessionQueues(q)[MESSAGE] = q[MESSAGE]
           /\ \A p \in Pdu, l \in Levels :
                q[MESSAGE] # <<>> => PutBack(q, p, l)[MESSAGE] # <<>>
           /\ \A p \in Pdu : Push(q, p, MESSAGE)[MESSAGE] # <<>>
           /\ IsEmpty(q) => q[MESSAGE] = <<>>
<1>1. MESSAGE \in Levels /\ q[MESSAGE] \in Seq(Pdu)
  BY LevelsAre DEF Queues
<1>2. ClearSessionQueues(q)[MESSAGE] = q[MESSAGE]
  BY <1>1 DEF ClearSessionQueues, Queues, SESSION, RESPONSE, MESSAGE
<1>3. ASSUME NEW p \in Pdu, NEW l \in Levels, q[MESSAGE] # <<>>
      PROVE  PutBack(q, p, l)[MESSAGE] # <<>>
  <2> DEFINE s == q[MESSAGE]
  <2>1. <<p>> \in Seq(Pdu) /\ Len(<<p>>) = 1 /\ s \in Seq(Pdu)
    BY <1>1
  <2> HIDE DEF s
  <2>2. Len(<<p>> \o s) = 1 + Len(s) /\ Len(s) \in Nat
    BY <2>1, ConcatProperties, LenProperties
  <2>3. <<p>> \o s # <<>>
    BY <2>2
  <2>4. PutBack(q, p, l)[MESSAGE] = IF l = MESSAGE THEN <<p>> \o s ELSE s
    BY <1>1 DEF PutBack, Queues, s
  <2>5. QED
    BY <1>3, <2>3, <2>4 DEF s
<1>4. ASSUME NEW p \in Pdu
      PROVE  Push(q, p, MESSAGE)[MESSAGE] # <<>>
  <2>1. Push(q, p, MESSAGE)[MESSAGE] = Append(q[MESSAGE], p)
    BY <1>1 DEF Push, Queues
  <2>2. QED
    BY <1>1, <2>1, AppendProperties
<1>5. IsEmpty(q) => q[MESSAGE] = <<>>
  BY <1>1 DEF IsEmpty
<1>6. QED
  BY <1>2, <1>3, <1>4, <1>5

\* close_session() writes an unbind under writeMutex or nothing.
LEMMA CloseSessionStays ==
    ASSUME TypeOK, NEW b, CloseSession(b), ~MutexFree
    PROVE  tx'.q = tx.q
<1>1. tx \in TxRecord
  BY DEF TypeOK
<1>2. Transmit(tx)
  BY DEF CloseSession
<1>3. QED
  BY <1>1, <1>2, TransmitLeaves

\* The environment and the io thread.
LEMMA IoMessagesStay ==
    ASSUME TypeOK, Network \/ MessageCentre \/ TimerExpires \/ IoThread
    PROVE  MessagesStay
<1> USE DEF connVars, flagVars, mcVars, apiVars
<1>1. /\ tx \in TxRecord /\ tx.q \in Queues /\ tx.last.pdu \in Pdu
      /\ tx.last.level \in Levels
  BY TxFields DEF TypeOK
<1>2. CASE Network \/ MessageCentre \/ TimerExpires
  <2>1. thread' = thread /\ (tx' = tx \/ tx' = [tx EXCEPT !.fly = Tail(tx.fly)])
    BY <1>2 DEF Network, ConnectSucceeds, ConnectRefused, WriteDone, WriteFails,
       ReadDone, ReadFails, MessageCentre, MCAnswers, MCAsks, MCDrops, TimerExpires
  <2>2. tx'.q = tx.q
    BY <1>1, <2>1 DEF TxRecord
  <2>3. QED
    BY <2>1, <2>2 DEF MessagesStay
<1>3. CASE HandleConnectOk \/ HandleWriteOk \/ ProcEnquireLink \/ ProcDeliverSm
           \/ ProcUnbind \/ ProcOutbind \/ DoEnquireLink
           \/ AgeCleanupResends
  BY <1>3 DEF HandleConnectOk, HandleWriteOk, ProcEnquireLink, ProcDeliverSm,
     ProcUnbind, ProcOutbind, DoEnquireLink, AgeCleanupResends,
     ReadNext, MessagesStay
<1>9. CASE ProcGarbled
  <2>1. thread' = thread
    BY <1>9 DEF ProcGarbled, ReadNext
  <2>2. MutexFree \/ Transmit(tx)
    BY <1>9 DEF ProcGarbled, ReadNext
  <2>3. QED
    BY <1>1, <2>1, <2>2, TransmitLeaves DEF MessagesStay
<1>4. CASE ProcBindResp \/ ProcUnbindResp \/ ProcNothing
  <2>1. thread' = thread /\ Transmit(tx)
    BY <1>4 DEF ProcBindResp, ProcUnbindResp, ProcNothing, ReadNext
  <2>2. QED
    BY <1>1, <2>1, TransmitLeaves DEF MessagesStay
<1>5. CASE CloseConnection \/ HandleConnectError \/ HandleWriteError
  <2>1. thread' = thread
    BY <1>5 DEF CloseConnection, HandleConnectError, HandleWriteError
  <2>2. \/ tx'.q = tx.q
        \/ tx'.q = ClearSessionQueues(tx.q)
        \/ tx'.q = PutBack(tx.q, tx.last.pdu, tx.last.level)
    BY <1>1, <1>5 DEF CloseConnection, HandleConnectError, HandleWriteError, TxRecord
  <2>3. QED
    BY <1>1, <2>1, <2>2, MessagesLeft DEF MessagesStay
<1>6. CASE HandleReadError \/ DoEnquireLinkFailure
  <2>1. /\ thread' = thread
        /\ tx' = tx \/ CloseSession(TRUE) \/ CloseSession(FALSE)
    BY <1>6 DEF HandleReadError, DoEnquireLinkFailure
  <2>2. QED
    BY <2>1, CloseSessionStays DEF MessagesStay
<1>7. CASE HandleReadHeaderOk \/ AgeCleanupBegins \/ AgeCleanupEnds \/ RunReturns
  BY <1>7 DEF HandleReadHeaderOk, AgeCleanupBegins, AgeCleanupEnds, RunReturns,
     MessagesStay
<1>8. QED
  BY <1>2, <1>3, <1>4, <1>5, <1>6, <1>7, <1>9 DEF IoThread

\* The sender itself pushes before it pops, and main does not pop meanwhile.
LEMMA OtherThreadsFind == TypeOK /\ SenderInv /\ OtherThreads => SenderInv'
<1> SUFFICES ASSUME TypeOK, SenderInv, OtherThreads PROVE SenderInv'
  OBVIOUS
<1>1. /\ tx \in TxRecord /\ tx.q \in Queues
      /\ "sender" \in ThreadIds /\ "main" \in ThreadIds
      /\ ThreadIds = {"sender", "main"}
      /\ thread \in [ThreadIds -> [pc : ThreadPcs, pdu : Pdu, busy : BOOLEAN]]
      /\ \A t \in ThreadIds : thread[t].pdu \in Pdu
  BY TxFields DEF TypeOK, ThreadIds
<1>2. ASSUME NEW t \in ThreadIds,
             \A s \in ThreadIds \ {t} : thread'[s].pc = thread[s].pc,
             thread'[t].pc \in {"push", "pop", "write"} => Inside(t) \/ MutexFree,
             thread["sender"].pc = "pop" /\ t # "sender" =>
               tx'.q[MESSAGE] # <<>>,
             thread'[t].pc = "pop" /\ t = "sender" => tx'.q[MESSAGE] # <<>>
      PROVE  SenderInv'
  <2>1. OneInside'
    BY <1>2 DEF SenderInv, OneInside, Inside, MutexFree
  <2>2. SenderFindsMessage'
    BY <1>1, <1>2 DEF SenderFindsMessage
  <2>3. QED
    BY <2>1, <2>2 DEF SenderInv
<1>3. ASSUME NEW t \in ThreadIds, NEW pc, Goto(t, pc)
      PROVE  /\ thread'[t].pc = pc
             /\ \A s \in ThreadIds \ {t} : thread'[s].pc = thread[s].pc
  BY <1>1, <1>3 DEF Goto
<1>4. CASE TakeMessage \/ SendPdu
  <2>1. /\ \A s \in ThreadIds \ {"sender"} : thread'[s].pc = thread[s].pc
        /\ thread'["sender"].pc \in {"send", "lock", "idle"}
    <3>1. CASE TakeMessage
      BY <1>1, <3>1 DEF TakeMessage
    <3>2. CASE SendPdu
      BY <1>1, <1>3, <3>2 DEF SendPdu
    <3>3. QED
      BY <1>4, <3>1, <3>2
  <2>2. QED
    BY <1>1, <1>2, <2>1
<1>5. CASE Stop \/ StopClearsReconnect \/ StopClosesSession \/ StopPosts
  <2>1. /\ \A s \in ThreadIds \ {"main"} : thread'[s].pc = thread[s].pc
        /\ thread'["main"].pc \in {"close", "look", "lock", "post", "done"}
    <3>1. CASE Stop \/ StopClearsReconnect \/ StopPosts
      BY <1>1, <1>3, <3>1 DEF Stop, StopClearsReconnect, StopPosts
    <3>2. CASE StopClosesSession
      <4>1. \/ Goto("main", "post")
            \/ thread' = [thread EXCEPT !["main"] =
                  [@ EXCEPT !.pc = "lock", !.pdu = NewPdu("unbind", SeqMin, 0)]]
        BY <3>2 DEF StopClosesSession
      <4>2. CASE Goto("main", "post")
        BY <1>1, <1>3, <4>2
      <4>3. CASE thread' = [thread EXCEPT !["main"] =
                   [@ EXCEPT !.pc = "lock", !.pdu = NewPdu("unbind", SeqMin, 0)]]
        BY <1>1, <4>3
      <4>4. QED
        BY <4>1, <4>2, <4>3
    <3>3. QED
      BY <1>5, <3>1, <3>2
  <2>2. tx' = tx
    BY <1>5 DEF Stop, StopClearsReconnect, StopClosesSession, StopPosts
  <2>3. QED
    BY <1>1, <1>2, <2>1, <2>2 DEF SenderInv, SenderFindsMessage
<1>6. ASSUME NEW t \in ThreadIds, DoWriteLocks(t)
      PROVE  SenderInv'
  <2>1. /\ \A s \in ThreadIds \ {t} : thread'[s].pc = thread[s].pc
        /\ thread'[t].pc = "push" /\ MutexFree
    BY <1>1, <1>6 DEF DoWriteLocks
  <2>2. thread["sender"].pc # "pop"
    BY <1>1, <2>1 DEF MutexFree
  <2>3. QED
    BY <1>2, <2>1, <2>2
<1>7. ASSUME NEW t \in ThreadIds, Inside(t), NEW pc \in {"pop", "write", "idle", "post"},
             thread'[t].pc = pc,
             \A s \in ThreadIds \ {t} : thread'[s].pc = thread[s].pc,
             pc = "pop" /\ t = "sender" => tx'.q[MESSAGE] # <<>>
      PROVE  SenderInv'
  <2>1. thread["sender"].pc = "pop" => t = "sender"
    BY <1>1, <1>7 DEF SenderInv, OneInside, Inside
  <2>2. QED
    BY <1>2, <1>7, <2>1
<1>8. ASSUME NEW t \in ThreadIds, DoWritePushes(t)
      PROVE  SenderInv'
  <2>1. PICK pc \in {"pop", "idle", "post"} : Goto(t, pc)
    BY <1>8 DEF DoWritePushes, Returns
  <2>2. t = "sender" => tx'.q[MESSAGE] # <<>>
    <3>1. t = "sender" => tx'.q = Push(tx.q, thread[t].pdu, MESSAGE)
      BY <1>1, <1>8 DEF DoWritePushes, LevelOf, TxRecord
    <3>2. QED
      BY <1>1, <3>1, MessagesLeft
  <2>3. Inside(t)
    BY <1>8 DEF DoWritePushes, Inside
  <2>4. QED
    BY <1>3, <1>7, <2>1, <2>2, <2>3
<1>9. ASSUME NEW t \in ThreadIds, DoWritePops(t)
      PROVE  SenderInv'
  <2>1. /\ thread'[t].pc = "write" /\ Inside(t)
        /\ \A s \in ThreadIds \ {t} : thread'[s].pc = thread[s].pc
    BY <1>1, <1>9 DEF DoWritePops, Inside
  <2>2. QED
    BY <1>7, <2>1
<1>10. ASSUME NEW t \in ThreadIds, DoWriteCrashes(t)
       PROVE  SenderInv'
  <2>1. \A s \in ThreadIds : thread'[s].pc = "dead"
    BY <1>1, <1>10 DEF DoWriteCrashes
  <2>2. QED
    BY <1>1, <2>1 DEF SenderInv, OneInside, Inside, SenderFindsMessage
<1>11. ASSUME NEW t \in ThreadIds, DoWriteWrites(t)
       PROVE  SenderInv'
  <2>1. PICK pc \in {"idle", "post"} : Goto(t, pc)
    BY <1>11 DEF DoWriteWrites, Returns
  <2>2. Inside(t)
    BY <1>11 DEF DoWriteWrites, Inside
  <2>3. QED
    BY <1>3, <1>7, <2>1, <2>2
<1>12. QED
  BY <1>4, <1>5, <1>6, <1>8, <1>9, <1>10, <1>11 DEF OtherThreads, OtherThread

LEMMA InitSender == Init => SenderInv
<1> SUFFICES ASSUME Init PROVE SenderInv
  OBVIOUS
<1>1. \A t \in ThreadIds : thread[t].pc = "idle"
  BY DEF Init, IdleThread
<1>2. QED
  BY <1>1 DEF SenderInv, OneInside, Inside, SenderFindsMessage, ThreadIds

LEMMA NextSender == TypeOK /\ SenderInv /\ [Next]_vars => SenderInv'
<1> SUFFICES ASSUME TypeOK, SenderInv, [Next]_vars PROVE SenderInv'
  OBVIOUS
<1>1. CASE Next
  BY <1>1, IoMessagesStay, StaysFound, OtherThreadsFind DEF Next
<1>2. CASE UNCHANGED vars
  BY <1>2, StaysFound DEF vars, apiVars, MessagesStay
<1>3. QED
  BY <1>1, <1>2

\* The sendingProcessor thread never pops an empty queue in do_write(), whatever
\* the io thread clears, puts back or takes between its push and its pop.
THEOREM SessionSenderFindsMessage == Spec => []SenderFindsMessage
<1>1. Init => TypeOK /\ SenderInv
  BY InitType, InitSender
<1>2. TypeOK /\ SenderInv /\ [Next]_vars => (TypeOK /\ SenderInv)'
  BY NextType, NextSender
<1>3. SenderInv => SenderFindsMessage
  BY DEF SenderInv
<1>4. QED
  BY <1>1, <1>2, <1>3, PTL DEF Spec

-----------------------------------------------------------------------------
(* The io thread keeps something to wait for.                              *)

\* Nothing makes the session give up: the MC answers enquire_link before the
\* response timer expires, and where stop() may be called no unbind of the MC can
\* cross it and clear stopFlag.
Uninterrupted ==
    /\ "response" \notin ExpiringTimers
    /\ MayStop => "unbind" \notin MCSends

\* What will call the io thread back: a read or a connection attempt, their
\* completion, or a close that is followed by another attempt.
Called ==
    \/ reads # <<>> \/ sock = "connecting"
    \/ \E fn \in {"header", "body", "connect"} : fn \in Fns(ready)
    \/ reconnectFlag /\ "close" \in Fns(ready)

AliveInv ==
    /\ ~stopFlag /\ ioRunning /\ thread["main"].pc = "idle"
    /\ "response" \notin Fns(ready)
    /\ Called

\* What a step that runs no handler does to it.
Lasts ==
    /\ UNCHANGED <<stopFlag, ioRunning, reconnectFlag>>
    /\ thread'["main"].pc = thread["main"].pc
    /\ \A e \in Elems(ready) : e \in Elems(ready')
    /\ \A e \in Elems(ready') : e \in Elems(ready) \/ e.fn # "response"
    /\ Called'

\* It keeps what there is.
LEMMA LastsAlive == AliveInv /\ Lasts => AliveInv'
  BY DEF AliveInv, Lasts, Fns

\* Entries are only added: what calls the io thread back still does.
LEMMA AddsCalled ==
    ASSUME Called, \A e \in Elems(ready) : e \in Elems(ready'),
           UNCHANGED <<reads, sock, reconnectFlag>>
    PROVE  Called'
  BY DEF Called, Fns

\* The environment.
LEMMA EnvironmentLasts ==
    ASSUME Uninterrupted, TypeOK, AliveInv, Network \/ MessageCentre \/ TimerExpires
    PROVE  Lasts
<1> USE DEF connVars, flagVars, mcVars, apiVars
<1>1. \A fn, err : Posted(fn, err).fn = fn
  BY DEF Posted
<1>2. UNCHANGED <<stopFlag, ioRunning, reconnectFlag, thread>>
  BY DEF Network, ConnectSucceeds, ConnectRefused, WriteDone, WriteFails, ReadDone,
     ReadFails, MessageCentre, MCAnswers, MCAsks, MCDrops, TimerExpires
<1>3. ASSUME NEW e, Elems(ready') = Elems(ready) \union {e}, e.fn # "response",
             \/ e.fn \in {"header", "body", "connect"} \/ UNCHANGED <<reads, sock>>
      PROVE  Lasts
  <2>1. Called'
    <3>1. CASE e.fn \in {"header", "body", "connect"}
      BY <1>3, <3>1 DEF Called, Fns
    <3>2. CASE UNCHANGED <<reads, sock>>
      BY <1>2, <1>3, <3>2, AddsCalled DEF AliveInv
    <3>3. QED
      BY <1>3, <3>1, <3>2
  <2>2. QED
    BY <1>2, <1>3, <2>1 DEF Lasts
<1>4. CASE \E n \in {0, 1} : ConnectSucceeds(n) \/ ConnectRefused(n)
  BY <1>1, <1>3, <1>4, EnvironmentPosts
<1>5. CASE WriteDone \/ WriteFails
  <2>1. UNCHANGED <<reads, sock>>
    BY <1>5 DEF WriteDone, WriteFails
  <2>2. QED
    BY <1>1, <1>3, <1>5, <2>1, EnvironmentPosts
<1>6. CASE ReadDone \/ ReadFails
  <2>1. Head(reads) \in {"header", "body"}
    BY <1>6, HeadTailProperties DEF ReadDone, ReadFails, TypeOK
  <2>2. CASE ReadDone
    <3> DEFINE e == [fn |-> Head(reads), err |-> "ok", pdu |-> Head(inbox).pdu]
    <3>1. e.fn = Head(reads) /\ Elems(ready') = Elems(ready) \union {e}
      BY <2>2, EnvironmentPosts
    <3> HIDE DEF e
    <3>2. QED
      BY <1>3, <2>1, <3>1
  <2>3. CASE ReadFails
    BY <1>1, <1>3, <2>1, <2>3, EnvironmentPosts
  <2>4. QED
    BY <1>6, <2>2, <2>3
<1>7. CASE MessageCentre
  <2>1. UNCHANGED <<ready, reads, sock>>
    BY <1>7 DEF MessageCentre, MCAnswers, MCAsks, MCDrops
  <2>2. QED
    BY <1>2, <2>1, AddsCalled DEF Lasts, AliveInv
<1>8. CASE TimerExpires
  <2>1. PICK t \in ExpiringTimers : Elems(ready') = Elems(ready) \union {Posted(t, "ok")}
    BY <1>8, EnvironmentPosts
  <2>2. UNCHANGED <<reads, sock>>
    BY <1>8 DEF TimerExpires
  <2>3. QED
    BY <1>1, <1>3, <2>1, <2>2 DEF Uninterrupted
<1>9. QED
  BY <1>4, <1>5, <1>6, <1>7, <1>8 DEF Network

\* What the handlers do: those that read on, those that try again, and the others.
LEMMA HandlersAlive ==
    ASSUME Uninterrupted, TypeOK, AliveInv,
           \/ CloseConnection \/ HandleConnectOk \/ HandleConnectError
           \/ HandleReadHeaderOk \/ HandleReadError \/ HandleWriteOk
           \/ HandleWriteError \/ DoEnquireLink \/ DoEnquireLinkFailure
           \/ AgeCleanupBegins
    PROVE  AliveInv'
<1> USE DEF connVars, flagVars, mcVars, apiVars
<1>1. /\ ready # <<>> /\ UNCHANGED <<stopFlag, ioRunning, thread>>
      /\ ~stopFlag /\ tx \in TxRecord
  BY DEF CloseConnection, HandleConnectOk, HandleConnectError, HandleReadHeaderOk,
     HandleReadError, HandleWriteOk, HandleWriteError, DoEnquireLink,
     DoEnquireLinkFailure, AgeCleanupBegins, Runs, AliveInv, TypeOK
<1> DEFINE rest == Elems(Tail(ready))
<1>2. /\ Elems(ready) = {Head(ready)} \union rest
      /\ \A e \in Elems(ready) : e.fn # "response"
  BY <1>1, HandlerPosts DEF AliveInv, Fns
<1> HIDE DEF rest
<1>3. ASSUME \A e \in Elems(ready') : e \in rest \/ e.fn # "response", Called'
      PROVE  AliveInv'
  BY <1>1, <1>2, <1>3 DEF AliveInv, Fns
<1>4. ASSUME NEW part \in {"header", "body"}, Read(part),
             \A e \in FailedRead(part) : e \in Elems(ready')
      PROVE  Called'
  <2>1. CASE ReadBroken
    <3>1. Posted(part, "error") \in Elems(ready') /\ Posted(part, "error").fn = part
      BY <1>4, <2>1 DEF FailedRead, Posted
    <3>2. QED
      BY <3>1 DEF Called, Fns
  <2>2. CASE ~ReadBroken
    <3>1. reads \in Seq({"header", "body"})
      BY DEF TypeOK
    <3>2. reads' # <<>>
      BY <1>4, <2>2, <3>1, AppendProperties DEF Read
    <3>3. QED
      BY <3>2 DEF Called
  <2>3. QED
    BY <2>1, <2>2
<1>5. ASSUME Head(ready).fn \notin {"header", "body", "connect", "close"},
             \A e \in rest : e \in Elems(ready'),
             UNCHANGED <<reads, sock, reconnectFlag>>
      PROVE  Called'
  BY <1>2, <1>5 DEF AliveInv, Called, Fns
<1>6. ASSUME reconnectFlag' = TRUE, CloseEntry \in Elems(ready')
      PROVE  Called'
  BY <1>6, FnsOfPosts DEF Called, Fns
<1>7. CASE CloseConnection
  <2>1. Elems(ready') = rest \union Cut
    BY <1>1, <1>7, HandlerPosts DEF rest
  <2>2. Called'
    <3>1. CASE reconnectFlag
      BY <1>1, <1>7, <3>1 DEF CloseConnection, Connect, Called
    <3>2. CASE ~reconnectFlag /\ reads # <<>>
      <4>1. PICK part \in Elems(reads) : part \in {"header", "body"}
        BY <3>2, ElemsSome, ElemsOf DEF TypeOK
      <4>2. Posted(part, "aborted") \in Elems(ready')
        BY <2>1, <4>1 DEF Cut
      <4>3. Posted(part, "aborted").fn \in {"header", "body"}
        BY <4>1 DEF Posted
      <4>4. QED
        BY <4>2, <4>3 DEF Called, Fns
    <3>3. CASE ~reconnectFlag /\ sock = "connecting"
      <4>1. Posted("connect", "aborted") \in Elems(ready')
        BY <2>1, <3>3 DEF Cut
      <4>2. QED
        BY <4>1 DEF Called, Fns, Posted
    <3>4. CASE ~reconnectFlag /\ reads = <<>> /\ sock # "connecting"
      <4>1. Head(ready).fn = "close"
        BY <1>7 DEF CloseConnection, Runs
      <4>2. \E e \in rest : e.fn \in {"header", "body", "connect"}
        BY <1>2, <3>4, <4>1 DEF AliveInv, Called, Fns
      <4>3. QED
        BY <2>1, <4>2 DEF Called, Fns
    <3>5. QED
      BY <1>1, <3>1, <3>2, <3>3, <3>4 DEF TypeOK
  <2>3. QED
    BY <1>3, <2>1, <2>2, FnsOfPosts
<1>8. CASE HandleConnectOk
  <2>1. Elems(ready') = rest \union FailedWrites(DoBindRequest(tx))
                        \union FailedRead("header")
    BY <1>1, <1>8, HandlerPosts DEF rest
  <2>2. Called'
    BY <1>4, <1>8, <2>1 DEF HandleConnectOk
  <2>3. QED
    BY <1>3, <2>1, <2>2, FnsOfPosts
<1>9. CASE HandleConnectError
  <2>1. Elems(ready') = rest \union Cut
    BY <1>1, <1>9, HandlerPosts DEF rest
  <2>2. Called'
    BY <1>1, <1>9 DEF HandleConnectError, Connect, Called
  <2>3. QED
    BY <1>3, <2>1, <2>2, FnsOfPosts
<1>10. CASE HandleReadHeaderOk
  <2>1. Elems(ready') = rest \union FailedRead("body")
    BY <1>1, <1>10, HandlerPosts DEF rest
  <2>2. Called'
    BY <1>4, <1>10, <2>1 DEF HandleReadHeaderOk
  <2>3. QED
    BY <1>3, <2>1, <2>2, FnsOfPosts
<1>11. CASE HandleReadError
  <2>1. CASE CloseSession(TRUE)
    <3>1. PICK t \in TxRecord :
             \/ Elems(ready') = rest \union FailedWrites(t) \union {CloseEntry}
             \/ Elems(ready') = rest \union {CloseEntry}
      BY <1>1, <2>1, HandlerPosts DEF rest
    <3>2. Called'
      BY <1>6, <2>1, <3>1 DEF CloseSession
    <3>3. QED
      BY <1>3, <3>1, <3>2, FnsOfPosts
  <2>2. CASE ~CloseSession(TRUE)
    <3>1. reconnectFlag' = TRUE /\ ready' = Append(Tail(ready), CloseEntry)
      BY <1>1, <1>11, <2>2 DEF HandleReadError
    <3>2. Elems(ready') = rest \union {CloseEntry}
      BY <1>1, <3>1, HandlerPosts DEF rest
    <3>3. QED
      BY <1>3, <1>6, <3>1, <3>2, FnsOfPosts
  <2>3. QED
    BY <2>1, <2>2
<1>12. CASE HandleWriteError
  <2>1. reconnectFlag' = TRUE /\ ready' = Append(Tail(ready), CloseEntry)
    BY <1>1, <1>12 DEF HandleWriteError
  <2>2. Elems(ready') = rest \union {CloseEntry}
    BY <1>1, <2>1, HandlerPosts DEF rest
  <2>3. QED
    BY <1>3, <1>6, <2>1, <2>2, FnsOfPosts
<1>13. CASE HandleWriteOk \/ DoEnquireLink
  <2>1. PICK t \in TxRecord : ready' = Tail(ready) \o WriteFailures(t)
    <3>1. CASE HandleWriteOk
      BY <1>1, <3>1, WritePduType DEF HandleWriteOk
    <3>2. CASE DoEnquireLink
      <4>1. /\ NextSeq(tx) \in TxRecord /\ SESSION \in Levels
            /\ NewPdu("enquire", tx.mVal, 0) \in Pdu
        BY <1>1, TxFields, NewPduType, CommandsAre, LevelsAre
      <4>2. DoWrite(NextSeq(tx), NewPdu("enquire", tx.mVal, 0), SESSION) \in TxRecord
        BY <4>1, DoWriteType
      <4>3. QED
        BY <3>2, <4>2 DEF DoEnquireLink
    <3>3. QED
      BY <1>13, <3>1, <3>2
  <2>2. Elems(ready') = rest \union FailedWrites(t)
    BY <1>1, <2>1, HandlerPosts DEF rest
  <2>3. /\ Head(ready).fn \in {"write", "enquire"}
        /\ UNCHANGED <<reads, sock, reconnectFlag>>
    BY <1>13 DEF HandleWriteOk, DoEnquireLink, Runs
  <2>4. QED
    BY <1>3, <1>5, <2>2, <2>3, FnsOfPosts
<1>14. CASE AgeCleanupBegins
  <2>1. /\ Head(ready).fn = "age" /\ Elems(ready') = rest
        /\ UNCHANGED <<reads, sock, reconnectFlag>>
    BY <1>14 DEF AgeCleanupBegins, Runs, rest
  <2>2. QED
    BY <1>3, <1>5, <2>1
<1>15. ~DoEnquireLinkFailure
  BY <1>1, <1>2 DEF DoEnquireLinkFailure, Runs
<1>16. QED
  BY <1>7, <1>8, <1>9, <1>10, <1>11, <1>12, <1>13, <1>14, <1>15

\* handle_read_body reads on, whatever it has read.
LEMMA ProcessAlive ==
    ASSUME TypeOK, AliveInv,
           \/ ProcBindResp \/ ProcEnquireLink \/ ProcDeliverSm \/ ProcGarbled
           \/ ProcUnbind \/ ProcUnbindResp \/ ProcOutbind \/ ProcNothing
    PROVE  AliveInv'
<1>1. PICK t \in TxRecord, posts \in {<<>>, <<CloseEntry>>} : ReadNext(t, posts)
  BY ProcessReadsNext
<1>2. ready # <<>> /\ thread' = thread /\ ioRunning' = ioRunning /\ ~stopFlag'
  <2>1. thread' = thread /\ ioRunning' = ioRunning
    BY <1>1 DEF ReadNext, apiVars
  <2>2. stopFlag' = stopFlag \/ stopFlag' = FALSE
    BY DEF ProcBindResp, ProcEnquireLink, ProcDeliverSm, ProcGarbled, ProcUnbind,
       ProcUnbindResp, ProcOutbind, ProcNothing, flagVars
  <2>3. QED
    BY <2>1, <2>2, ProcessReadsNext DEF AliveInv
<1>3. /\ Read("header")
      /\ Elems(ready') = Elems(Tail(ready)) \union FailedWrites(t)
                         \union Elems(posts) \union FailedRead("header")
  BY <1>1, <1>2, HandlerPosts DEF ReadNext
<1>4. \A e \in Elems(ready') : e.fn # "response"
  BY <1>2, <1>3, FnsOfReady, FnsOfPosts DEF AliveInv
<1>5. Called'
  <2>1. CASE ReadBroken
    <3>1. Posted("header", "error") \in Elems(ready')
      BY <1>3, <2>1 DEF FailedRead
    <3>2. QED
      BY <3>1 DEF Called, Fns, Posted
  <2>2. CASE ~ReadBroken
    <3>1. reads \in Seq({"header", "body"})
      BY DEF TypeOK
    <3>2. reads' # <<>>
      BY <1>3, <2>2, <3>1, AppendProperties DEF Read
    <3>3. QED
      BY <3>2 DEF Called
  <2>3. QED
    BY <2>1, <2>2
<1>6. QED
  BY <1>2, <1>4, <1>5 DEF AliveInv, Fns

\* The loop over w4rQ, the end of io_service::run(), and the other threads.
LEMMA OthersAlive ==
    ASSUME Uninterrupted, TypeOK, SenderInv, AliveInv,
           AgeCleanupResends \/ AgeCleanupEnds \/ RunReturns \/ OtherThreads
    PROVE  AliveInv' \/ stopFlag'
<1> USE DEF connVars, flagVars, mcVars, apiVars
<1>1. /\ tx \in TxRecord /\ tx.q \in Queues /\ {"sender", "main"} = ThreadIds
      /\ thread \in [ThreadIds -> [pc : ThreadPcs, pdu : Pdu, busy : BOOLEAN]]
      /\ \A t \in ThreadIds : thread[t].pdu \in Pdu
      /\ thread["main"].pc = "idle" /\ MESSAGE \in Levels
  BY TxFields, LevelsAre DEF TypeOK, ThreadIds, AliveInv
<1>2. ASSUME UNCHANGED <<stopFlag, ioRunning, reconnectFlag, reads, sock>>,
             thread'["main"].pc = "idle",
             \/ ready' = ready
             \/ \E t \in TxRecord : ready' = ready \o WriteFailures(t)
      PROVE  AliveInv'
  <2>1. \/ Elems(ready') = Elems(ready)
        \/ \E t \in TxRecord : Elems(ready') = Elems(ready) \union FailedWrites(t)
    <3>1. ready \in Seq(Entry)
      BY DEF TypeOK
    <3>2. \A t \in TxRecord :
            Elems(ready \o WriteFailures(t)) = Elems(ready) \union FailedWrites(t)
      BY <3>1, PostElems
    <3>3. CASE ready' = ready
      BY <3>3
    <3>4. CASE \E t \in TxRecord : ready' = ready \o WriteFailures(t)
      BY <3>2, <3>4
    <3>5. QED
      BY <1>2, <3>3, <3>4
  <2>2. Called'
    BY <1>2, <2>1, AddsCalled DEF AliveInv
  <2>3. Lasts
    BY <1>1, <1>2, <2>1, <2>2, FnsOfPosts DEF Lasts
  <2>4. QED
    BY <2>3, LastsAlive
<1>3. CASE AgeCleanupResends
  <2>1. PICK p \in ageing.todo :
          /\ ready' = ready \o WriteFailures(DoWrite(tx, p, MESSAGE))
          /\ UNCHANGED <<stopFlag, ioRunning, reconnectFlag, reads, sock, thread>>
    BY <1>3 DEF AgeCleanupResends
  <2>2. DoWrite(tx, p, MESSAGE) \in TxRecord
    BY <1>1, DoWriteType DEF TypeOK
  <2>3. QED
    BY <1>1, <1>2, <2>1, <2>2
<1>4. CASE AgeCleanupEnds
  BY <1>1, <1>2, <1>4 DEF AgeCleanupEnds
<1>5. ~RunReturns
  <2>1. ready = <<>> => Fns(ready) = {}
    BY ElemsOne DEF Fns
  <2>2. QED
    BY <2>1 DEF RunReturns, NoWork, AliveInv, Called
<1>6. CASE TakeMessage \/ SendPdu
  <2>1. thread'["main"].pc = "idle"
    BY <1>1, <1>6 DEF TakeMessage, SendPdu, Goto
  <2>2. QED
    BY <1>2, <1>6, <2>1 DEF TakeMessage, SendPdu
<1>7. /\ Stop => stopFlag'
      /\ ~(\/ StopClearsReconnect \/ StopClosesSession \/ StopPosts
           \/ OtherThread("main"))
  BY <1>1 DEF Stop, StopClearsReconnect, StopClosesSession, StopPosts, OtherThread,
     DoWriteLocks, DoWritePushes, DoWritePops, DoWriteCrashes, DoWriteWrites
<1>8. ~DoWriteCrashes("sender")
  BY <1>1, MessagesLeft DEF DoWriteCrashes, SenderInv, SenderFindsMessage
<1>9. CASE DoWriteLocks("sender") \/ DoWritePushes("sender") \/ DoWritePops("sender")
  <2>1. thread'["main"].pc = "idle"
    BY <1>1, <1>9 DEF DoWriteLocks, DoWritePushes, DoWritePops, Goto
  <2>2. QED
    BY <1>2, <1>9, <2>1 DEF DoWriteLocks, DoWritePushes, DoWritePops
<1>10. CASE DoWriteWrites("sender")
  <2> DEFINE u == [tx EXCEPT !.fly = Append(tx.fly, thread["sender"].pdu)]
  <2>1. u \in TxRecord
    <3>1. Append(tx.fly, thread["sender"].pdu) \in Seq(Pdu)
      BY <1>1, TxFields, AppendProperties
    <3>2. QED
      BY <1>1, <3>1, TxFields
  <2>2. ready' = ready \o WriteFailures(u)
    BY <1>10 DEF DoWriteWrites
  <2> HIDE DEF u
  <2>3. /\ thread'["main"].pc = "idle"
        /\ UNCHANGED <<stopFlag, ioRunning, reconnectFlag, reads, sock>>
    BY <1>1, <1>10 DEF DoWriteWrites, Goto
  <2>4. QED
    BY <1>2, <2>1, <2>2, <2>3
<1>11. QED
  BY <1>1, <1>3, <1>4, <1>5, <1>6, <1>7, <1>8, <1>9, <1>10
  DEF OtherThreads, OtherThread

LEMMA InitAlive == Init => AliveInv
<1> SUFFICES ASSUME Init PROVE AliveInv
  OBVIOUS
<1>1. Fns(ready) = {}
  BY ElemsOne DEF Init, Fns
<1>2. thread["main"].pc = "idle"
  BY DEF Init, IdleThread, ThreadIds
<1>3. QED
  BY <1>1, <1>2 DEF Init, AliveInv, Called

LEMMA NextAlive ==
    ASSUME Uninterrupted
    PROVE  TypeOK /\ SenderInv /\ AliveInv /\ [Next]_vars => AliveInv' \/ stopFlag'
<1> SUFFICES ASSUME TypeOK, SenderInv, AliveInv, [Next]_vars
             PROVE  AliveInv' \/ stopFlag'
  OBVIOUS
<1>1. CASE Network \/ MessageCentre \/ TimerExpires
  BY <1>1, EnvironmentLasts, LastsAlive
<1>2. CASE IoThread \/ OtherThreads
  BY <1>2, HandlersAlive, ProcessAlive, OthersAlive DEF IoThread
<1>3. CASE UNCHANGED vars
  BY <1>3 DEF vars, flagVars, connVars, apiVars, AliveInv, Called, Fns
<1>4. QED
  BY <1>1, <1>2, <1>3 DEF Next

\* No unbind of the MC is on its way or read.
NoUnbind == \A p \in ResponsesUnread : p.cmd # "unbind"

\* What the MC does not send does not arrive: its answers are no requests.
LEMMA NextNoUnbind ==
    ASSUME "unbind" \notin MCSends
    PROVE  TypeOK /\ NoUnbind /\ [Next]_vars => NoUnbind'
<1> SUFFICES ASSUME TypeOK, NoUnbind, [Next]_vars PROVE NoUnbind'
  OBVIOUS
<1>1. NoPdu.cmd # "unbind"
  BY DEF NoPdu
<1>2. CASE MCAsks
  <2>1. PICK cmd \in MCSends, seq \in MCSeqs :
           Arrive(NewPdu(cmd, seq, left.requests)) /\ UNCHANGED ready
    BY <1>2 DEF MCAsks
  <2> DEFINE p == NewPdu(cmd, seq, left.requests)
  <2>2. cmd \in MCRequests /\ seq \in Nat /\ left.requests \in Nat
    BY SessionAssumption DEF TypeOK
  <2>3. p \in Pdu /\ p.cmd # "unbind"
    BY <2>2, NewPduType DEF MCRequests, Commands, NewPdu
  <2>4. ResponsesUnread' \subseteq ResponsesUnread \union {p, NoPdu}
    BY <2>1, <2>3, OnePduArrives
  <2> HIDE DEF p
  <2>5. QED
    BY <1>1, <2>3, <2>4 DEF NoUnbind
<1>3. CASE MCAnswers
  <2>1. PICK p \in mcQ :
           \/ Arrive(Answer(ResponseOf[p.cmd], p)) \/ Arrive(Answer("generic_nack", p))
           \/ Arrive(Answer("bind_reject", p)) \/ Arrive(Answer("garbled_resp", p))
    BY <1>3 DEF MCAnswers
  <2>2. p \in Pdu /\ p.cmd \in Requests /\ p.seq \in Nat /\ UNCHANGED ready
    BY <1>3, PduFields DEF TypeOK, MCAnswers
  <2>3. \A cmd \in {ResponseOf[p.cmd], "generic_nack", "bind_reject", "garbled_resp"} :
          cmd \in Commands /\ cmd # "unbind"
    BY <2>2 DEF Requests, ResponseOf, Commands, Responses
  <2>4. PICK cmd \in Commands : cmd # "unbind" /\ Arrive(Answer(cmd, p))
    BY <2>1, <2>3
  <2> DEFINE a == Answer(cmd, p)
  <2>5. a \in Pdu /\ a.cmd # "unbind"
    BY <2>2, <2>4, NewPduType DEF Answer, NewPdu
  <2>6. ResponsesUnread' \subseteq ResponsesUnread \union {a, NoPdu}
    BY <2>2, <2>4, <2>5, OnePduArrives
  <2> HIDE DEF a
  <2>7. QED
    BY <1>1, <2>5, <2>6 DEF NoUnbind
<1>4. CASE ~MCAnswers /\ ~MCAsks
  BY <1>1, <1>4, StepsWithoutAnswer DEF NoUnbind
<1>5. QED
  BY <1>2, <1>3, <1>4

\* The session lives, or is told to stop and stays so: only an unbind takes it back.
LivesOrStops ==
    /\ stopFlag \/ AliveInv
    /\ stopFlag => MayStop
    /\ MayStop => NoUnbind

LEMMA InitLivesOrStops == Init => LivesOrStops
<1> SUFFICES ASSUME Init PROVE LivesOrStops
  OBVIOUS
<1>1. ResponsesUnread = {}
  BY DEF Init, ResponsesUnread
<1>2. QED
  BY <1>1, InitAlive DEF LivesOrStops, NoUnbind, Init

LEMMA NextLivesOrStops ==
    ASSUME Uninterrupted
    PROVE  TypeOK /\ SenderInv /\ LivesOrStops /\ [Next]_vars => LivesOrStops'
<1> SUFFICES ASSUME TypeOK, SenderInv, LivesOrStops, [Next]_vars PROVE LivesOrStops'
  OBVIOUS
<1> USE DEF flagVars
<1>1. stopFlag' = stopFlag \/ ProcUnbind \/ Stop
  BY DEF vars, Next, Network, ConnectSucceeds, ConnectRefused, WriteDone, WriteFails,
     ReadDone, ReadFails, MessageCentre, MCAnswers, MCAsks, MCDrops, TimerExpires,
     IoThread, CloseConnection, HandleConnectOk, HandleConnectError,
     HandleReadHeaderOk, HandleReadError, HandleWriteOk, HandleWriteError,
     ProcBindResp, ProcEnquireLink, ProcDeliverSm, ProcGarbled, ProcUnbindResp,
     ProcOutbind, ProcNothing, DoEnquireLink, DoEnquireLinkFailure,
     AgeCleanupBegins, AgeCleanupResends, AgeCleanupEnds, RunReturns,
     OtherThreads, OtherThread, TakeMessage, SendPdu, StopClearsReconnect,
     StopClosesSession, StopPosts, DoWriteLocks, DoWritePushes, DoWritePops,
     DoWriteCrashes, DoWriteWrites
<1>2. stopFlag' => MayStop
  BY <1>1 DEF LivesOrStops, ProcUnbind, Stop
<1>3. MayStop => NoUnbind'
  BY NextNoUnbind DEF LivesOrStops, Uninterrupted
<1>4. ASSUME stopFlag PROVE stopFlag'
  <2>1. ~ProcUnbind
    <3> SUFFICES ASSUME ProcUnbind PROVE FALSE
      OBVIOUS
    <3>1. ready # <<>> /\ Head(ready).pdu.cmd = "unbind"
      BY DEF ProcUnbind, Arrived, Runs
    <3>2. 1 \in DOMAIN ready /\ ready[1] = Head(ready)
      BY <3>1, HeadTailProperties, EmptySeq, LenProperties DEF TypeOK
    <3>3. Head(ready).pdu \in ResponsesUnread
      BY <3>2 DEF ResponsesUnread
    <3>4. QED
      BY <1>4, <3>1, <3>3 DEF LivesOrStops, NoUnbind
  <2>2. QED
    BY <1>1, <1>4, <2>1 DEF Stop
<1>5. stopFlag' \/ AliveInv'
  BY <1>4, NextAlive DEF LivesOrStops
<1>6. QED
  BY <1>2, <1>3, <1>5 DEF LivesOrStops

\* The session is not given up: io_service::run() does not return, and no thread
\* takes the process down, as long as the response timer does not expire and
\* stopFlag is not set, which only an unbind that crosses stop() takes back.
THEOREM SessionNeverAbandoned ==
    ASSUME Uninterrupted
    PROVE  Spec => []NeverAbandoned
<1>1. Init => TypeOK /\ SenderInv /\ LivesOrStops
  BY InitType, InitSender, InitLivesOrStops
<1>2. TypeOK /\ SenderInv /\ LivesOrStops /\ [Next]_vars
        => (TypeOK /\ SenderInv /\ LivesOrStops)'
  BY NextType, NextSender, NextLivesOrStops
<1>3. LivesOrStops => NeverAbandoned
  BY DEF LivesOrStops, AliveInv, NeverAbandoned
<1>4. QED
  BY <1>1, <1>2, <1>3, PTL DEF Spec

-----------------------------------------------------------------------------
(* A queue that is not empty is being written.                             *)

\* No async_write has ended with an error: nothing is put back.
NoWriteFailed == \A i \in DOMAIN ready : ready[i].fn = "write" => ready[i].err = "ok"

\* The queue that holds one PDU.
Single(p, l) == [NoItems EXCEPT ![l] = <<p>>]
HoldsOne(q)  == \E p \in Pdu, l \in Levels : q = Single(p, l)

\* What write_pdu takes off the queue is what do_write has put on it: the queue holds
\* something only between the push and the pop of a thread that has writeMutex.
Popping == \E t \in ThreadIds : thread[t].pc = "pop"
QueueInv ==
    /\ IsEmpty(tx.q) \/ (HoldsOne(tx.q) /\ Popping)
    /\ \A t \in ThreadIds : thread[t].pc = "push" => ~thread[t].busy

LEMMA EmptyIs ==
    ASSUME NEW q \in Queues
    PROVE  IsEmpty(q) <=> q = NoItems
  BY DEF Queues, IsEmpty, NoItems

\* What push, pop and clearSessionQueues make of such queues.
LEMMA SingleIs ==
    ASSUME NEW p \in Pdu, NEW l \in Levels
    PROVE  /\ Push(NoItems, p, l) = Single(p, l)
           /\ Pop(Single(p, l)) = NoItems
           /\ ClearSessionQueues(Single(p, l)) \in {NoItems, Single(p, l)}
           /\ ClearSessionQueues(NoItems) = NoItems
<1> DEFINE q == Single(p, l)
<1>1. /\ Append(<<>>, p) = <<p>> /\ Tail(<<p>>) = <<>> /\ <<p>> # <<>>
  OBVIOUS
<1>2. Push(NoItems, p, l) = q
  BY <1>1 DEF Push, NoItems, Single
<1>3. q \in Queues /\ ~IsEmpty(q) /\ \A k \in Levels : q[k] = IF k = l THEN <<p>> ELSE <<>>
  <2>1. \A k \in Levels : q[k] = IF k = l THEN <<p>> ELSE <<>>
    BY DEF Single, NoItems
  <2>2. q = [k \in Levels |-> IF k = l THEN <<p>> ELSE <<>>]
    BY DEF Single, NoItems
  <2>3. <<p>> \in Seq(Pdu) /\ <<>> \in Seq(Pdu)
    OBVIOUS
  <2> HIDE DEF q
  <2>4. QED
    BY <1>1, <2>1, <2>2, <2>3 DEF Queues, IsEmpty
<1>4. TopLevel(q) = l
  BY <1>1, <1>3, TopLevelServes
<1>5. Pop(q) = NoItems
  BY <1>1, <1>3, <1>4 DEF Pop, Single, NoItems
<1>6. ClearSessionQueues(NoItems) = NoItems
  BY LevelsAre DEF ClearSessionQueues, NoItems
<1>7. ClearSessionQueues(q) \in {NoItems, q}
  <2>1. CASE l = MESSAGE
    BY <2>1, LevelsAre DEF ClearSessionQueues, NoItems, Single, SESSION, RESPONSE, MESSAGE
  <2>2. CASE l # MESSAGE
    BY <2>2, LevelsAre DEF ClearSessionQueues, NoItems, Single, SESSION, RESPONSE, MESSAGE
  <2>3. QED
    BY <2>1, <2>2
<1>8. QED
  BY <1>2, <1>5, <1>6, <1>7

\* do_write() writes at once what it puts on an empty queue.
LEMMA DoWriteEmpties ==
    ASSUME NEW t \in TxRecord, IsEmpty(t.q), NEW p \in Pdu, NEW l \in Levels
    PROVE  DoWrite(t, p, l) \in TxRecord /\ IsEmpty(DoWrite(t, p, l).q)
<1> DEFINE u == [t EXCEPT !.q = Push(t.q, p, l)]
<1>1. t.q = NoItems /\ t.q \in Queues
  BY EmptyIs, TxFields
<1>2. u \in TxRecord /\ u.q = Single(p, l)
  <2>1. u \in TxRecord
    BY <1>1, TxFields, PushType
  <2>2. u.q = Push(t.q, p, l)
    BY DEF TxRecord
  <2>3. QED
    BY <1>1, <2>1, <2>2, SingleIs
<1>3. DoWrite(t, p, l) = WritePdu(u)
  BY DEF DoWrite
<1> HIDE DEF u
<1>4. PopPdu(u).q = Pop(u.q) /\ WritePdu(u).q = Pop(u.q)
  BY <1>2 DEF PopPdu, WritePdu, TxRecord
<1>5. IsEmpty(WritePdu(u).q)
  BY <1>2, <1>4, SingleIs DEF IsEmpty, NoItems
<1>6. QED
  BY <1>3, <1>5, DoWriteType

\* While nobody pops, the queue is empty; a step that leaves it so and starts no
\* thread keeps the invariant.
LEMMA QueueSteps ==
    ASSUME TypeOK, QueueInv, thread' = thread,
           \/ tx'.q = tx.q
           \/ tx'.q = ClearSessionQueues(tx.q)
           \/ MutexFree /\ (IsEmpty(tx.q) => IsEmpty(tx'.q))
    PROVE  QueueInv'
<1>1. Popping' = Popping /\ (MutexFree => ~Popping) /\ tx.q \in Queues
  BY TxFields DEF TypeOK, Popping, MutexFree
<1>2. \A t \in ThreadIds : thread'[t].pc = "push" => ~thread'[t].busy
  BY DEF QueueInv
<1>3. IsEmpty(tx'.q) \/ (HoldsOne(tx'.q) /\ Popping')
  <2>1. CASE tx'.q = tx.q
    BY <1>1, <2>1 DEF QueueInv
  <2>2. CASE MutexFree /\ (IsEmpty(tx.q) => IsEmpty(tx'.q))
    BY <1>1, <2>2 DEF QueueInv
  <2>3. CASE tx'.q = ClearSessionQueues(tx.q)
    <3>1. IsEmpty(NoItems)
      BY DEF IsEmpty, NoItems
    <3>2. CASE IsEmpty(tx.q)
      <4>1. NoPdu \in Pdu /\ SESSION \in Levels
        BY NoPduType, LevelsAre
      <4>2. ClearSessionQueues(NoItems) = NoItems
        BY <4>1, SingleIs
      <4>3. QED
        BY <1>1, <2>3, <3>1, <3>2, <4>2, EmptyIs
    <3>3. CASE HoldsOne(tx.q) /\ Popping
      <4>1. PICK p \in Pdu, l \in Levels : tx.q = Single(p, l)
        BY <3>3 DEF HoldsOne
      <4>2. tx'.q \in {NoItems, Single(p, l)}
        BY <2>3, <4>1, SingleIs
      <4>3. QED
        BY <1>1, <3>1, <3>3, <4>2 DEF HoldsOne
    <3>4. QED
      BY <3>2, <3>3 DEF QueueInv
  <2>4. QED
    BY <2>1, <2>2, <2>3
<1>4. QED
  BY <1>2, <1>3 DEF QueueInv

\* A queue that is written to with writeMutex is empty before and after.
LEMMA TransmitEmpties ==
    ASSUME NEW t \in TxRecord, IsEmpty(t.q), Transmit(t)
    PROVE  IsEmpty(tx'.q)
  BY TransmitLeaves

LEMMA UnbindEmpties ==
    ASSUME TypeOK, IsEmpty(tx.q)
    PROVE  DoUnbindRequest(tx) \in TxRecord /\ IsEmpty(DoUnbindRequest(tx).q)
<1>1. NewPdu("unbind", SeqMin, 0) \in Pdu /\ SESSION \in Levels /\ tx \in TxRecord
  BY NewPduType, CommandsAre, LevelsAre, SessionAssumption DEF TypeOK
<1>2. QED
  BY <1>1, DoWriteEmpties DEF DoUnbindRequest

LEMMA CloseSessionEmpties ==
    ASSUME TypeOK, NEW b, CloseSession(b)
    PROVE  tx'.q = tx.q \/ (MutexFree /\ (IsEmpty(tx.q) => IsEmpty(tx'.q)))
<1>1. CASE currentState \in BoundStates
  <2>1. MutexFree /\ Transmit(DoUnbindRequest(tx))
    BY <1>1 DEF CloseSession
  <2>2. QED
    BY <2>1, UnbindEmpties, TransmitEmpties
<1>2. CASE currentState \notin BoundStates
  <2>1. Transmit(tx) /\ tx \in TxRecord
    BY <1>2 DEF CloseSession, TypeOK
  <2>2. QED
    BY <2>1, TransmitLeaves
<1>3. QED
  BY <1>1, <1>2

\* do_bind_request() and do_enquire_link() take a number first.
LEMMA NumberedEmpties ==
    ASSUME TypeOK, IsEmpty(tx.q), NEW cmd \in {"bind", "enquire"}
    PROVE  LET t == DoWrite(NextSeq(tx), NewPdu(cmd, tx.mVal, 0), SESSION)
           IN  t \in TxRecord /\ IsEmpty(t.q)
<1> DEFINE u == NextSeq(tx)
<1>1. u \in TxRecord /\ tx.mVal \in Nat /\ SESSION \in Levels
  BY TxFields, LevelsAre DEF TypeOK
<1>2. NewPdu(cmd, tx.mVal, 0) \in Pdu
  BY <1>1, NewPduType, CommandsAre
<1>3. u.q = tx.q
  BY DEF NextSeq, TypeOK, TxRecord
<1> HIDE DEF u
<1>4. /\ DoWrite(u, NewPdu(cmd, tx.mVal, 0), SESSION) \in TxRecord
      /\ IsEmpty(DoWrite(u, NewPdu(cmd, tx.mVal, 0), SESSION).q)
  BY <1>1, <1>2, <1>3, DoWriteEmpties
<1>5. QED
  BY <1>4 DEF u

\* The environment and the io thread.
LEMMA IoQueue ==
    ASSUME NoWriteFailed, TypeOK, QueueInv,
           Network \/ MessageCentre \/ TimerExpires \/ IoThread
    PROVE  QueueInv'
<1> USE DEF connVars, flagVars, mcVars, apiVars
<1>1. tx \in TxRecord /\ tx.q \in Queues /\ ~HandleWriteError
  <2>1. ~HandleWriteError
    BY DEF HandleWriteError, Runs, NoWriteFailed, TypeOK
  <2>2. QED
    BY <2>1, TxFields DEF TypeOK
<1>2. thread' = thread
  BY DEF Network, ConnectSucceeds, ConnectRefused, WriteDone, WriteFails, ReadDone,
     ReadFails, MessageCentre, MCAnswers, MCAsks, MCDrops, TimerExpires, IoThread,
     CloseConnection, HandleConnectOk, HandleConnectError, HandleReadHeaderOk,
     HandleReadError, HandleWriteOk, HandleWriteError, ProcBindResp, ProcEnquireLink,
     ProcDeliverSm, ProcGarbled, ProcUnbind, ProcUnbindResp, ProcOutbind, ProcNothing,
     ReadNext, DoEnquireLink, DoEnquireLinkFailure, AgeCleanupBegins,
     AgeCleanupResends, AgeCleanupEnds, RunReturns
<1>3. ASSUME tx'.q = tx.q PROVE QueueInv'
  BY <1>2, <1>3, QueueSteps
<1>4. ASSUME MutexFree,
             IsEmpty(tx.q) => \E t \in TxRecord : IsEmpty(t.q) /\ Transmit(t)
      PROVE  QueueInv'
  BY <1>2, <1>4, TransmitEmpties, QueueSteps
<1>5. CASE Network \/ MessageCentre \/ TimerExpires
  <2>1. tx' = tx \/ tx' = [tx EXCEPT !.fly = Tail(tx.fly)]
    BY <1>5 DEF Network, ConnectSucceeds, ConnectRefused, WriteDone, WriteFails,
       ReadDone, ReadFails, MessageCentre, MCAnswers, MCAsks, MCDrops, TimerExpires
  <2>2. QED
    BY <1>1, <1>3, <2>1 DEF TxRecord
<1>6. CASE CloseConnection
  <2>1. tx'.q = ClearSessionQueues(tx.q)
    BY <1>1, <1>6 DEF CloseConnection, TxRecord
  <2>2. QED
    BY <1>2, <2>1, QueueSteps
<1>7. CASE HandleConnectError
  BY <1>1, <1>3, <1>7 DEF HandleConnectError, TxRecord
<1>8. CASE HandleConnectOk
  BY <1>4, <1>8, NumberedEmpties DEF HandleConnectOk, DoBindRequest
<1>9. CASE HandleReadError \/ DoEnquireLinkFailure
  <2>1. tx' = tx \/ CloseSession(TRUE) \/ CloseSession(FALSE)
    BY <1>9 DEF HandleReadError, DoEnquireLinkFailure
  <2>2. QED
    BY <1>2, <2>1, CloseSessionEmpties, QueueSteps
<1>10. CASE HandleWriteOk
  <2>1. IsEmpty(tx.q) => Transmit(tx)
    BY <1>10 DEF HandleWriteOk
  <2>2. QED
    BY <1>1, <1>4, <1>10, <2>1 DEF HandleWriteOk
<1>11. CASE ProcBindResp \/ ProcUnbindResp \/ ProcNothing
  <2>1. Transmit(tx)
    BY <1>11 DEF ProcBindResp, ProcUnbindResp, ProcNothing, ReadNext
  <2>2. QED
    BY <1>1, <1>3, <2>1, TransmitLeaves
<1>12. ASSUME MutexFree, NEW cmd \in {"enquire_resp", "deliver_resp", "unbind_resp"},
              Transmit(Respond(cmd)), ready # <<>>
       PROVE  QueueInv'
  <2>1. Head(ready) \in Entry
    BY <1>12, HeadTailProperties DEF TypeOK
  <2>2. Answer(cmd, Head(ready).pdu) \in Pdu /\ RESPONSE \in Levels
    <3>1. Head(ready).pdu \in Pdu
      BY <2>1 DEF Entry
    <3>2. Head(ready).pdu.seq \in Nat
      BY <3>1, PduFields
    <3>3. QED
      BY <3>2, NewPduType, CommandsAre, LevelsAre DEF Answer
  <2>3. QED
    BY <1>1, <1>4, <1>12, <2>2, DoWriteEmpties DEF Respond
<1>13. CASE ProcEnquireLink \/ ProcDeliverSm
  <2>1. MutexFree /\ ready # <<>>
    BY <1>13 DEF ProcEnquireLink, ProcDeliverSm, Arrived, Runs
  <2>2. Transmit(Respond("enquire_resp")) \/ Transmit(Respond("deliver_resp"))
    BY <1>13 DEF ProcEnquireLink, ProcDeliverSm, ReadNext
  <2>3. QED
    BY <1>12, <2>1, <2>2
<1>14. CASE ProcUnbind
  BY <1>12, <1>14 DEF ProcUnbind, ReadNext, Arrived, Runs
<1>15. CASE ProcGarbled
  <2>1. CASE currentState \in BoundStates
    BY <1>4, <1>15, <2>1, UnbindEmpties DEF ProcGarbled, ReadNext
  <2>2. CASE currentState \notin BoundStates
    <3>1. Transmit(tx)
      BY <1>15, <2>2 DEF ProcGarbled, ReadNext
    <3>2. QED
      BY <1>1, <1>3, <3>1, TransmitLeaves
  <2>3. QED
    BY <2>1, <2>2
<1>16. CASE ProcOutbind
  BY <1>4, <1>16, NumberedEmpties DEF ProcOutbind, ReadNext, DoBindRequest
<1>17. CASE DoEnquireLink
  BY <1>4, <1>17, NumberedEmpties DEF DoEnquireLink
<1>18. CASE AgeCleanupResends
  <2>1. PICK p \in ageing.todo : MutexFree /\ Transmit(DoWrite(tx, p, MESSAGE))
    BY <1>18 DEF AgeCleanupResends
  <2>2. p \in Pdu /\ MESSAGE \in Levels
    BY LevelsAre DEF TypeOK
  <2>3. QED
    BY <1>1, <1>4, <2>1, <2>2, DoWriteEmpties
<1>19. CASE HandleReadHeaderOk \/ AgeCleanupBegins \/ AgeCleanupEnds \/ RunReturns
  BY <1>3, <1>19 DEF HandleReadHeaderOk, AgeCleanupBegins, AgeCleanupEnds, RunReturns
<1>20. QED
  BY <1>1, <1>5, <1>6, <1>7, <1>8, <1>9, <1>10, <1>11, <1>13, <1>14, <1>15, <1>16,
     <1>17, <1>18, <1>19 DEF IoThread

\* The other threads: one of them is between push and pop.
LEMMA OtherThreadsQueue ==
    ASSUME TypeOK, OneInside, QueueInv, OtherThreads
    PROVE  QueueInv'
<1>1. /\ tx \in TxRecord /\ tx.q \in Queues
      /\ ThreadIds = {"sender", "main"} /\ LevelOf("sender") \in Levels
      /\ LevelOf("main") \in Levels
      /\ thread \in [ThreadIds -> [pc : ThreadPcs, pdu : Pdu, busy : BOOLEAN]]
      /\ \A t \in ThreadIds : thread[t].pdu \in Pdu
  BY TxFields, LevelsAre DEF TypeOK, ThreadIds, LevelOf
<1>2. IsEmpty(NoItems)
  BY DEF IsEmpty, NoItems
<1>3. ASSUME NEW t \in ThreadIds,
             \A s \in ThreadIds \ {t} : thread'[s] = thread[s],
             thread'[t].pc = "push" => ~thread'[t].busy,
             \/ IsEmpty(tx'.q)
             \/ HoldsOne(tx'.q) /\ thread'[t].pc = "pop"
             \/ tx'.q = tx.q /\ thread[t].pc # "pop"
      PROVE  QueueInv'
  <2>1. \A s \in ThreadIds : thread'[s].pc = "push" => ~thread'[s].busy
    BY <1>3 DEF QueueInv
  <2>2. IsEmpty(tx'.q) \/ (HoldsOne(tx'.q) /\ Popping')
    BY <1>3 DEF QueueInv, Popping
  <2>3. QED
    BY <2>1, <2>2 DEF QueueInv
<1>4. ASSUME NEW t \in ThreadIds, NEW pc, Goto(t, pc)
      PROVE  /\ thread'[t].pc = pc
             /\ \A s \in ThreadIds \ {t} : thread'[s] = thread[s]
  BY <1>1, <1>4 DEF Goto
<1>5. CASE TakeMessage \/ SendPdu
  <2>1. /\ thread'["sender"].pc \in {"send", "lock", "idle"}
        /\ \A s \in ThreadIds \ {"sender"} : thread'[s] = thread[s]
    <3>1. CASE TakeMessage
      BY <1>1, <3>1 DEF TakeMessage
    <3>2. CASE SendPdu
      BY <1>1, <1>4, <3>2 DEF SendPdu
    <3>3. QED
      BY <1>5, <3>1, <3>2
  <2>2. tx' = tx /\ thread["sender"].pc # "pop"
    BY <1>5 DEF TakeMessage, SendPdu
  <2>3. QED
    BY <1>1, <1>3, <2>1, <2>2
<1>6. CASE Stop \/ StopClearsReconnect \/ StopClosesSession \/ StopPosts
  <2>1. /\ thread'["main"].pc \in {"close", "look", "lock", "post", "done"}
        /\ \A s \in ThreadIds \ {"main"} : thread'[s] = thread[s]
    <3>1. CASE Stop \/ StopClearsReconnect \/ StopPosts
      BY <1>1, <1>4, <3>1 DEF Stop, StopClearsReconnect, StopPosts
    <3>2. CASE StopClosesSession
      <4>1. \/ Goto("main", "post")
            \/ thread' = [thread EXCEPT !["main"] =
                  [@ EXCEPT !.pc = "lock", !.pdu = NewPdu("unbind", SeqMin, 0)]]
        BY <3>2 DEF StopClosesSession
      <4>2. CASE Goto("main", "post")
        BY <1>1, <1>4, <4>2
      <4>3. CASE thread' = [thread EXCEPT !["main"] =
                   [@ EXCEPT !.pc = "lock", !.pdu = NewPdu("unbind", SeqMin, 0)]]
        BY <1>1, <4>3
      <4>4. QED
        BY <4>1, <4>2, <4>3
    <3>3. QED
      BY <1>6, <3>1, <3>2
  <2>2. tx' = tx /\ thread["main"].pc # "pop"
    BY <1>6 DEF Stop, StopClearsReconnect, StopClosesSession, StopPosts
  <2>3. QED
    BY <1>1, <1>3, <2>1, <2>2
<1>7. ASSUME NEW t \in ThreadIds, DoWriteLocks(t)
      PROVE  QueueInv'
  <2>1. IsEmpty(tx.q) /\ tx' = tx
    BY <1>7 DEF DoWriteLocks, MutexFree, QueueInv, Popping
  <2>2. /\ ~thread'[t].busy
        /\ \A s \in ThreadIds \ {t} : thread'[s] = thread[s]
    BY <1>1, <1>7, <2>1 DEF DoWriteLocks
  <2>3. QED
    BY <1>3, <2>1, <2>2
<1>8. ASSUME NEW t \in ThreadIds, DoWritePushes(t)
      PROVE  QueueInv'
  <2>1. ~Popping /\ ~thread[t].busy
    BY <1>8 DEF DoWritePushes, QueueInv, Popping, OneInside, Inside
  <2>2. tx.q = NoItems
    BY <1>1, <2>1, EmptyIs DEF QueueInv
  <2>3. Goto(t, "pop") /\ tx'.q = Push(tx.q, thread[t].pdu, LevelOf(t))
    BY <1>1, <1>8, <2>1 DEF DoWritePushes, TxRecord
  <2>4. HoldsOne(tx'.q)
    <3>1. LevelOf(t) \in Levels /\ thread[t].pdu \in Pdu
      BY <1>1
    <3>2. tx'.q = Single(thread[t].pdu, LevelOf(t))
      BY <2>2, <2>3, <3>1, SingleIs
    <3>3. QED
      BY <3>1, <3>2 DEF HoldsOne
  <2>5. QED
    BY <1>3, <1>4, <2>3, <2>4
<1>9. ASSUME NEW t \in ThreadIds, DoWritePops(t)
      PROVE  QueueInv'
  <2>1. PICK p \in Pdu, l \in Levels : tx.q = Single(p, l)
    BY <1>9 DEF DoWritePops, QueueInv, HoldsOne
  <2>2. tx'.q = Pop(tx.q)
    BY <1>1, <1>9 DEF DoWritePops, PopPdu, TxRecord
  <2>3. /\ IsEmpty(tx'.q) /\ thread'[t].pc = "write"
        /\ \A s \in ThreadIds \ {t} : thread'[s] = thread[s]
    BY <1>1, <1>2, <1>9, <2>1, <2>2, SingleIs DEF DoWritePops
  <2>4. QED
    BY <1>3, <2>3
<1>10. ASSUME NEW t \in ThreadIds, DoWriteCrashes(t)
       PROVE  QueueInv'
  <2>1. IsEmpty(tx'.q) /\ \A s \in ThreadIds : thread'[s].pc = "dead"
    BY <1>1, <1>10 DEF DoWriteCrashes
  <2>2. QED
    BY <2>1 DEF QueueInv
<1>11. ASSUME NEW t \in ThreadIds, DoWriteWrites(t)
       PROVE  QueueInv'
  <2> DEFINE u == [tx EXCEPT !.fly = Append(tx.fly, thread[t].pdu)]
  <2>1. u \in TxRecord /\ u.q = tx.q /\ Transmit(u)
    <3>1. Append(tx.fly, thread[t].pdu) \in Seq(Pdu)
      BY <1>1, TxFields, AppendProperties
    <3>2. u \in TxRecord
      BY <1>1, <3>1, TxFields
    <3>3. u.q = tx.q
      BY <1>1 DEF TxRecord
    <3>4. QED
      BY <1>11, <3>2, <3>3 DEF DoWriteWrites
  <2> HIDE DEF u
  <2>2. tx'.q = tx.q /\ thread[t].pc # "pop"
    BY <1>11, <2>1, TransmitLeaves DEF DoWriteWrites
  <2>3. Goto(t, Returns(t)) /\ Returns(t) # "push"
    BY <1>11 DEF DoWriteWrites, Returns
  <2>4. QED
    BY <1>3, <1>4, <2>2, <2>3
<1>12. QED
  BY <1>5, <1>6, <1>7, <1>8, <1>9, <1>10, <1>11 DEF OtherThreads, OtherThread

LEMMA InitQueue == Backlog = <<>> /\ Init => QueueInv
<1> SUFFICES ASSUME Backlog = <<>>, Init PROVE QueueInv
  OBVIOUS
<1>1. \A t \in ThreadIds : thread[t].pc = "idle"
  BY DEF Init, IdleThread
<1>2. tx.q = [NoItems EXCEPT ![MESSAGE] =
                [i \in DOMAIN Backlog |-> NewPdu("submit", Backlog[i], NMsg + i)]]
  BY DEF Init
<1>3. [i \in DOMAIN Backlog |-> NewPdu("submit", Backlog[i], NMsg + i)] = <<>>
  OBVIOUS
<1>4. IsEmpty(tx.q)
  BY <1>2, <1>3 DEF IsEmpty, NoItems
<1>5. QED
  BY <1>1, <1>4 DEF QueueInv

LEMMA NextQueue ==
    NoWriteFailed /\ TypeOK /\ SenderInv /\ QueueInv /\ [Next]_vars => QueueInv'
<1> SUFFICES ASSUME NoWriteFailed, TypeOK, SenderInv, QueueInv, [Next]_vars
             PROVE  QueueInv'
  OBVIOUS
<1>1. CASE Next
  BY <1>1, IoQueue, OtherThreadsQueue DEF Next, SenderInv
<1>2. CASE UNCHANGED vars
  BY <1>2, QueueSteps DEF vars, apiVars
<1>3. QED
  BY <1>1, <1>2

\* "if the queue is not empty, we are busy writing" (session_manager.cpp:358), as
\* long as the program began with an empty queue and no write has failed: connections
\* may come and go and stop() may be called between any two steps of a write.
THEOREM SessionQueueMeansBusy ==
    ASSUME Backlog = <<>>
    PROVE  Spec /\ []NoWriteFailed => []QueueMeansBusy
<1>1. Init => TypeOK /\ SenderInv /\ QueueInv
  BY InitType, InitSender, InitQueue
<1>2. NoWriteFailed /\ TypeOK /\ SenderInv /\ QueueInv /\ [Next]_vars
        => (TypeOK /\ SenderInv /\ QueueInv)'
  BY NextType, NextSender, NextQueue
<1>3. QueueInv => QueueMeansBusy
  BY DEF QueueInv, QueueMeansBusy, Popping, MutexFree
<1>4. QED
  BY <1>1, <1>2, <1>3, PTL DEF Spec

=============================================================================
