--------------------------- MODULE SessionManager ---------------------------
(***************************************************************************)
(* One SMPP session of ksmppcd (session_manager.cpp/.hpp) together with    *)
(* everything it races with: the Boost.Asio io_service that runs its       *)
(* handlers, the TCP connection, the message centre (MC) at the other end, *)
(* the timers, the sendingProcessor thread that calls send_pdu() and the   *)
(* main thread that calls stop().                                          *)
(*                                                                         *)
(* One thread runs the io_service, so a handler is one atomic step of the  *)
(* io thread, taken from the front of "ready".  What the other two threads *)
(* do is cut at every point where the io thread can come in between.       *)
(* sleep() and usleep() take no time here; Throttle has the rate limiter.  *)
(***************************************************************************)
EXTENDS Naturals, Sequences, FiniteSets, TransmitQ

CONSTANTS
    BindType,     \* smpp-session.bind-type: "TX", "RX" or "TRX"
    SeqMin,       \* smpp_pdu::SequenceNumber::Min
    W4RLimit,     \* the 10 of canSend()
    Backlog,      \* sequence numbers of the messages txQ finds on disk
    MCSeqs,       \* sequence numbers the MC gives to its own requests
    MCSends,      \* requests the MC may send by itself
    DropKinds,    \* how the MC may end a connection: "eof", "reset"
    Quiet,        \* timers expire, and the MC ends a connection, only while
                  \* the io thread has nothing to do or to notice
    ExpiringTimers, \* the timers that may expire
    MayReject,    \* the MC may reject a bind
    MayStop,      \* stop() may be called
    NMsg,         \* bound: messages handed to send_pdu()
    MaxRefusals,  \* bound: connection attempts that fail
    MaxDrops,     \* bound: connections that the MC ends
    MaxRequests,  \* bound: requests of the MC
    MaxTicks,     \* bound: expiries of the timers that start something
    MaxSeq        \* bound: where the sequence number generator stops

BindTypes == {"TX", "RX", "TRX"}
Requests  == {"bind", "submit", "enquire", "unbind"}
Timers    == {"enquire", "response", "age"}
MCRequests == {"deliver", "garbled", "enquire", "unbind", "outbind"}

ASSUME SessionAssumption ==
    /\ BindType \in BindTypes
    /\ SeqMin \in Nat /\ W4RLimit \in Nat /\ MaxSeq \in Nat
    /\ Backlog \in Seq(Nat)
    /\ MCSeqs \subseteq Nat
    /\ MCSends \subseteq MCRequests
    /\ DropKinds \subseteq {"eof", "reset"}
    /\ ExpiringTimers \subseteq Timers
    /\ {Quiet, MayReject, MayStop} \subseteq BOOLEAN
    /\ {NMsg, MaxRefusals, MaxDrops, MaxRequests, MaxTicks} \subseteq Nat

VARIABLES
    currentState, stopFlag, reconnectFlag,
    tx,        \* txQ and what write_pdu works on, see TxRecord
    w4rQ,      \* the PDUs waiting for a response, at most one per number
    rxQ,       \* the deliver_sm PDUs handed to recieveProcessor
    timers,    \* the timers with a pending async_wait
    ageing,    \* w4rQ_age_cleanup's loop: is it running, what is still ahead
    ready,     \* completion handlers waiting for the io thread, in order
    ioRunning, \* io_service::run() has not returned
    sock,      \* the socket
    attempt,   \* tells a connection attempt from the one it replaced
    reads,     \* pending async_reads, in order
    peer,      \* what the MC did to the connection
    inbox,     \* bytes received and not read: header and body of each PDU
    mcQ,       \* the session's requests that the MC has not answered
    mcState,   \* what the MC takes this connection for: new, bound, unbound
    thread,    \* the sendingProcessor thread and the main thread
    nextMsg,   \* the next message of sendingBuffer
    left       \* what the bounds still allow the environment

apiVars  == <<thread, nextMsg>>
mcVars   == <<peer, inbox, mcQ, mcState>>
connVars == <<sock, attempt>>
flagVars == <<stopFlag, reconnectFlag>>
vars == <<currentState, flagVars, tx, w4rQ, rxQ, timers, ageing, ready,
          ioRunning, connVars, reads, mcVars, apiVars, left>>

-----------------------------------------------------------------------------
(* PDUs.  "submit" stands for every message request an application can     *)
(* send; ref is the message's identity, or the number of the request that  *)
(* a response answers.  "garbled" is a request, and "garbled_resp" the      *)
(* response to a submit, whose constructor throws.                         *)

ResponseOf == [bind    |-> "bind_resp",    submit  |-> "submit_resp",
               enquire |-> "enquire_resp", unbind  |-> "unbind_resp",
               deliver |-> "deliver_resp"]

\* generic_nack is the smallest of the response command ids, and the code's
\* "cmd_id() > GenericNack" leaves it out.
Responses ==
    {ResponseOf[c] : c \in DOMAIN ResponseOf} \union {"bind_reject", "garbled_resp"}
Commands  == Requests \union MCRequests \union Responses \union {"generic_nack"}

Pdu    == [cmd : Commands, seq : Nat, ref : Nat]
NoPdu  == [cmd |-> "generic_nack", seq |-> 0, ref |-> 0]
NewPdu(cmd, seq, ref) == [cmd |-> cmd, seq |-> seq, ref |-> ref]
IsResponse(p) == p.cmd \in Responses
Answer(cmd, p) == NewPdu(cmd, p.seq, p.seq)

States == {"OPEN", "BOUND_TX", "BOUND_RX", "BOUND_TRX", "UNBOUND", "CLOSED"}
BoundStates == {"BOUND_TX", "BOUND_RX", "BOUND_TRX"}
\* Where messages are written and submit_sm_resp is looked at: the _rx variants of
\* send4state and process4state know neither.
SendingStates == {"BOUND_TX", "BOUND_TRX"}
\* Mutant: the state no handler sets and none knows.
StateAfterBind_Outbound == "OUTBOUND"

StateAfterBind ==
    CASE BindType = "TX" -> "BOUND_TX" [] BindType = "RX" -> "BOUND_RX"
      [] BindType = "TRX" -> "BOUND_TRX"

TxRecord == [q : [Levels -> Seq(Pdu)],                 \* txQ
             last : [pdu : Pdu, level : Levels],       \* last_pop_object()
             mVal : Nat,                               \* seqNumGen.mVal
             fly : Seq(Pdu)]                           \* pending async_writes

Handlers == {"connect", "header", "body", "write", "close"} \union Timers
Outcomes == {"ok", "eof", "error", "aborted"}
Entry    == [fn : Handlers, err : Outcomes, pdu : Pdu]
Posted(fn, err) == [fn |-> fn, err |-> err, pdu |-> NoPdu]

ThreadIds == {"sender", "main"}
ThreadPcs == {"idle", "send", "close", "look", "lock", "push", "pop", "write", "post",
              "done", "dead"}
IdleThread == [pc |-> "idle", pdu |-> NoPdu, busy |-> FALSE]
LevelOf(t) == IF t = "main" THEN SESSION ELSE MESSAGE

\* No other thread is inside do_write(): the io thread can take writeMutex.
MutexFree == \A t \in ThreadIds : thread[t].pc \notin {"push", "pop", "write"}

-----------------------------------------------------------------------------
(* Writing.  These operators map one TxRecord to the next.                 *)

\* Mutant: the number is read and not used up.
NextSeq_Peeks(t) == t

NextSeq(t) == [t EXCEPT !.mVal = @ + 1]

\* Mutant: off by one.
NeedsSeq_OneMore(p) == p.seq <= SeqMin + 1

\* write_pdu() up to the call of async_write.
NeedsSeq(p) == p.seq <= SeqMin
PopPdu(t) ==
    LET p == Front(t.q) IN
    [t EXCEPT !.q = Pop(@),
              !.last = [pdu |-> IF NeedsSeq(p) THEN [p EXCEPT !.seq = t.mVal] ELSE p,
                        level |-> TopLevel(t.q)],
              !.mVal = IF NeedsSeq(p) THEN @ + 1 ELSE @]

WritePdu(t) == LET u == PopPdu(t) IN [u EXCEPT !.fly = Append(@, u.last.pdu)]

\* Mutant: busy means that a write is under way.
DoWrite_WaitsForWrite(t, p, level) ==
    LET u == [t EXCEPT !.q = Push(@, p, level)] IN
    IF t.fly = <<>> THEN WritePdu(u) ELSE u

DoWrite(t, p, level) ==
    LET u == [t EXCEPT !.q = Push(@, p, level)] IN
    IF IsEmpty(t.q) THEN WritePdu(u) ELSE u

DoBindRequest(t) ==
    DoWrite(NextSeq(t), NewPdu("bind", t.mVal, 0), SESSION)

DoUnbindRequest(t) == DoWrite(t, NewPdu("unbind", SeqMin, 0), SESSION)

\* Asio tries an operation at once, unless others of its kind are pending: on
\* a socket that is not open, not connected or reset it fails immediately.
\* Otherwise it is pending for as long as the peer's flow control likes.
Broken == sock \in {"closed", "refused"} \/ peer = "reset"

WriteBroken == Broken /\ tx.fly = <<>>
ReadBroken  == Broken /\ reads = <<>>

\* async_write of the PDUs that t has added to fly
Transmit(t) ==
    /\ t.mVal <= MaxSeq
    /\ tx' = IF WriteBroken THEN [t EXCEPT !.fly = <<>>] ELSE t

WriteFailures(t) ==
    IF WriteBroken THEN [i \in DOMAIN t.fly |-> Posted("write", "error")] ELSE <<>>

\* async_read
Read(part) == reads' = IF ReadBroken THEN reads ELSE Append(reads, part)
ReadFailure(part) ==
    IF ReadBroken THEN <<Posted(part, "error")>> ELSE <<>>

-----------------------------------------------------------------------------
(* The connection.                                                         *)

\* What closing the socket posts for the operations it cuts short.
Aborted ==
    [i \in DOMAIN reads |-> Posted(reads[i], "aborted")] \o
    (IF sock = "connecting" THEN <<Posted("connect", "aborted")>> ELSE <<>>) \o
    [i \in DOMAIN tx.fly |-> Posted("write", "aborted")]

ConnectionGone ==
    /\ reads' = <<>>
    /\ peer' = "up" /\ inbox' = <<>> /\ mcQ' = {} /\ mcState' = "new"

Connect == sock' = "connecting" /\ attempt' = 1 - attempt

Init ==
    /\ currentState = "CLOSED"
    /\ stopFlag = FALSE /\ reconnectFlag = FALSE
    /\ tx = [q |-> [NoItems EXCEPT ![MESSAGE] =
                      [i \in DOMAIN Backlog |->
                          NewPdu("submit", Backlog[i], NMsg + i)]],
             last |-> [pdu |-> NoPdu, level |-> SESSION],
             mVal |-> SeqMin, fly |-> <<>>]
    /\ w4rQ = {} /\ rxQ = {}
    /\ timers = {"age"}
    /\ ageing = [on |-> FALSE, todo |-> {}]
    /\ ready = <<>> /\ ioRunning = TRUE
    /\ sock = "connecting" /\ attempt = 0
    /\ reads = <<>>
    /\ peer = "up" /\ inbox = <<>> /\ mcQ = {} /\ mcState = "new"
    /\ thread = [t \in ThreadIds |-> IdleThread] /\ nextMsg = 1
    /\ left = [refusals |-> MaxRefusals, drops |-> MaxDrops,
               requests |-> MaxRequests, ticks |-> MaxTicks]

-----------------------------------------------------------------------------
(* The environment: the network, the MC and the clock.                     *)

ConnectSucceeds(n) ==
    /\ sock = "connecting" /\ attempt = n
    /\ sock' = "connected"
    /\ ready' = Append(ready, Posted("connect", "ok"))
    /\ UNCHANGED <<currentState, flagVars, tx, w4rQ, rxQ, timers, ageing,
                   ioRunning, attempt, reads, mcVars, apiVars, left>>

ConnectRefused(n) ==
    /\ left.refusals > 0
    /\ sock = "connecting" /\ attempt = n
    /\ sock' = "refused"
    /\ ready' = Append(ready, Posted("connect", "error"))
    /\ left' = [left EXCEPT !.refusals = @ - 1]
    /\ UNCHANGED <<currentState, flagVars, tx, w4rQ, rxQ, timers, ageing,
                   ioRunning, attempt, reads, mcVars, apiVars>>

\* An async_write completes; the MC keeps the requests it has to answer.
WriteDone ==
    /\ tx.fly # <<>> /\ sock = "connected" /\ peer # "reset"
    /\ tx' = [tx EXCEPT !.fly = Tail(@)]
    /\ ready' = Append(ready, Posted("write", "ok"))
    /\ mcQ' = IF peer = "up" /\ Head(tx.fly).cmd \in Requests
                THEN mcQ \union {Head(tx.fly)} ELSE mcQ
    /\ UNCHANGED <<currentState, flagVars, w4rQ, rxQ, timers, ageing, ioRunning,
                   connVars, reads, peer, inbox, mcState, apiVars, left>>

WriteFails ==
    /\ tx.fly # <<>>
    /\ sock = "refused" \/ (sock = "connected" /\ peer # "up")
    /\ tx' = [tx EXCEPT !.fly = Tail(@)]
    /\ ready' = Append(ready, Posted("write", "error"))
    /\ UNCHANGED <<currentState, flagVars, w4rQ, rxQ, timers, ageing, ioRunning,
                   connVars, reads, mcVars, apiVars, left>>

\* The oldest async_read completes.  With two readers on one socket a header
\* read can meet a body: what it takes for a length then makes the next read
\* wait for bytes that never come, so the stream stops there.
ReadDone ==
    /\ reads # <<>> /\ inbox # <<>> /\ sock = "connected"
    /\ Head(inbox).part = Head(reads)
    /\ reads' = Tail(reads) /\ inbox' = Tail(inbox)
    /\ ready' = Append(ready, [fn |-> Head(reads), err |-> "ok",
                               pdu |-> Head(inbox).pdu])
    /\ UNCHANGED <<currentState, flagVars, tx, w4rQ, rxQ, timers, ageing,
                   ioRunning, connVars, peer, mcQ, mcState, apiVars, left>>

ReadFails ==
    /\ reads # <<>>
    /\ \E err \in {"eof", "error"} :
         /\ \/ err = "eof"   /\ sock = "connected" /\ peer = "eof" /\ inbox = <<>>
            \/ err = "error" /\ sock = "connected" /\ peer = "reset"
            \/ err = "error" /\ sock = "refused"
         /\ ready' = Append(ready, Posted(Head(reads), err))
    /\ reads' = Tail(reads)
    /\ UNCHANGED <<currentState, flagVars, tx, w4rQ, rxQ, timers, ageing,
                   ioRunning, connVars, mcVars, apiVars, left>>

TimerExpires ==
    \E t \in timers \intersect ExpiringTimers :
        /\ Quiet => ready = <<>> /\ peer = "up"
        /\ IF t = "response" \/ sock = "closed"
             THEN UNCHANGED left
             ELSE left.ticks > 0 /\ left' = [left EXCEPT !.ticks = @ - 1]
        /\ timers' = timers \ {t}
        /\ ready' = Append(ready, Posted(t, "ok"))
        /\ UNCHANGED <<currentState, flagVars, tx, w4rQ, rxQ, ageing, ioRunning,
                       connVars, reads, mcVars, apiVars>>

Arrive(p) == inbox' = inbox \o <<[part |-> "header", pdu |-> NoPdu],
                                 [part |-> "body", pdu |-> p]>>

\* The MC answers a request: outside a bound session only a bind and an
\* enquire_link get their own response.
MCAnswers ==
    \E p \in mcQ :
        /\ sock = "connected" /\ peer = "up"
        /\ mcQ' = mcQ \ {p}
        /\ \/ /\ p.cmd \in {"bind", "enquire"} \/ mcState = "bound"
              /\ Arrive(Answer(ResponseOf[p.cmd], p))
              /\ mcState' = CASE p.cmd = "bind"   -> "bound"
                              [] p.cmd = "unbind" -> "unbound"
                              [] OTHER            -> mcState
           \/ /\ p.cmd \notin {"bind", "enquire"} /\ mcState # "bound"
              /\ Arrive(Answer("generic_nack", p))
              /\ UNCHANGED mcState
           \/ /\ MayReject /\ p.cmd = "bind" /\ mcState = "new"
              /\ Arrive(Answer("bind_reject", p))
              /\ UNCHANGED mcState
           \/ /\ "garbled" \in MCSends /\ p.cmd = "submit" /\ mcState = "bound"
              /\ Arrive(Answer("garbled_resp", p))
              /\ UNCHANGED mcState
        /\ UNCHANGED <<currentState, flagVars, tx, w4rQ, rxQ, timers, ageing,
                       ready, ioRunning, connVars, reads, peer, apiVars, left>>

\* The MC sends a request: outbind before it is bound, the others after, and one
\* that cannot be decoded at any time.
MCAsks ==
    \E cmd \in MCSends, seq \in MCSeqs :
        /\ sock = "connected" /\ peer = "up"
        /\ cmd = "garbled" \/ mcState = (IF cmd = "outbind" THEN "new" ELSE "bound")
        /\ left.requests > 0
        /\ left' = [left EXCEPT !.requests = @ - 1]
        /\ Arrive(NewPdu(cmd, seq, left.requests))
        /\ UNCHANGED <<currentState, flagVars, tx, w4rQ, rxQ, timers, ageing,
                       ready, ioRunning, connVars, reads, peer, mcQ, mcState,
                       apiVars>>

\* The MC ends the connection.  A reset loses what was not read; an eof may
\* cut the last PDU after its header.
MCDrops ==
    \E kind \in DropKinds :
        /\ sock = "connected" /\ peer = "up"
        /\ left.drops > 0
        /\ Quiet => /\ currentState \in BoundStates /\ MutexFree
                    /\ tx.fly = <<>> /\ inbox = <<>> /\ ready = <<>>
        /\ left' = [left EXCEPT !.drops = @ - 1]
        /\ peer' = kind
        /\ mcQ' = {} /\ UNCHANGED mcState
        /\ \/ kind = "reset" /\ inbox' = <<>>
           \/ kind = "eof"   /\ UNCHANGED inbox
           \/ /\ kind = "eof" /\ inbox # <<>>
              /\ inbox' = SubSeq(inbox, 1, Len(inbox) - 1)
        /\ UNCHANGED <<currentState, flagVars, tx, w4rQ, rxQ, timers, ageing,
                       ready, ioRunning, connVars, reads, apiVars>>

-----------------------------------------------------------------------------
(* The io thread.  A handler starts from the front of "ready".             *)

Runs(fn, err) ==
    /\ ioRunning /\ ~ageing.on
    /\ ready # <<>> /\ Head(ready).fn = fn /\ Head(ready).err = err

CloseEntry == Posted("close", "ok")

\* Mutant: the parameter is not used.
CloseSession_ForgetsReconnect(re_connect) ==
    LET bound == currentState \in BoundStates
        t     == IF bound THEN DoUnbindRequest(tx) ELSE tx IN
    /\ bound => MutexFree
    /\ reconnectFlag' = FALSE
    /\ Transmit(t)
    /\ ready' = Tail(ready) \o (IF bound THEN WriteFailures(t) ELSE <<>>)
                            \o <<CloseEntry>>

\* Mutant: only a bound session is closed.
CloseSession_OnlyIfBound(re_connect) ==
    LET bound == currentState \in BoundStates
        t     == IF bound THEN DoUnbindRequest(tx) ELSE tx IN
    /\ bound => MutexFree
    /\ reconnectFlag' = re_connect
    /\ Transmit(t)
    /\ ready' = Tail(ready) \o (IF bound THEN WriteFailures(t) \o <<CloseEntry>>
                                         ELSE <<>>)

\* close_session(re_connect)
CloseSession(re_connect) ==
    LET bound == currentState \in BoundStates
        t     == IF bound THEN DoUnbindRequest(tx) ELSE tx IN
    /\ bound => MutexFree
    /\ reconnectFlag' = re_connect
    /\ Transmit(t)
    /\ ready' = Tail(ready) \o (IF bound THEN WriteFailures(t) ELSE <<>>)
                            \o <<CloseEntry>>

\* Mutant: the state is left as it was.
CloseConnection_KeepsState ==
    /\ Runs("close", "ok")
    /\ timers' = {}
    /\ tx' = [tx EXCEPT !.q = ClearSessionQueues(@), !.fly = <<>>]
    /\ ready' = Tail(ready) \o Aborted
    /\ ConnectionGone
    /\ IF ~stopFlag /\ reconnectFlag
         THEN reconnectFlag' = FALSE /\ Connect
         ELSE sock' = "closed" /\ UNCHANGED <<reconnectFlag, attempt>>
    /\ UNCHANGED <<currentState, stopFlag, w4rQ, rxQ, ageing, ioRunning, apiVars,
                   left>>

\* close_connection(): the same for all reasons to close, posted by each.
CloseConnection ==
    /\ Runs("close", "ok")
    /\ currentState' = "CLOSED"
    /\ timers' = {}
    /\ tx' = [tx EXCEPT !.q = ClearSessionQueues(@), !.fly = <<>>]
    /\ ready' = Tail(ready) \o Aborted
    /\ ConnectionGone
    /\ IF ~stopFlag /\ reconnectFlag
         THEN reconnectFlag' = FALSE /\ Connect
         ELSE sock' = "closed" /\ UNCHANGED <<reconnectFlag, attempt>>
    /\ UNCHANGED <<stopFlag, w4rQ, rxQ, ageing, ioRunning, apiVars, left>>

\* handle_connect without an error.  Asio reports an attempt as aborted when
\* the socket is closed by the time its completion is handled.
HandleConnectOk ==
    /\ Runs("connect", "ok") /\ sock # "closed"
    /\ MutexFree
    /\ currentState' = "OPEN"
    /\ LET t == DoBindRequest(tx) IN
         /\ Transmit(t)
         /\ ready' = Tail(ready) \o WriteFailures(t) \o ReadFailure("header")
    /\ Read("header")
    /\ UNCHANGED <<flagVars, w4rQ, rxQ, timers, ageing, ioRunning, connVars,
                   mcVars, apiVars, left>>

\* handle_connect with an error.  async_connect closes the socket first, and
\* with it whatever another attempt has made of it.
HandleConnectError ==
    /\ \/ \E err \in {"error", "aborted"} : Runs("connect", err)
       \/ Runs("connect", "ok") /\ sock = "closed"
    /\ IF stopFlag
         THEN /\ ready' = Tail(ready)
              /\ UNCHANGED <<tx, connVars, reads, mcVars>>
         ELSE /\ tx' = [tx EXCEPT !.fly = <<>>]
              /\ ready' = Tail(ready) \o Aborted
              /\ ConnectionGone
              /\ Connect
    /\ UNCHANGED <<currentState, flagVars, w4rQ, rxQ, timers, ageing, ioRunning,
                   apiVars, left>>

HandleReadHeaderOk ==
    /\ Runs("header", "ok")
    /\ Read("body")
    /\ ready' = Tail(ready) \o ReadFailure("body")
    /\ UNCHANGED <<currentState, flagVars, tx, w4rQ, rxQ, timers, ageing,
                   ioRunning, connVars, mcVars, apiVars, left>>

\* handle_read_header and handle_read_body treat an error alike.
HandleReadError ==
    /\ \E part \in {"header", "body"}, err \in Outcomes \ {"ok"} :
         /\ Runs(part, err)
         /\ \/ /\ stopFlag
               /\ ready' = Tail(ready)
               /\ UNCHANGED <<currentState, reconnectFlag, tx>>
            \/ /\ ~stopFlag /\ err = "eof"
               /\ currentState' = "CLOSED"
               /\ reconnectFlag' = TRUE
               /\ ready' = Append(Tail(ready), CloseEntry)
               /\ UNCHANGED tx
            \/ /\ ~stopFlag /\ err # "eof"
               /\ CloseSession(TRUE)
               /\ UNCHANGED currentState
    /\ UNCHANGED <<stopFlag, w4rQ, rxQ, timers, ageing, ioRunning, connVars,
                   reads, mcVars, apiVars, left>>

\* w4rQ_put and w4rQ_pop
W4rQPut(p) ==
    IF IsResponse(p) THEN w4rQ ELSE {r \in w4rQ : r.seq # p.seq} \union {p}
W4rQPop(p) == IF IsResponse(p) THEN {r \in w4rQ : r.seq # p.seq} ELSE w4rQ

CanSend(awaiting) ==
    Cardinality(awaiting) < W4RLimit /\ currentState \in BoundStates

HandleWriteOk ==
    /\ Runs("write", "ok")
    /\ MutexFree
    /\ w4rQ' = W4rQPut(tx.last.pdu)
    /\ LET t == IF CanSend(w4rQ') /\ ~IsEmpty(tx.q) THEN WritePdu(tx) ELSE tx IN
         /\ Transmit(t)
         /\ ready' = Tail(ready) \o WriteFailures(t)
    /\ UNCHANGED <<currentState, flagVars, rxQ, timers, ageing, ioRunning,
                   connVars, reads, mcVars, apiVars, left>>

HandleWriteError ==
    /\ \E err \in {"error", "aborted"} : Runs("write", err)
    /\ tx' = [tx EXCEPT !.q = PutBack(@, tx.last.pdu, tx.last.level)]
    /\ IF stopFlag
         THEN ready' = Tail(ready) /\ UNCHANGED <<currentState, reconnectFlag>>
         ELSE /\ currentState' = "CLOSED"
              /\ reconnectFlag' = TRUE
              /\ ready' = Append(Tail(ready), CloseEntry)
    /\ UNCHANGED <<stopFlag, w4rQ, rxQ, timers, ageing, ioRunning, connVars,
                   reads, mcVars, apiVars, left>>

(* handle_read_body, one action for each kind of PDU that process4state tells *)
(* apart in the state it is in.                                               *)

Arrived(cmds, states) ==
    /\ Runs("body", "ok")
    /\ Head(ready).pdu.cmd \in cmds /\ currentState \in states

\* What handle_read_body does for every PDU: w4rQ_pop, reschedule_enquire_link,
\* what process4state wrote (t) and posted, and the next read.
ReadNext(t, posts) ==
    /\ w4rQ' = W4rQPop(Head(ready).pdu)
    /\ timers' = (timers \ {"response"}) \union {"enquire"}
    /\ Transmit(t)
    /\ Read("header")
    /\ ready' = Tail(ready) \o WriteFailures(t) \o posts \o ReadFailure("header")
    /\ UNCHANGED <<ageing, ioRunning, connVars, mcVars, apiVars, left>>

Respond(cmd) == DoWrite(tx, Answer(cmd, Head(ready).pdu), RESPONSE)

\* Mutant: command_status is not looked at.
ProcBindResp_IgnoresStatus ==
    /\ Arrived({"bind_resp", "bind_reject"}, {"OPEN"})
    /\ currentState' = StateAfterBind
    /\ ReadNext(tx, <<>>)
    /\ UNCHANGED <<flagVars, rxQ>>

ProcBindResp ==
    /\ Arrived({"bind_resp"}, {"OPEN"})
    /\ currentState' = StateAfterBind
    /\ ReadNext(tx, <<>>)
    /\ UNCHANGED <<flagVars, rxQ>>

ProcEnquireLink ==
    /\ Arrived({"enquire"}, States \ {"CLOSED"})
    /\ MutexFree
    /\ ReadNext(Respond("enquire_resp"), <<>>)
    /\ UNCHANGED <<currentState, flagVars, rxQ>>

ProcDeliverSm ==
    /\ Arrived({"deliver"}, {"BOUND_RX", "BOUND_TRX"})
    /\ MutexFree
    /\ rxQ' = rxQ \union {Head(ready).pdu}
    /\ ReadNext(Respond("deliver_resp"), <<>>)
    /\ UNCHANGED <<currentState, flagVars>>

\* A handler that decodes its PDU throws before it does anything else, and
\* process4state() calls close_session(true).  Every state but CLOSED decodes
\* enquire_links.
ProcGarbled ==
    LET bound == currentState \in BoundStates IN
    /\ \/ Arrived({"garbled"}, States \ {"CLOSED"})
       \/ Arrived({"garbled_resp"}, SendingStates)
    /\ bound => MutexFree
    /\ reconnectFlag' = TRUE
    /\ ReadNext(IF bound THEN DoUnbindRequest(tx) ELSE tx, <<CloseEntry>>)
    /\ UNCHANGED <<currentState, stopFlag, rxQ>>

ProcUnbind ==
    /\ Arrived({"unbind"}, BoundStates)
    /\ MutexFree
    /\ currentState' = "UNBOUND"
    /\ stopFlag' = FALSE /\ reconnectFlag' = TRUE
    /\ ReadNext(Respond("unbind_resp"), <<CloseEntry>>)
    /\ UNCHANGED rxQ

ProcUnbindResp ==
    /\ Arrived({"unbind_resp"}, BoundStates)
    /\ currentState' = "OPEN"
    /\ reconnectFlag' = FALSE
    /\ ReadNext(tx, <<CloseEntry>>)
    /\ UNCHANGED <<stopFlag, rxQ>>

ProcOutbind ==
    /\ Arrived({"outbind"}, {"OPEN"})
    /\ MutexFree
    /\ ReadNext(DoBindRequest(tx), <<>>)
    /\ UNCHANGED <<currentState, flagVars, rxQ>>

\* The empty handlers, and the PDUs a state has no handler for.
ProcNothing ==
    /\ \/ Arrived({"submit_resp", "enquire_resp", "bind_reject", "generic_nack"},
                  States)
       \/ Arrived(Commands, {"CLOSED"})
       \/ Arrived({"bind_resp", "outbind"}, States \ {"OPEN"})
       \/ Arrived({"unbind", "unbind_resp"}, States \ BoundStates)
       \/ Arrived({"deliver"}, States \ {"BOUND_RX", "BOUND_TRX"})
       \/ Arrived({"garbled_resp"}, States \ SendingStates)
    /\ ReadNext(tx, <<>>)
    /\ UNCHANGED <<currentState, flagVars, rxQ>>

-----------------------------------------------------------------------------
(* Timers.                                                                 *)

DoEnquireLink ==
    /\ Runs("enquire", "ok")
    /\ MutexFree
    /\ LET t == DoWrite(NextSeq(tx), NewPdu("enquire", tx.mVal, 0), SESSION) IN
         /\ Transmit(t)
         /\ ready' = Tail(ready) \o WriteFailures(t)
    /\ timers' = timers \union {"response"}
    /\ UNCHANGED <<currentState, flagVars, w4rQ, rxQ, ageing, ioRunning,
                   connVars, reads, mcVars, apiVars, left>>

\* Sets reconnectFlag, and close_session(false) clears it again.
DoEnquireLinkFailure ==
    /\ Runs("response", "ok")
    /\ IF stopFlag
         THEN ready' = Tail(ready) /\ UNCHANGED <<reconnectFlag, tx>>
         ELSE CloseSession(FALSE)
    /\ UNCHANGED <<currentState, stopFlag, w4rQ, rxQ, timers, ageing, ioRunning,
                   connVars, reads, mcVars, apiVars, left>>

\* w4rQ_age_cleanup erases the element its iterator is on and then increments
\* the iterator, so beyond the first expired PDU it may pass over any others.
AgeCleanupBegins ==
    /\ Runs("age", "ok")
    /\ ready' = Tail(ready)
    /\ ageing' = IF w4rQ = {} THEN ageing ELSE [on |-> TRUE, todo |-> w4rQ]
    /\ UNCHANGED <<currentState, flagVars, tx, w4rQ, rxQ, timers, ioRunning,
                   connVars, reads, mcVars, apiVars, left>>

AgeCleanupResends ==
    \E p \in ageing.todo :
        /\ ioRunning /\ MutexFree
        /\ LET t == DoWrite(tx, p, MESSAGE) IN
             Transmit(t) /\ ready' = ready \o WriteFailures(t)
        /\ w4rQ' = {r \in w4rQ : r.seq # p.seq}
        /\ ageing' = [ageing EXCEPT !.todo = {r \in @ : r.seq > p.seq}]
        /\ UNCHANGED <<currentState, flagVars, rxQ, timers, ioRunning, connVars,
                       reads, mcVars, apiVars, left>>

AgeCleanupEnds ==
    /\ ioRunning /\ ageing.on
    /\ ageing' = [on |-> FALSE, todo |-> {}]
    /\ timers' = timers \union {"age"}
    /\ UNCHANGED <<currentState, flagVars, tx, w4rQ, rxQ, ready, ioRunning,
                   connVars, reads, mcVars, apiVars, left>>

\* io_service::run() returns when there is nothing left to wait for.
NoWork == /\ ready = <<>> /\ reads = <<>> /\ tx.fly = <<>> /\ timers = {}
          /\ sock # "connecting" /\ ~ageing.on

RunReturns ==
    /\ ioRunning /\ NoWork
    /\ ioRunning' = FALSE
    /\ UNCHANGED <<currentState, flagVars, tx, w4rQ, rxQ, timers, ageing, ready,
                   connVars, reads, mcVars, apiVars, left>>

-----------------------------------------------------------------------------
(* The sendingProcessor thread and the main thread.                        *)

Goto(t, pc) == thread' = [thread EXCEPT ![t].pc = pc]

\* sendingProcessor() takes the next message while "running" is still set.
TakeMessage ==
    /\ thread["sender"].pc = "idle" /\ thread["main"].pc = "idle"
    /\ nextMsg <= NMsg
    /\ nextMsg' = nextMsg + 1
    /\ thread' = [thread EXCEPT !["sender"] =
                    [@ EXCEPT !.pc = "send", !.pdu = NewPdu("submit", SeqMin, nextMsg)]]
    /\ UNCHANGED <<currentState, flagVars, tx, w4rQ, rxQ, timers, ageing, ready,
                   ioRunning, connVars, reads, mcVars, left>>

\* send_pdu() looks at the state once, and drops what it cannot send.
SendPdu ==
    /\ thread["sender"].pc = "send"
    /\ Goto("sender", IF currentState \in SendingStates THEN "lock" ELSE "idle")
    /\ UNCHANGED <<currentState, flagVars, tx, w4rQ, rxQ, timers, ageing, ready,
                   ioRunning, connVars, reads, mcVars, nextMsg, left>>

\* Mutant: stopFlag is not set.
Stop_KeepsFlag ==
    /\ MayStop /\ thread["main"].pc = "idle"
    /\ Goto("main", "close")
    /\ UNCHANGED <<currentState, flagVars, tx, w4rQ, rxQ, timers, ageing,
                   ready, ioRunning, connVars, reads, mcVars, nextMsg, left>>

\* ~ksmppc() calls stop(): stopFlag = true, then close_session(false).
Stop ==
    /\ MayStop /\ thread["main"].pc = "idle"
    /\ stopFlag' = TRUE
    /\ Goto("main", "close")
    /\ UNCHANGED <<currentState, reconnectFlag, tx, w4rQ, rxQ, timers, ageing,
                   ready, ioRunning, connVars, reads, mcVars, nextMsg, left>>

\* close_session(false) begins: the io thread writes the same flag.
StopClearsReconnect ==
    /\ thread["main"].pc = "close"
    /\ reconnectFlag' = FALSE
    /\ Goto("main", "look")
    /\ UNCHANGED <<currentState, stopFlag, tx, w4rQ, rxQ, timers, ageing, ready,
                   ioRunning, connVars, reads, mcVars, nextMsg, left>>

\* The switch of close_session: the io thread may have changed the state since.
StopClosesSession ==
    /\ thread["main"].pc = "look"
    /\ IF currentState \in BoundStates
         THEN thread' = [thread EXCEPT !["main"] =
                [@ EXCEPT !.pc = "lock", !.pdu = NewPdu("unbind", SeqMin, 0)]]
         ELSE Goto("main", "post")
    /\ UNCHANGED <<currentState, flagVars, tx, w4rQ, rxQ, timers, ageing, ready,
                   ioRunning, connVars, reads, mcVars, nextMsg, left>>

StopPosts ==
    /\ thread["main"].pc = "post"
    /\ ready' = Append(ready, CloseEntry)
    /\ Goto("main", "done")
    /\ UNCHANGED <<currentState, flagVars, tx, w4rQ, rxQ, timers, ageing,
                   ioRunning, connVars, reads, mcVars, nextMsg, left>>

\* do_write() of these threads, step by step: lock and look, push, pop, write.
DoWriteLocks(t) ==
    /\ thread[t].pc = "lock" /\ MutexFree
    /\ thread' = [thread EXCEPT ![t].pc = "push", ![t].busy = ~IsEmpty(tx.q)]
    /\ UNCHANGED <<currentState, flagVars, tx, w4rQ, rxQ, timers, ageing, ready,
                   ioRunning, connVars, reads, mcVars, nextMsg, left>>

Returns(t) == IF t = "main" THEN "post" ELSE "idle"

DoWritePushes(t) ==
    /\ thread[t].pc = "push"
    /\ tx' = [tx EXCEPT !.q = Push(@, thread[t].pdu, LevelOf(t))]
    /\ Goto(t, IF thread[t].busy THEN Returns(t) ELSE "pop")
    /\ UNCHANGED <<currentState, flagVars, w4rQ, rxQ, timers, ageing, ready,
                   ioRunning, connVars, reads, mcVars, nextMsg, left>>

DoWritePops(t) ==
    /\ thread[t].pc = "pop" /\ ~IsEmpty(tx.q)
    /\ PopPdu(tx).mVal <= MaxSeq
    /\ tx' = PopPdu(tx)
    /\ thread' = [thread EXCEPT ![t].pc = "write", ![t].pdu = tx'.last.pdu]
    /\ UNCHANGED <<currentState, flagVars, w4rQ, rxQ, timers, ageing, ready,
                   ioRunning, connVars, reads, mcVars, nextMsg, left>>

\* pop() of an empty queue is a null pointer, and write_pdu follows it.
DoWriteCrashes(t) ==
    /\ thread[t].pc = "pop" /\ IsEmpty(tx.q)
    /\ thread' = [s \in ThreadIds |-> [thread[s] EXCEPT !.pc = "dead"]]
    /\ ioRunning' = FALSE
    /\ UNCHANGED <<currentState, flagVars, tx, w4rQ, rxQ, timers, ageing, ready,
                   connVars, reads, mcVars, nextMsg, left>>

DoWriteWrites(t) ==
    /\ thread[t].pc = "write"
    /\ LET u == [tx EXCEPT !.fly = Append(@, thread[t].pdu)] IN
         Transmit(u) /\ ready' = ready \o WriteFailures(u)
    /\ Goto(t, Returns(t))
    /\ UNCHANGED <<currentState, flagVars, w4rQ, rxQ, timers, ageing, ioRunning,
                   connVars, reads, mcVars, nextMsg, left>>

-----------------------------------------------------------------------------

Network == \/ \E n \in {0, 1} : ConnectSucceeds(n) \/ ConnectRefused(n)
           \/ WriteDone \/ WriteFails \/ ReadDone \/ ReadFails
MessageCentre == MCAnswers \/ MCAsks \/ MCDrops

IoThread ==
    \/ CloseConnection \/ HandleConnectOk \/ HandleConnectError
    \/ HandleReadHeaderOk \/ HandleReadError \/ HandleWriteOk \/ HandleWriteError
    \/ ProcBindResp \/ ProcEnquireLink \/ ProcDeliverSm \/ ProcGarbled
    \/ ProcUnbind \/ ProcUnbindResp \/ ProcOutbind \/ ProcNothing
    \/ DoEnquireLink \/ DoEnquireLinkFailure
    \/ AgeCleanupBegins \/ AgeCleanupResends \/ AgeCleanupEnds
    \/ RunReturns

OtherThread(t) ==
    \/ DoWriteLocks(t) \/ DoWritePushes(t) \/ DoWritePops(t) \/ DoWriteCrashes(t)
    \/ DoWriteWrites(t)

OtherThreads ==
    \/ TakeMessage \/ SendPdu
    \/ Stop \/ StopClearsReconnect \/ StopClosesSession \/ StopPosts
    \/ \E t \in ThreadIds : OtherThread(t)

Next == Network \/ MessageCentre \/ TimerExpires \/ IoThread \/ OtherThreads

Spec == Init /\ [][Next]_vars

-----------------------------------------------------------------------------
(* Safety.                                                                 *)

TypeOK ==
    /\ currentState \in States
    /\ stopFlag \in BOOLEAN /\ reconnectFlag \in BOOLEAN
    /\ tx \in TxRecord
    /\ w4rQ \subseteq Pdu /\ rxQ \subseteq Pdu
    /\ timers \subseteq Timers
    /\ ageing \in [on : BOOLEAN, todo : SUBSET Pdu]
    /\ ready \in Seq(Entry)
    /\ ioRunning \in BOOLEAN
    /\ sock \in {"closed", "connecting", "connected", "refused"}
    /\ attempt \in {0, 1}
    /\ reads \in Seq({"header", "body"})
    /\ peer \in {"up", "eof", "reset"}
    /\ inbox \in Seq([part : {"header", "body"}, pdu : Pdu])
    /\ mcQ \subseteq {p \in Pdu : p.cmd \in Requests}
    /\ mcState \in {"new", "bound", "unbound"}
    /\ thread \in [ThreadIds -> [pc : ThreadPcs, pdu : Pdu, busy : BOOLEAN]]
    /\ nextMsg \in Nat
    /\ left \in [refusals : Nat, drops : Nat, requests : Nat, ticks : Nat]

\* A session whose state is not CLOSED has a socket that is not closed, in every
\* order of connection attempts, late completions and close_connection()s.  The
\* socket may be another one than the one that was opened: it may be connecting.
SocketBehindSession == currentState # "CLOSED" => sock # "closed"

\* The requests the session holds: queued, in flight, waiting for a response,
\* last popped, held by a thread or by the MC.
Held == Items(tx.q) \union {tx.fly[i] : i \in DOMAIN tx.fly} \union {tx.last.pdu}
        \union w4rQ \union ageing.todo \union mcQ
        \union {thread[t].pdu : t \in ThreadIds}
Numbered == {p \in Held : ~IsResponse(p) /\ p.seq > SeqMin}

\* A sequence number identifies a request: two requests that carry the same
\* number are one request, wherever retries, put-backs, resends and the two
\* threads that number PDUs have taken them.  A response can thus never be
\* taken for the response to another request.
SeqIdentifiesRequest == \A p, r \in Numbered : p.seq = r.seq => p = r

\* What w4rQ_pop erases is the request that was answered: a response that is
\* on its way or read has the type of the request w4rQ has under its number.
ResponsesUnread ==
    {inbox[i].pdu : i \in DOMAIN inbox} \union {ready[i].pdu : i \in DOMAIN ready}
AnswersMatch ==
    \A a \in {p \in ResponsesUnread : IsResponse(p)}, r \in w4rQ :
        a.seq = r.seq => \/ a.cmd = ResponseOf[r.cmd]
                         \/ a.cmd = "bind_reject" /\ r.cmd = "bind"
                         \/ a.cmd = "garbled_resp" /\ r.cmd = "submit"

\* The session listens: while it is open and not being stopped, a read is
\* pending or its completion, or the end of the session, is queued.
KeepsListening ==
    currentState # "CLOSED" /\ ~stopFlag =>
        \/ reads # <<>>
        \/ \E i \in DOMAIN ready : ready[i].fn \in {"header", "body", "close"}

\* The session as SmppLink sees it.
linkState == IF currentState \in BoundStates THEN "BOUND" ELSE currentState
linkConn == IF sock = "connected" THEN "up"
            ELSE IF sock = "closed" THEN "closed" ELSE "connecting"
linkAccepted == \E p \in ResponsesUnread : p.cmd = "bind_resp"

Link == INSTANCE SmppLink
          WITH state <- linkState, conn <- linkConn, accepted <- linkAccepted

\* The session keeps the promise of SmppLink: seen from outside it is bound only
\* by a bind that the MC accepted over a connection that was up, and unbound or
\* failed only from where the protocol allows it.
ImplementsLink == Link!Spec

\* "if the queue is not empty, we are busy writing" (session_manager.cpp:358):
\* then a write is under way or its completion is queued, so that handle_write
\* will come back for the rest, unless the session is closed or about to be.
QueueMeansBusy ==
    currentState # "CLOSED" /\ ~IsEmpty(tx.q) =>
        \/ ~MutexFree \/ tx.fly # <<>>
        \/ \E i \in DOMAIN ready : ready[i].fn \in {"write", "close"}

\* A response goes out under the number of the request it answers, for every
\* number that write_pdu does not take for "not numbered yet".
ResponsesKeepNumber ==
    \A p \in Items(tx.q) \union {tx.fly[i] : i \in DOMAIN tx.fly} :
        IsResponse(p) /\ p.ref > SeqMin => p.seq = p.ref

\* When sendingProcessor pops (session_manager.cpp:371) a message is there, since
\* a close_connection() between its push and its pop clears the other levels only:
\* the pop() of an empty queue is left to stop(), whose unbind can be cleared.
SenderFindsMessage == thread["sender"].pc = "pop" => tx.q[MESSAGE] # <<>>

\* The session is not given up: unless it is told to stop there is always
\* something that will call the io thread back.
NeverAbandoned == ~stopFlag => ioRunning

\* "here, because it's the only point at wich we know that a PDU was
\* successfully sent" (session_manager.cpp:319): what handle_write puts in w4rQ
\* has been sent.
W4rOnlySent ==
    \A p \in w4rQ : \A i \in DOMAIN tx.fly : tx.fly[i] # p

-----------------------------------------------------------------------------
(* Liveness.                                                               *)

\* Every thread that can run does, a connection attempt that is left alone ends,
\* the network delivers, and the MC answers what it is asked.  A timer expires
\* unless it is cancelled; nothing makes the MC or stop() do more.
Fairness ==
    /\ WF_vars(IoThread) /\ WF_vars(TakeMessage \/ SendPdu)
    /\ WF_vars(StopClearsReconnect \/ StopClosesSession \/ StopPosts)
    /\ \A t \in ThreadIds : WF_vars(OtherThread(t))
    /\ \A n \in {0, 1} : WF_vars(ConnectSucceeds(n) \/ ConnectRefused(n))
    /\ WF_vars(WriteDone \/ WriteFails) /\ WF_vars(ReadDone \/ ReadFails)
    /\ WF_vars(MCAnswers)
    /\ WF_vars(TimerExpires)

FairSpec == Spec /\ Fairness

\* The session comes back: whenever it is closed and not told to stop, it is
\* bound again some time later.
Rebinds ==
    currentState = "CLOSED" /\ ~stopFlag ~> currentState \in BoundStates \/ stopFlag

\* No handler takes more than two numbers: below this MaxSeq cuts nothing off.
OutOfNumbers == tx.mVal + 2 > MaxSeq

\* stop() returns and ends the session: its do_write() and close_session() come
\* to an end, and the io thread then runs out of work, so that ~ksmppc() can join
\* it.  A process that dies of a null pointer in stop() has done neither.
StopEnds ==
    thread["main"].pc # "idle" ~>
        (thread["main"].pc = "done" /\ ~ioRunning) \/ OutOfNumbers

=============================================================================
