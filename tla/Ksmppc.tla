------------------------------- MODULE Ksmppc -------------------------------
(***************************************************************************)
(* The gateway process (ksmppc.cpp, handler_send.cpp): the server thread   *)
(* that takes "send" requests from applications, the sendingProcessor      *)
(* thread that hands them to the session, the recieveProcessor thread that *)
(* forwards what the session received to an application, and the main      *)
(* thread that takes all of them down.  The session is the one SmppLink    *)
(* promises, which SessionManager implements.                              *)
(*                                                                         *)
(* The kisscpp server, client and persisted queues are not part of the     *)
(* repository; what they do is taken from the calls: the three buffers are *)
(* FIFO and outlive the process, a client call returns or throws one of    *)
(* the two exceptions the code catches, the application having received    *)
(* the message or not.  Each buffer has one thread that pops from it.      *)
(***************************************************************************)
EXTENDS Naturals, Sequences, Functions

CONSTANTS
    BindTypes,    \* the values of smpp-session.bind-type that are considered
    NSend,        \* bound: send requests of the applications, 1 .. NSend
    NDeliver      \* bound: deliver_sm PDUs of the MC, 1 .. NDeliver

ASSUME GatewayAssumption ==
    /\ BindTypes \subseteq {"TX", "RX", "TRX"}
    /\ {NSend, NDeliver} \subseteq Nat

VARIABLES
    bindType,      \* the configured bind-type
    running,       \* the flag of the same name
    main,          \* how far ~ksmppc() is
    ioRunning,     \* sessionIoService.run() has not returned
    state, conn, accepted,  \* the session, see SmppLink
    mcAccepted,    \* history: the MC accepted a bind of this process
    nextSend,      \* the next request
    failed,        \* requests that were answered with an error message
    sendingBuffer,
    sender,        \* the thread of sendingProcessor()
    txQ,           \* history: messages the session took, in order
    dropped,       \* history: messages send_pdu() had no use for
    nextDeliver,   \* the next deliver_sm
    recieveBuffer,
    receiver,      \* the thread of recieveProcessor()
    rcv_errBuffer, \* nothing ever pops from it: a set
    done,          \* history: deliveries whose client call returned
    received,      \* history: deliveries the application has seen
    retried        \* history: deliveries pushed back to recieveBuffer

linkVars == <<state, conn, accepted, mcAccepted>>
mainVars == <<bindType, running, main, ioRunning>>
sendVars == <<nextSend, failed, sendingBuffer, sender, txQ, dropped>>
receiveVars == <<nextDeliver, recieveBuffer, receiver, rcv_errBuffer, done,
                 received, retried>>
vars == <<linkVars, mainVars, sendVars, receiveVars>>

Session == INSTANCE SmppLink

Requests   == 1 .. NSend
Deliveries == 1 .. NDeliver
None       == 0
Thread(Msgs) == [pc : {"loop", "tested", "use", "exited"}, msg : Msgs \union {None}]
NewThread  == [pc |-> "loop", msg |-> None]
\* The thread is inside the loop: it has found running set.
InLoop     == [pc |-> "tested", msg |-> None]
\* What a thread has popped and not yet passed on.
Hand(thread) == {thread.msg} \ {None}

Init ==
    /\ bindType \in BindTypes
    /\ running = TRUE /\ main = "serving" /\ ioRunning = TRUE
    /\ Session!Init /\ mcAccepted = FALSE
    /\ nextSend = 1 /\ failed = {}
    /\ sendingBuffer = <<>> /\ sender = NewThread /\ txQ = <<>> /\ dropped = {}
    /\ nextDeliver = 1
    /\ recieveBuffer = <<>> /\ receiver = NewThread
    /\ rcv_errBuffer = {} /\ done = {} /\ received = {} /\ retried = {}

-----------------------------------------------------------------------------
(* The session and its io thread.                                          *)

SessionSteps ==
    /\ ioRunning
    /\ Session!Next
    /\ mcAccepted' = (mcAccepted \/ accepted')
    /\ UNCHANGED <<mainVars, sendVars, receiveVars>>

\* Mutant: a delivery is pushed ahead of the older ones.
Deliver_PushesFront ==
    /\ ioRunning /\ state = "BOUND" /\ bindType # "TX"
    /\ nextDeliver <= NDeliver
    /\ nextDeliver' = nextDeliver + 1
    /\ recieveBuffer' = <<nextDeliver>> \o recieveBuffer
    /\ UNCHANGED <<linkVars, mainVars, sendVars, receiver, rcv_errBuffer, done,
                   received, retried>>

\* The session's handler of a deliver_sm: rxQ is recieveBuffer.
Deliver ==
    /\ ioRunning /\ state = "BOUND" /\ bindType # "TX"
    /\ nextDeliver <= NDeliver
    /\ nextDeliver' = nextDeliver + 1
    /\ recieveBuffer' = Append(recieveBuffer, nextDeliver)
    /\ UNCHANGED <<linkVars, mainVars, sendVars, receiver, rcv_errBuffer, done,
                   received, retried>>

\* io_service::run() returns after stop() (SessionManager!StopEnds), and also
\* when the session has given itself up (SessionManager!NeverAbandoned fails).
SessionStops ==
    /\ ioRunning /\ main = "joining"
    /\ ioRunning' = FALSE /\ state' = "CLOSED" /\ conn' = "closed" /\ accepted' = FALSE
    /\ UNCHANGED <<mcAccepted, bindType, running, main, sendVars, receiveVars>>

SessionGivesUp ==
    /\ ioRunning /\ state = "CLOSED" /\ conn = "closed"
    /\ ioRunning' = FALSE
    /\ UNCHANGED <<bindType, running, main, linkVars, sendVars, receiveVars>>

-----------------------------------------------------------------------------
(* SendHandler::run                                                        *)

\* registerHandlers(): a session that only receives has no handler for requests.
HasSendHandler == bindType # "RX"

\* The server answers until ~ksmppc() has called stop().  A request that lacks a
\* mandatory parameter is answered with an error message and not queued; the
\* status of every answer is RQST_SUCCESS.
SendHandler ==
    /\ main \in {"serving", "stopping"} /\ HasSendHandler
    /\ nextSend <= NSend
    /\ nextSend' = nextSend + 1
    /\ \/ failed' = failed \union {nextSend} /\ UNCHANGED sendingBuffer
       \/ sendingBuffer' = Append(sendingBuffer, nextSend) /\ UNCHANGED failed
    /\ UNCHANGED <<linkVars, mainVars, sender, txQ, dropped, receiveVars>>

-----------------------------------------------------------------------------
(* sendingProcessor()                                                      *)

SenderTests ==
    /\ sender.pc = "loop" /\ running
    /\ sender' = InLoop
    /\ UNCHANGED <<linkVars, mainVars, nextSend, failed, sendingBuffer, txQ,
                   dropped, receiveVars>>

\* With an empty buffer the thread sleeps and tests running again.
SenderSleeps ==
    /\ sender.pc = "tested" /\ sendingBuffer = <<>>
    /\ sender' = NewThread
    /\ UNCHANGED <<linkVars, mainVars, nextSend, failed, sendingBuffer, txQ,
                   dropped, receiveVars>>

SenderTakes ==
    /\ sender.pc = "tested" /\ sendingBuffer # <<>>
    /\ sender' = [pc |-> "use", msg |-> Head(sendingBuffer)]
    /\ sendingBuffer' = Tail(sendingBuffer)
    /\ UNCHANGED <<linkVars, mainVars, nextSend, failed, txQ, dropped, receiveVars>>

SenderExits ==
    /\ sender.pc = "loop" /\ ~running
    /\ sender' = [pc |-> "exited", msg |-> None]
    /\ UNCHANGED <<linkVars, mainVars, nextSend, failed, sendingBuffer, txQ,
                   dropped, receiveVars>>

\* Mutant: a message that cannot be sent goes back to the buffer.
SenderSends_PutsBack ==
    /\ sender.pc = "use"
    /\ IF state = "BOUND" /\ bindType # "RX"
         THEN txQ' = Append(txQ, sender.msg) /\ UNCHANGED sendingBuffer
         ELSE sendingBuffer' = Append(sendingBuffer, sender.msg) /\ UNCHANGED txQ
    /\ sender' = NewThread
    /\ UNCHANGED <<linkVars, mainVars, nextSend, failed, dropped, receiveVars>>

\* send_pdu(): what the session's state has no use for is dropped.
SenderSends ==
    /\ sender.pc = "use"
    /\ IF state = "BOUND" /\ bindType # "RX"
         THEN txQ' = Append(txQ, sender.msg) /\ UNCHANGED dropped
         ELSE dropped' = dropped \union {sender.msg} /\ UNCHANGED txQ
    /\ sender' = NewThread
    /\ UNCHANGED <<linkVars, mainVars, nextSend, failed, sendingBuffer, receiveVars>>

-----------------------------------------------------------------------------
(* recieveProcessor()                                                      *)

ReceiverTests ==
    /\ receiver.pc = "loop" /\ running
    /\ receiver' = InLoop
    /\ UNCHANGED <<linkVars, mainVars, sendVars, nextDeliver, recieveBuffer,
                   rcv_errBuffer, done, received, retried>>

ReceiverSleeps ==
    /\ receiver.pc = "tested" /\ recieveBuffer = <<>>
    /\ receiver' = NewThread
    /\ UNCHANGED <<linkVars, mainVars, sendVars, nextDeliver, recieveBuffer,
                   rcv_errBuffer, done, received, retried>>

ReceiverTakes ==
    /\ receiver.pc = "tested" /\ recieveBuffer # <<>>
    /\ receiver' = [pc |-> "use", msg |-> Head(recieveBuffer)]
    /\ recieveBuffer' = Tail(recieveBuffer)
    /\ UNCHANGED <<linkVars, mainVars, sendVars, nextDeliver, rcv_errBuffer, done,
                   received, retried>>

ReceiverExits ==
    /\ receiver.pc = "loop" /\ ~running
    /\ receiver' = [pc |-> "exited", msg |-> None]
    /\ UNCHANGED <<linkVars, mainVars, sendVars, nextDeliver, recieveBuffer,
                   rcv_errBuffer, done, received, retried>>

\* The kisscpp::client call ends.
ClientCallEnds ==
    /\ receiver.pc = "use"
    /\ receiver' = NewThread
    /\ UNCHANGED <<linkVars, mainVars, sendVars, nextDeliver>>

\* When it fails, the application has received the message or not.
MayBeReceived == received' \in {received, received \union {receiver.msg}}

Forwards ==
    /\ ClientCallEnds
    /\ received' = received \union {receiver.msg}
    /\ done' = done \union {receiver.msg}
    /\ UNCHANGED <<recieveBuffer, rcv_errBuffer, retried>>

\* Mutant: the message is tried again before all others.
RetryableFailure_PushesFront ==
    /\ ClientCallEnds /\ MayBeReceived
    /\ recieveBuffer' = <<receiver.msg>> \o recieveBuffer
    /\ retried' = retried \union {receiver.msg}
    /\ UNCHANGED <<rcv_errBuffer, done>>

\* Mutant: the pointer has been given away by then.
RetryableFailure_PushesNull ==
    /\ ClientCallEnds /\ MayBeReceived
    /\ recieveBuffer' = Append(recieveBuffer, None)
    /\ retried' = retried \union {receiver.msg}
    /\ UNCHANGED <<rcv_errBuffer, done>>

RetryableFailure ==
    /\ ClientCallEnds /\ MayBeReceived
    /\ recieveBuffer' = Append(recieveBuffer, receiver.msg)
    /\ retried' = retried \union {receiver.msg}
    /\ UNCHANGED <<rcv_errBuffer, done>>

\* Mutant: the message is pushed to both buffers.
PermanentFailure_AlsoRetries ==
    /\ ClientCallEnds /\ MayBeReceived
    /\ rcv_errBuffer' = rcv_errBuffer \union {receiver.msg}
    /\ recieveBuffer' = Append(recieveBuffer, receiver.msg)
    /\ UNCHANGED <<done, retried>>

PermanentFailure ==
    /\ ClientCallEnds /\ MayBeReceived
    /\ rcv_errBuffer' = rcv_errBuffer \union {receiver.msg}
    /\ UNCHANGED <<recieveBuffer, done, retried>>

-----------------------------------------------------------------------------
(* The main thread: run() returns, and then ~ksmppc() line by line.        *)

\* Mutant: the flag stays set.
BeginsDestructor_KeepsRunning ==
    /\ main = "serving"
    /\ main' = "stopping" /\ UNCHANGED running
    /\ UNCHANGED <<bindType, ioRunning, linkVars, sendVars, receiveVars>>

BeginsDestructor ==
    /\ main = "serving"
    /\ main' = "stopping" /\ running' = FALSE
    /\ UNCHANGED <<bindType, ioRunning, linkVars, sendVars, receiveVars>>

\* stop(), then session->stop()
StopsServer ==
    /\ main = "stopping" /\ main' = "deaf"
    /\ UNCHANGED <<bindType, running, ioRunning, linkVars, sendVars, receiveVars>>

StopsSession ==
    /\ main = "deaf" /\ main' = "joining"
    /\ UNCHANGED <<bindType, running, ioRunning, linkVars, sendVars, receiveVars>>

\* Mutant: only the session's thread is waited for.
JoinsAll_SessionOnly ==
    /\ main = "joining" /\ main' = "gone"
    /\ ~ioRunning
    /\ UNCHANGED <<bindType, running, ioRunning, linkVars, sendVars, receiveVars>>

\* threadGroup.join_all()
JoinsAll ==
    /\ main = "joining" /\ main' = "gone"
    /\ ~ioRunning /\ sender.pc = "exited" /\ receiver.pc = "exited"
    /\ UNCHANGED <<bindType, running, ioRunning, linkVars, sendVars, receiveVars>>

\* The process is started again and finds its buffers.
Restarts ==
    /\ main = "gone"
    /\ running' = TRUE /\ main' = "serving" /\ ioRunning' = TRUE
    /\ state' = "CLOSED" /\ conn' = "connecting" /\ accepted' = FALSE
    /\ mcAccepted' = FALSE
    /\ sender' = NewThread /\ receiver' = NewThread
    /\ UNCHANGED <<bindType, nextSend, failed, sendingBuffer, txQ, dropped,
                   nextDeliver, recieveBuffer, rcv_errBuffer, done, received,
                   retried>>

-----------------------------------------------------------------------------

Sender   == SenderTests \/ SenderSleeps \/ SenderTakes \/ SenderSends \/ SenderExits
Receiver ==
    \/ ReceiverTests \/ ReceiverSleeps \/ ReceiverTakes \/ ReceiverExits
    \/ Forwards \/ RetryableFailure \/ PermanentFailure
Destructor == StopsServer \/ StopsSession \/ JoinsAll

Next ==
    \/ SessionSteps \/ Deliver \/ SessionStops \/ SessionGivesUp
    \/ SendHandler \/ Sender \/ Receiver
    \/ BeginsDestructor \/ Destructor \/ Restarts

Spec == Init /\ [][Next]_vars

\* The threads run, a client call ends (it has a timeout of 5 seconds), and the
\* session ends after stop().  Nothing makes applications, the MC or main act.
Fairness ==
    /\ WF_vars(Sender) /\ WF_vars(Receiver)
    /\ WF_vars(Destructor) /\ WF_vars(SessionStops)

FairSpec == Spec /\ Fairness

-----------------------------------------------------------------------------

TypeOK ==
    /\ bindType \in BindTypes
    /\ running \in BOOLEAN /\ ioRunning \in BOOLEAN
    /\ main \in {"serving", "stopping", "deaf", "joining", "gone"}
    /\ Session!LinkTypeOK /\ mcAccepted \in BOOLEAN
    /\ nextSend \in 1 .. NSend + 1 /\ failed \subseteq Requests
    /\ sendingBuffer \in Seq(Requests) /\ sender \in Thread(Requests)
    /\ txQ \in Seq(Requests) /\ dropped \subseteq Requests
    /\ nextDeliver \in 1 .. NDeliver + 1
    /\ recieveBuffer \in Seq(Deliveries) /\ receiver \in Thread(Deliveries)
    /\ rcv_errBuffer \subseteq Deliveries /\ done \subseteq Deliveries
    /\ received \subseteq Deliveries /\ retried \subseteq Deliveries

\* The places, taken together, hold all of S, and no two of them the same element.
Shared(S, Places) ==
    /\ UNION Range(Places) = S
    /\ \A i, j \in DOMAIN Places : i # j => Places[i] \intersect Places[j] = {}

\* Every request the server answered without an error message is in one place
\* and once: waiting, in the sender's hand, taken by the session, or dropped by
\* send_pdu(); through shutdowns and restarts.  One that was answered with an
\* error message is nowhere.
RequestsKept ==
    /\ Shared(1 .. nextSend - 1,
              <<failed, Range(sendingBuffer), Hand(sender), Range(txQ), dropped>>)
    /\ IsInjective(sendingBuffer) /\ IsInjective(txQ)

\* Every deliver_sm that the session acknowledged to the MC is in one place and
\* once: waiting, in the receiver's hand, given up to rcv_errBuffer, or done,
\* whatever the client calls end with, through shutdowns and restarts.
DeliveriesKept ==
    /\ Shared(1 .. nextDeliver - 1,
              <<Range(recieveBuffer), Hand(receiver), rcv_errBuffer, done>>)
    /\ IsInjective(recieveBuffer)

\* Messages reach the session in the order of their requests, with gaps where
\* send_pdu() has dropped one.
SubmittedInOrder ==
    /\ \A i, j \in DOMAIN txQ : i < j => txQ[i] < txQ[j]
    /\ \A m \in Range(txQ) \union dropped :
         \A n \in Hand(sender) \union Range(sendingBuffer) : m < n

\* A delivery is overtaken only when a client call for it has failed: the
\* application has seen a younger one and this one is still to come.
OvertakenOnlyByRetry ==
    \A m, n \in 1 .. nextDeliver - 1 :
        m < n /\ n \in received /\ m \in Range(recieveBuffer) \union Hand(receiver)
            => m \in retried

\* The session takes no message and acknowledges no delivery before the MC has
\* accepted a bind of this process: what SmppLink is for.
NoTrafficBeforeBind ==
    [][Len(txQ') > Len(txQ) \/ nextDeliver' > nextDeliver => mcAccepted]_vars

\* ~ksmppc() returns once the session has ended: neither thread can miss the flag,
\* hang on a message or wait for the session.
DestructorReturns == main = "stopping" ~> main = "gone"

\* No delivery waits for ever behind another one, however often that one fails.
EveryDeliveryIsTried ==
    \A m \in Deliveries :
        m \in Range(recieveBuffer) ~> receiver.msg = m \/ ~running

=============================================================================
