---------------------------- MODULE Ksmppc_proof ----------------------------
(***************************************************************************)
(* The proofs about the gateway: no message is lost, doubled or overtaken  *)
(* between the applications and the session, for every bind type, every    *)
(* number of messages and every failure of a client call.                  *)
(***************************************************************************)
EXTENDS Ksmppc, SequenceTheorems, TLAPS

-----------------------------------------------------------------------------
(* The buffers as sequences: pushing at the end and popping in front.      *)

Increasing(s) == \A i, j \in DOMAIN s : i < j => s[i] < s[j]

\* What stands behind something younger has been retried.
RetriedBehind(s, r) == \A i, j \in DOMAIN s : i < j /\ s[j] < s[i] => s[j] \in r

\* Pushing a new message adds it and keeps a buffer without duplicates.
LEMMA PushLast ==
    ASSUME NEW S, NEW s \in Seq(S), NEW e \in S
    PROVE  /\ Append(s, e) \in Seq(S)
           /\ Range(Append(s, e)) = Range(s) \union {e}
           /\ IsInjective(s) /\ e \notin Range(s) => IsInjective(Append(s, e))
<1>1. /\ Append(s, e) \in Seq(S) /\ Len(Append(s, e)) = Len(s) + 1
      /\ \A i \in 1 .. Len(s) : Append(s, e)[i] = s[i]
      /\ Append(s, e)[Len(s) + 1] = e
  BY AppendProperties
<1>2. /\ Len(s) \in Nat /\ DOMAIN s = 1 .. Len(s)
      /\ DOMAIN Append(s, e) = 1 .. Len(s) + 1
  BY <1>1, LenProperties
<1>3. Range(Append(s, e)) = Range(s) \union {e}
  BY <1>1, <1>2 DEF Range
<1>4. ASSUME IsInjective(s), e \notin Range(s)
      PROVE  IsInjective(Append(s, e))
  BY <1>1, <1>2, <1>4 DEF Range, IsInjective
<1>5. QED
  BY <1>1, <1>3, <1>4

\* Pushing something greater keeps a buffer in order.
LEMMA PushGreater ==
    ASSUME NEW S, NEW s \in Seq(S), NEW e \in S, Increasing(s),
           \A m \in Range(s) : m < e
    PROVE  Increasing(Append(s, e))
<1>1. /\ Append(s, e) \in Seq(S) /\ Len(Append(s, e)) = Len(s) + 1
      /\ \A i \in 1 .. Len(s) : Append(s, e)[i] = s[i]
      /\ Append(s, e)[Len(s) + 1] = e
  BY AppendProperties
<1>2. /\ Len(s) \in Nat /\ DOMAIN s = 1 .. Len(s)
      /\ DOMAIN Append(s, e) = 1 .. Len(s) + 1
  BY <1>1, LenProperties
<1>3. QED
  BY <1>1, <1>2 DEF Range, Increasing

\* Pushing what is the youngest, or is now retried.
LEMMA PushRetried ==
    ASSUME NEW S, NEW s \in Seq(S), NEW e \in S, NEW r, NEW q,
           RetriedBehind(s, r), r \subseteq q,
           e \in q \/ \A m \in Range(s) : ~(e < m)
    PROVE  RetriedBehind(Append(s, e), q)
<1>1. /\ Append(s, e) \in Seq(S) /\ Len(Append(s, e)) = Len(s) + 1
      /\ \A i \in 1 .. Len(s) : Append(s, e)[i] = s[i]
      /\ Append(s, e)[Len(s) + 1] = e
  BY AppendProperties
<1>2. /\ Len(s) \in Nat /\ DOMAIN s = 1 .. Len(s)
      /\ DOMAIN Append(s, e) = 1 .. Len(s) + 1
  BY <1>1, LenProperties
<1>3. QED
  BY <1>1, <1>2 DEF Range, RetriedBehind

\* Popping takes the first message out of the buffer and leaves the others.
LEMMA PopFirst ==
    ASSUME NEW S, NEW s \in Seq(S), s # <<>>
    PROVE  /\ Head(s) \in S /\ Tail(s) \in Seq(S)
           /\ Range(s) = {Head(s)} \union Range(Tail(s))
           /\ IsInjective(s) => IsInjective(Tail(s)) /\ Head(s) \notin Range(Tail(s))
<1>1. /\ Head(s) \in S /\ Tail(s) \in Seq(S) /\ Len(Tail(s)) = Len(s) - 1
      /\ \A i \in 1 .. Len(Tail(s)) : Tail(s)[i] = s[i + 1]
  BY HeadTailProperties
<1>2. /\ Len(s) \in Nat \ {0} /\ DOMAIN s = 1 .. Len(s)
      /\ DOMAIN Tail(s) = 1 .. Len(s) - 1
  BY <1>1, LenProperties, EmptySeq
<1>3. Head(s) = s[1]
  OBVIOUS
<1>4. Range(s) = {Head(s)} \union Range(Tail(s))
  <2>1. ASSUME NEW i \in 1 .. Len(s)
        PROVE  s[i] = Head(s) \/ \E k \in 1 .. Len(s) - 1 : s[i] = Tail(s)[k]
    <3>1. CASE i = 1
      BY <1>3, <3>1
    <3>2. CASE i # 1
      <4>1. i - 1 \in 1 .. Len(s) - 1 /\ (i - 1) + 1 = i
        BY <1>2, <3>2
      <4>2. QED
        BY <1>1, <4>1
    <3>3. QED
      BY <3>1, <3>2
  <2>2. ASSUME NEW k \in 1 .. Len(s) - 1
        PROVE  k + 1 \in 1 .. Len(s) /\ Tail(s)[k] = s[k + 1]
    BY <1>1, <1>2
  <2>3. 1 \in 1 .. Len(s)
    BY <1>2
  <2>4. Range(s) \subseteq {Head(s)} \union Range(Tail(s))
    BY <1>2, <2>1 DEF Range
  <2>5. Head(s) \in Range(s) /\ Range(Tail(s)) \subseteq Range(s)
    BY <1>2, <1>3, <2>2, <2>3 DEF Range
  <2>6. QED
    BY <2>4, <2>5
<1>5. ASSUME IsInjective(s)
      PROVE  IsInjective(Tail(s)) /\ Head(s) \notin Range(Tail(s))
  <2>1. \A k \in 1 .. Len(s) - 1 : k + 1 \in 1 .. Len(s) /\ Tail(s)[k] = s[k + 1]
    BY <1>1, <1>2
  <2>2. \A k \in 1 .. Len(s) - 1 : Tail(s)[k] # s[1]
    BY <1>2, <1>5, <2>1 DEF IsInjective
  <2>3. \A k, l \in 1 .. Len(s) - 1 : Tail(s)[k] = Tail(s)[l] => k = l
    BY <1>2, <1>5, <2>1 DEF IsInjective
  <2>4. QED
    BY <1>2, <1>3, <2>2, <2>3 DEF Range, IsInjective
<1>6. QED
  BY <1>1, <1>4, <1>5

\* Popping takes the least message of a buffer that is in order.
LEMMA PopLeast ==
    ASSUME NEW S, NEW s \in Seq(S), s # <<>>, Increasing(s)
    PROVE  Increasing(Tail(s)) /\ \A m \in Range(Tail(s)) : Head(s) < m
<1>1. /\ Tail(s) \in Seq(S) /\ Len(Tail(s)) = Len(s) - 1
      /\ \A i \in 1 .. Len(Tail(s)) : Tail(s)[i] = s[i + 1]
  BY HeadTailProperties
<1>2. /\ Len(s) \in Nat \ {0} /\ DOMAIN s = 1 .. Len(s)
      /\ DOMAIN Tail(s) = 1 .. Len(s) - 1
  BY <1>1, LenProperties, EmptySeq
<1>3. Head(s) = s[1]
  OBVIOUS
<1>4. \A k \in 1 .. Len(s) - 1 : k + 1 \in 1 .. Len(s) /\ Tail(s)[k] = s[k + 1]
  BY <1>1, <1>2
<1>5. QED
  BY <1>2, <1>3, <1>4 DEF Range, Increasing

\* What is older than the popped message and still waits has been retried.
LEMMA PopRetried ==
    ASSUME NEW S, NEW s \in Seq(S), s # <<>>, NEW r, RetriedBehind(s, r)
    PROVE  /\ RetriedBehind(Tail(s), r)
           /\ \A m \in Range(Tail(s)) : m < Head(s) => m \in r
<1>1. /\ Tail(s) \in Seq(S) /\ Len(Tail(s)) = Len(s) - 1
      /\ \A i \in 1 .. Len(Tail(s)) : Tail(s)[i] = s[i + 1]
  BY HeadTailProperties
<1>2. /\ Len(s) \in Nat \ {0} /\ DOMAIN s = 1 .. Len(s)
      /\ DOMAIN Tail(s) = 1 .. Len(s) - 1
  BY <1>1, LenProperties, EmptySeq
<1>3. Head(s) = s[1]
  OBVIOUS
<1>4. \A k \in 1 .. Len(s) - 1 : k + 1 \in 1 .. Len(s) /\ Tail(s)[k] = s[k + 1]
  BY <1>1, <1>2
<1>5. QED
  BY <1>2, <1>3, <1>4 DEF Range, RetriedBehind

-----------------------------------------------------------------------------
(* Sharing out, for the five places of requests and the four of deliveries. *)

InFive(S, a, b, c, d, e) ==
    /\ a \union b \union c \union d \union e = S
    /\ a \intersect b = {} /\ a \intersect c = {} /\ a \intersect d = {}
    /\ a \intersect e = {} /\ b \intersect c = {} /\ b \intersect d = {}
    /\ b \intersect e = {} /\ c \intersect d = {} /\ c \intersect e = {}
    /\ d \intersect e = {}

InFour(S, a, b, c, d) ==
    /\ a \union b \union c \union d = S
    /\ a \intersect b = {} /\ a \intersect c = {} /\ a \intersect d = {}
    /\ b \intersect c = {} /\ b \intersect d = {} /\ c \intersect d = {}

LEMMA SharedByFive ==
    ASSUME NEW S, NEW a, NEW b, NEW c, NEW d, NEW e
    PROVE  Shared(S, <<a, b, c, d, e>>) <=> InFive(S, a, b, c, d, e)
<1> DEFINE p == <<a, b, c, d, e>>
<1>1. /\ DOMAIN p = {1, 2, 3, 4, 5}
      /\ p[1] = a /\ p[2] = b /\ p[3] = c /\ p[4] = d /\ p[5] = e
  OBVIOUS
<1> HIDE DEF p
<1>2. Range(p) = {a, b, c, d, e}
  BY <1>1 DEF Range
<1>3. UNION {a, b, c, d, e} = a \union b \union c \union d \union e
  OBVIOUS
<1>4. Shared(S, p) <=>
        /\ a \union b \union c \union d \union e = S
        /\ \A i, j \in {1, 2, 3, 4, 5} : i # j => p[i] \intersect p[j] = {}
  BY <1>1, <1>2, <1>3 DEF Shared
<1>5. (\A i, j \in {1, 2, 3, 4, 5} : i # j => p[i] \intersect p[j] = {}) <=>
        /\ a \intersect b = {} /\ a \intersect c = {} /\ a \intersect d = {}
        /\ a \intersect e = {} /\ b \intersect c = {} /\ b \intersect d = {}
        /\ b \intersect e = {} /\ c \intersect d = {} /\ c \intersect e = {}
        /\ d \intersect e = {}
  BY <1>1
<1>6. QED
  BY <1>4, <1>5 DEF p, InFive

LEMMA SharedByFour ==
    ASSUME NEW S, NEW a, NEW b, NEW c, NEW d
    PROVE  Shared(S, <<a, b, c, d>>) <=> InFour(S, a, b, c, d)
<1> DEFINE p == <<a, b, c, d>>
<1>1. /\ DOMAIN p = {1, 2, 3, 4}
      /\ p[1] = a /\ p[2] = b /\ p[3] = c /\ p[4] = d
  OBVIOUS
<1> HIDE DEF p
<1>2. Range(p) = {a, b, c, d}
  BY <1>1 DEF Range
<1>3. UNION {a, b, c, d} = a \union b \union c \union d
  OBVIOUS
<1>4. Shared(S, p) <=>
        /\ a \union b \union c \union d = S
        /\ \A i, j \in {1, 2, 3, 4} : i # j => p[i] \intersect p[j] = {}
  BY <1>1, <1>2, <1>3 DEF Shared
<1>5. (\A i, j \in {1, 2, 3, 4} : i # j => p[i] \intersect p[j] = {}) <=>
        /\ a \intersect b = {} /\ a \intersect c = {} /\ a \intersect d = {}
        /\ b \intersect c = {} /\ b \intersect d = {} /\ c \intersect d = {}
  BY <1>1
<1>6. QED
  BY <1>4, <1>5 DEF p, InFour

-----------------------------------------------------------------------------
(* Types.                                                                  *)

\* A step of the session keeps the types of its state and connection, and binds
\* it only by an acceptance.
LEMMA SessionStep ==
    ASSUME Session!LinkTypeOK, Session!Next
    PROVE  /\ Session!LinkTypeOK'
           /\ state' = "BOUND" => state = "BOUND" \/ accepted
<1> USE DEF Session!LinkTypeOK, Session!MayLose
<1>1. CASE Session!Accept
  BY <1>1 DEF Session!Accept
<1>2. CASE Session!ComesUp
  BY <1>2 DEF Session!ComesUp
<1>3. CASE Session!Open
  BY <1>3 DEF Session!Open
<1>4. CASE Session!Retry
  BY <1>4 DEF Session!Retry
<1>5. CASE Session!Bind
  BY <1>5 DEF Session!Bind
<1>6. CASE Session!Unbind
  BY <1>6 DEF Session!Unbind
<1>7. CASE Session!Fail
  BY <1>7 DEF Session!Fail
<1>8. CASE Session!Close
  BY <1>8 DEF Session!Close
<1>9. CASE Session!Lose
  BY <1>9 DEF Session!Lose
<1>10. QED
  BY <1>1, <1>2, <1>3, <1>4, <1>5, <1>6, <1>7, <1>8, <1>9 DEF Session!Next

\* A thread has a message exactly while it uses one, and has exited when
\* ~ksmppc() returns.
Threads ==
    /\ sender.pc = "use" <=> sender.msg # None
    /\ receiver.pc = "use" <=> receiver.msg # None
    /\ main = "gone" => sender.pc = "exited" /\ receiver.pc = "exited"

\* What a thread uses is a message.
LEMMA InUse ==
    ASSUME TypeOK, Threads
    PROVE  /\ sender.pc = "use" => sender.msg \in Requests
           /\ receiver.pc = "use" => receiver.msg \in Deliveries
  BY DEF TypeOK, Threads, Thread

LEMMA BoundsAreNat == NSend \in Nat /\ NDeliver \in Nat
  BY GatewayAssumption

LEMMA InitTypeOK == Init => TypeOK
<1> SUFFICES ASSUME Init
             PROVE  TypeOK
  OBVIOUS
<1> USE DEF Init
<1>1. Session!LinkTypeOK
  BY DEF Session!Init, Session!LinkTypeOK
<1>2. sender \in Thread(Requests) /\ receiver \in Thread(Deliveries)
  BY DEF Thread, NewThread
<1>3. nextSend \in 1 .. NSend + 1 /\ nextDeliver \in 1 .. NDeliver + 1
  BY BoundsAreNat
<1>4. <<>> \in Seq(Requests) /\ <<>> \in Seq(Deliveries)
  OBVIOUS
<1>5. QED
  BY <1>1, <1>2, <1>3, <1>4 DEF TypeOK

LEMMA TypeStep == TypeOK /\ Threads /\ [Next]_vars => TypeOK'
<1> SUFFICES ASSUME TypeOK, Threads, [Next]_vars
             PROVE  TypeOK'
  OBVIOUS
<1> USE DEF vars, linkVars, mainVars, sendVars, receiveVars
<1>1. CASE UNCHANGED vars
  BY <1>1 DEF TypeOK, Session!LinkTypeOK
<1>2. CASE SessionSteps
  <2>1. Session!LinkTypeOK'
    BY <1>2, SessionStep DEF SessionSteps, TypeOK
  <2>2. accepted' \in BOOLEAN
    BY <2>1 DEF Session!LinkTypeOK
  <2>3. mcAccepted' \in BOOLEAN
    BY <1>2, <2>2 DEF SessionSteps, TypeOK
  <2>4. QED
    BY <1>2, <2>1, <2>3 DEF SessionSteps, TypeOK
<1>3. CASE Deliver
  <2>1. nextDeliver \in Deliveries /\ nextDeliver + 1 \in 1 .. NDeliver + 1
    BY <1>3, BoundsAreNat DEF Deliver, TypeOK, Deliveries
  <2>2. recieveBuffer' \in Seq(Deliveries)
    BY <1>3, <2>1, PushLast DEF Deliver, TypeOK
  <2>3. QED
    BY <1>3, <2>1, <2>2 DEF Deliver, TypeOK, Session!LinkTypeOK
<1>4. CASE SessionStops
  BY <1>4 DEF SessionStops, TypeOK, Session!LinkTypeOK
<1>5. CASE SessionGivesUp
  BY <1>5 DEF SessionGivesUp, TypeOK, Session!LinkTypeOK
<1>6. CASE SendHandler
  <2>1. nextSend \in Requests /\ nextSend + 1 \in 1 .. NSend + 1
    BY <1>6, BoundsAreNat DEF SendHandler, TypeOK, Requests
  <2>2. sendingBuffer \in Seq(Requests) /\ failed \subseteq Requests
    BY DEF TypeOK
  <2>3. Append(sendingBuffer, nextSend) \in Seq(Requests)
    BY <2>1, <2>2, PushLast
  <2>4. sendingBuffer' \in Seq(Requests) /\ failed' \subseteq Requests
    BY <1>6, <2>1, <2>2, <2>3 DEF SendHandler
  <2>5. QED
    BY <1>6, <2>1, <2>4 DEF SendHandler, TypeOK, Session!LinkTypeOK
<1>7. CASE SenderTakes
  <2>1. Head(sendingBuffer) \in Requests /\ Tail(sendingBuffer) \in Seq(Requests)
    BY <1>7, PopFirst DEF SenderTakes, TypeOK
  <2>2. sender' \in Thread(Requests)
    BY <1>7, <2>1 DEF SenderTakes, Thread
  <2>3. QED
    BY <1>7, <2>1, <2>2 DEF SenderTakes, TypeOK, Session!LinkTypeOK
<1>8. CASE SenderSends
  <2>1. sender' \in Thread(Requests) /\ sender.msg \in Requests
    BY <1>8, InUse DEF SenderSends, NewThread, Thread
  <2>2. txQ \in Seq(Requests) /\ dropped \subseteq Requests
    BY DEF TypeOK
  <2>3. Append(txQ, sender.msg) \in Seq(Requests)
    BY <2>1, <2>2, PushLast
  <2>4. txQ' \in Seq(Requests) /\ dropped' \subseteq Requests
    BY <1>8, <2>1, <2>2, <2>3 DEF SenderSends
  <2>5. QED
    BY <1>8, <2>1, <2>4 DEF SenderSends, TypeOK, Session!LinkTypeOK
<1>9. CASE SenderTests \/ SenderSleeps \/ SenderExits
  <2>1. sender' \in Thread(Requests)
    BY <1>9 DEF SenderTests, SenderSleeps, SenderExits, InLoop, NewThread, Thread
  <2>2. QED
    BY <1>9, <2>1 DEF SenderTests, SenderSleeps, SenderExits, TypeOK,
       Session!LinkTypeOK
<1>10. CASE ReceiverTakes
  <2>1. Head(recieveBuffer) \in Deliveries /\ Tail(recieveBuffer) \in Seq(Deliveries)
    BY <1>10, PopFirst DEF ReceiverTakes, TypeOK
  <2>2. receiver' \in Thread(Deliveries)
    BY <1>10, <2>1 DEF ReceiverTakes, Thread
  <2>3. QED
    BY <1>10, <2>1, <2>2 DEF ReceiverTakes, TypeOK, Session!LinkTypeOK
<1>11. CASE Forwards \/ RetryableFailure \/ PermanentFailure
  <2>1. ClientCallEnds
    BY <1>11 DEF Forwards, RetryableFailure, PermanentFailure
  <2>2. receiver' \in Thread(Deliveries) /\ receiver.msg \in Deliveries
    BY <2>1, InUse DEF ClientCallEnds, NewThread, Thread
  <2>3. received' \subseteq Deliveries
    BY <1>11, <2>2 DEF Forwards, RetryableFailure, PermanentFailure, MayBeReceived,
       TypeOK
  <2>4. /\ recieveBuffer \in Seq(Deliveries) /\ rcv_errBuffer \subseteq Deliveries
        /\ done \subseteq Deliveries /\ retried \subseteq Deliveries
    BY DEF TypeOK
  <2>5. Append(recieveBuffer, receiver.msg) \in Seq(Deliveries)
    BY <2>2, <2>4, PushLast
  <2>6. /\ recieveBuffer' \in Seq(Deliveries) /\ rcv_errBuffer' \subseteq Deliveries
        /\ done' \subseteq Deliveries /\ retried' \subseteq Deliveries
    BY <1>11, <2>2, <2>4, <2>5 DEF Forwards, RetryableFailure, PermanentFailure
  <2>7. QED
    BY <2>1, <2>2, <2>3, <2>6 DEF ClientCallEnds, TypeOK, Session!LinkTypeOK
<1>12. CASE ReceiverTests \/ ReceiverSleeps \/ ReceiverExits
  <2>1. receiver' \in Thread(Deliveries)
    BY <1>12 DEF ReceiverTests, ReceiverSleeps, ReceiverExits, InLoop, NewThread, Thread
  <2>2. QED
    BY <1>12, <2>1 DEF ReceiverTests, ReceiverSleeps, ReceiverExits, TypeOK,
       Session!LinkTypeOK
<1>13. CASE BeginsDestructor \/ Destructor
  BY <1>13 DEF BeginsDestructor, Destructor, StopsServer, StopsSession, JoinsAll,
     TypeOK, Session!LinkTypeOK
<1>14. CASE Restarts
  <2>1. sender' \in Thread(Requests) /\ receiver' \in Thread(Deliveries)
    BY <1>14 DEF Restarts, NewThread, Thread
  <2>2. QED
    BY <1>14, <2>1 DEF Restarts, TypeOK, Session!LinkTypeOK
<1>15. QED
  BY <1>1, <1>2, <1>3, <1>4, <1>5, <1>6, <1>7, <1>8, <1>9, <1>10, <1>11, <1>12,
     <1>13, <1>14 DEF Next, Sender, Receiver

LEMMA ThreadsStep == TypeOK /\ Threads /\ [Next]_vars => Threads'
<1> SUFFICES ASSUME TypeOK, Threads, [Next]_vars
             PROVE  Threads'
  OBVIOUS
<1> USE DEF vars, linkVars, mainVars, sendVars, receiveVars
<1>1. CASE SenderTakes
  <2>1. Head(sendingBuffer) \in Requests
    BY <1>1, PopFirst DEF SenderTakes, TypeOK
  <2>2. Head(sendingBuffer) # None
    BY <2>1, BoundsAreNat DEF Requests, None
  <2>3. main # "gone"
    BY <1>1 DEF SenderTakes, Threads
  <2>4. QED
    BY <1>1, <2>2, <2>3 DEF SenderTakes, Threads
<1>2. CASE ReceiverTakes
  <2>1. Head(recieveBuffer) \in Deliveries
    BY <1>2, PopFirst DEF ReceiverTakes, TypeOK
  <2>2. Head(recieveBuffer) # None
    BY <2>1, BoundsAreNat DEF Deliveries, None
  <2>3. main # "gone"
    BY <1>2 DEF ReceiverTakes, Threads
  <2>4. QED
    BY <1>2, <2>2, <2>3 DEF ReceiverTakes, Threads
<1>3. CASE \/ UNCHANGED vars \/ SessionSteps \/ Deliver \/ SessionStops
           \/ SessionGivesUp \/ SendHandler
  BY <1>3 DEF SessionSteps, Deliver, SessionStops, SessionGivesUp, SendHandler, Threads
<1>4. CASE SenderSends \/ SenderTests \/ SenderSleeps \/ SenderExits
  BY <1>4 DEF SenderSends, SenderTests, SenderSleeps, SenderExits, InLoop, NewThread,
     Threads
<1>5. CASE \/ Forwards \/ RetryableFailure \/ PermanentFailure
           \/ ReceiverTests \/ ReceiverSleeps \/ ReceiverExits
  BY <1>5 DEF Forwards, RetryableFailure, PermanentFailure, ReceiverTests,
     ReceiverSleeps, ReceiverExits, ClientCallEnds, InLoop, NewThread, Threads
<1>6. CASE BeginsDestructor \/ Destructor \/ Restarts
  BY <1>6 DEF BeginsDestructor, Destructor, StopsServer, StopsSession, JoinsAll,
     Restarts, NewThread, Threads
<1>7. QED
  BY <1>1, <1>2, <1>3, <1>4, <1>5, <1>6 DEF Next, Sender, Receiver

-----------------------------------------------------------------------------
(* Requests.                                                               *)

SendingInOrder ==
    /\ Increasing(sendingBuffer)
    /\ \A m \in Hand(sender) : \A n \in Range(sendingBuffer) : m < n
    /\ SubmittedInOrder

\* A thread that does not use a message has none in its hand.
LEMMA EmptyHand ==
    ASSUME Threads
    PROVE  /\ sender.pc # "use" => Hand(sender) = {}
           /\ receiver.pc # "use" => Hand(receiver) = {}
  BY DEF Threads, Hand

LEMMA NewThreadsHand == Hand(NewThread) = {}
  BY DEF Hand, NewThread

\* The steps that leave the requests alone.
LEMMA NotSending ==
    ASSUME Threads, [Next]_vars
    PROVE  \/ SendHandler \/ SenderTakes \/ SenderSends
           \/ /\ UNCHANGED <<nextSend, failed, sendingBuffer, txQ, dropped>>
              /\ Hand(sender)' = Hand(sender)
<1>1. CASE SenderTests \/ SenderSleeps \/ SenderExits
  <2>1. Hand(sender) = {} /\ Hand(sender)' = {}
    BY <1>1, EmptyHand DEF SenderTests, SenderSleeps, SenderExits, InLoop,
       NewThread, Hand
  <2>2. QED
    BY <1>1, <2>1 DEF SenderTests, SenderSleeps, SenderExits
<1>2. CASE Restarts
  <2>1. Hand(sender) = {} /\ Hand(sender)' = {}
    BY <1>2, EmptyHand, NewThreadsHand DEF Restarts, Threads, Hand
  <2>2. QED
    BY <1>2, <2>1 DEF Restarts
<1>3. CASE \/ UNCHANGED vars \/ SessionSteps \/ Deliver \/ SessionStops
           \/ SessionGivesUp \/ Receiver \/ BeginsDestructor \/ Destructor
  <2>1. UNCHANGED sendVars
    BY <1>3 DEF vars, SessionSteps, Deliver, SessionStops, SessionGivesUp, Receiver,
       ReceiverTests, ReceiverSleeps, ReceiverTakes, Forwards, RetryableFailure,
       PermanentFailure, ReceiverExits, ClientCallEnds, BeginsDestructor, Destructor,
       StopsServer, StopsSession, JoinsAll
  <2>2. QED
    BY <2>1 DEF sendVars, Hand
<1>4. QED
  BY <1>1, <1>2, <1>3 DEF Next, Sender

LEMMA NextRequest ==
    ASSUME TypeOK, SendHandler
    PROVE  /\ nextSend \in Requests /\ nextSend \notin 1 .. nextSend - 1
           /\ 1 .. nextSend' - 1 = (1 .. nextSend - 1) \union {nextSend}
           /\ \A m \in 1 .. nextSend - 1 : m < nextSend
<1>1. nextSend \in Nat \ {0} /\ nextSend \in Requests /\ nextSend' = nextSend + 1
  BY BoundsAreNat DEF TypeOK, SendHandler, Requests
<1>2. QED
  BY <1>1

LEMMA RequestsOnce ==
    ASSUME RequestsKept
    PROVE  InFive(1 .. nextSend - 1, failed, Range(sendingBuffer), Hand(sender),
                  Range(txQ), dropped)
<1> DEFINE S == 1 .. nextSend - 1
<1>1. Shared(S, <<failed, Range(sendingBuffer), Hand(sender), Range(txQ), dropped>>)
  BY DEF RequestsKept
<1> HIDE DEF S
<1>2. InFive(S, failed, Range(sendingBuffer), Hand(sender), Range(txQ), dropped)
  BY <1>1, SharedByFive
<1>3. QED
  BY <1>2 DEF S

LEMMA RequestsStep ==
    ASSUME TypeOK, Threads, RequestsKept, [Next]_vars
    PROVE  RequestsKept'
<1>1. /\ sendingBuffer \in Seq(Requests) /\ txQ \in Seq(Requests)
      /\ IsInjective(sendingBuffer) /\ IsInjective(txQ)
      /\ InFive(1 .. nextSend - 1, failed, Range(sendingBuffer), Hand(sender),
                Range(txQ), dropped)
  BY RequestsOnce DEF TypeOK, RequestsKept
<1>2. SUFFICES /\ IsInjective(sendingBuffer') /\ IsInjective(txQ')
               /\ InFive(1 .. nextSend' - 1, failed', Range(sendingBuffer'),
                         Hand(sender)', Range(txQ'), dropped')
  <2>1. Shared((1 .. nextSend - 1)', <<failed', Range(sendingBuffer'), Hand(sender)',
                                      Range(txQ'), dropped'>>)
    BY <1>2, SharedByFive
  <2>2. QED
    BY <1>2, <2>1 DEF RequestsKept
<1> USE DEF InFive
<1>3. CASE SendHandler
  <2>1. /\ nextSend \in Requests /\ nextSend \notin 1 .. nextSend - 1
        /\ 1 .. nextSend' - 1 = (1 .. nextSend - 1) \union {nextSend}
    BY <1>3, NextRequest
  <2>2. UNCHANGED <<txQ, dropped>> /\ Hand(sender)' = Hand(sender)
    BY <1>3 DEF SendHandler, Hand
  <2>3. CASE failed' = failed \union {nextSend} /\ UNCHANGED sendingBuffer
    BY <1>1, <2>1, <2>2, <2>3
  <2>4. CASE sendingBuffer' = Append(sendingBuffer, nextSend) /\ UNCHANGED failed
    <3>1. Range(sendingBuffer') = Range(sendingBuffer) \union {nextSend}
      BY <1>1, <2>1, <2>4, PushLast
    <3>2. nextSend \notin Range(sendingBuffer)
      BY <1>1, <2>1
    <3>3. IsInjective(sendingBuffer')
      BY <1>1, <2>1, <2>4, <3>2, PushLast
    <3>4. QED
      BY <1>1, <2>1, <2>2, <2>4, <3>1, <3>3
  <2>5. QED
    BY <1>3, <2>3, <2>4 DEF SendHandler
<1>4. CASE SenderTakes
  <2>1. /\ sendingBuffer # <<>> /\ sendingBuffer' = Tail(sendingBuffer)
        /\ UNCHANGED <<nextSend, failed, txQ, dropped>>
        /\ Hand(sender) = {} /\ Hand(sender)' = {Head(sendingBuffer)} \ {None}
    BY <1>4, EmptyHand DEF SenderTakes, Hand
  <2>2. /\ Head(sendingBuffer) \in Requests
        /\ Range(sendingBuffer) = {Head(sendingBuffer)} \union Range(sendingBuffer')
        /\ IsInjective(sendingBuffer')
        /\ Head(sendingBuffer) \notin Range(sendingBuffer')
    BY <1>1, <2>1, PopFirst
  <2>3. Hand(sender)' = {Head(sendingBuffer)}
    BY <2>1, <2>2, BoundsAreNat DEF Requests, None
  <2>4. QED
    BY <1>1, <2>1, <2>2, <2>3
<1>5. CASE SenderSends
  <2>1. sender.msg \in Requests
    BY <1>5, InUse DEF SenderSends
  <2>2. Hand(sender) = {sender.msg}
    BY <2>1, BoundsAreNat DEF Hand, Requests, None
  <2>3. Hand(sender)' = {} /\ UNCHANGED <<nextSend, failed, sendingBuffer>>
    BY <1>5, NewThreadsHand DEF SenderSends, Hand
  <2>4. CASE txQ' = Append(txQ, sender.msg) /\ UNCHANGED dropped
    <3>1. Range(txQ') = Range(txQ) \union {sender.msg}
      BY <1>1, <2>1, <2>4, PushLast
    <3>2. sender.msg \notin Range(txQ)
      BY <1>1, <2>2
    <3>3. IsInjective(txQ')
      BY <1>1, <2>1, <2>4, <3>2, PushLast
    <3>4. QED
      BY <1>1, <2>2, <2>3, <2>4, <3>1, <3>3
  <2>5. CASE dropped' = dropped \union {sender.msg} /\ UNCHANGED txQ
    BY <1>1, <2>2, <2>3, <2>5
  <2>6. QED
    BY <1>5, <2>4, <2>5 DEF SenderSends
<1>6. QED
  BY <1>1, <1>3, <1>4, <1>5, NotSending

LEMMA OrderStep ==
    ASSUME TypeOK, Threads, RequestsKept, SendingInOrder, [Next]_vars
    PROVE  SendingInOrder'
<1>1. /\ sendingBuffer \in Seq(Requests) /\ txQ \in Seq(Requests)
      /\ Increasing(sendingBuffer) /\ Increasing(txQ)
      /\ \A m \in Hand(sender) : \A n \in Range(sendingBuffer) : m < n
      /\ \A m \in Range(txQ) \union dropped :
           \A n \in Hand(sender) \union Range(sendingBuffer) : m < n
  BY DEF TypeOK, SendingInOrder, SubmittedInOrder, Increasing
<1>2. failed \union Range(sendingBuffer) \union Hand(sender) \union Range(txQ)
        \union dropped = 1 .. nextSend - 1
  BY RequestsOnce DEF InFive
<1>3. SUFFICES
      /\ Increasing(sendingBuffer') /\ Increasing(txQ')
      /\ \A m \in Hand(sender)' : \A n \in Range(sendingBuffer') : m < n
      /\ \A m \in Range(txQ') \union dropped' :
           \A n \in Hand(sender)' \union Range(sendingBuffer') : m < n
  BY <1>3 DEF SendingInOrder, SubmittedInOrder, Increasing
<1>4. CASE SendHandler
  <2>1. /\ nextSend \in Requests /\ \A m \in 1 .. nextSend - 1 : m < nextSend
    BY <1>4, NextRequest
  <2>2. UNCHANGED <<txQ, dropped>> /\ Hand(sender)' = Hand(sender)
    BY <1>4 DEF SendHandler, Hand
  <2>3. CASE UNCHANGED sendingBuffer
    BY <1>1, <2>2, <2>3
  <2>4. CASE sendingBuffer' = Append(sendingBuffer, nextSend)
    <3>1. Range(sendingBuffer') = Range(sendingBuffer) \union {nextSend}
      BY <1>1, <2>1, <2>4, PushLast
    <3>2. \A m \in Range(sendingBuffer) : m < nextSend
      BY <1>2, <2>1
    <3>3. Increasing(sendingBuffer')
      BY <1>1, <2>1, <2>4, <3>2, PushGreater
    <3>4. \A m \in Hand(sender) \union Range(txQ) \union dropped : m < nextSend
      BY <1>2, <2>1
    <3>5. QED
      BY <1>1, <2>2, <3>1, <3>3, <3>4
  <2>5. QED
    BY <1>4, <2>3, <2>4 DEF SendHandler
<1>5. CASE SenderTakes
  <2>1. /\ sendingBuffer # <<>> /\ sendingBuffer' = Tail(sendingBuffer)
        /\ UNCHANGED <<txQ, dropped>>
        /\ Hand(sender)' = {Head(sendingBuffer)} \ {None}
    BY <1>5 DEF SenderTakes, Hand
  <2>2. Range(sendingBuffer) = {Head(sendingBuffer)} \union Range(sendingBuffer')
    BY <1>1, <2>1, PopFirst
  <2>3. /\ Increasing(sendingBuffer')
        /\ \A m \in Range(sendingBuffer') : Head(sendingBuffer) < m
    BY <1>1, <2>1, PopLeast
  <2>4. QED
    BY <1>1, <2>1, <2>2, <2>3
<1>6. CASE SenderSends
  <2>1. sender.msg \in Requests
    BY <1>6, InUse DEF SenderSends
  <2>2. Hand(sender) = {sender.msg}
    BY <2>1, BoundsAreNat DEF Hand, Requests, None
  <2>3. Hand(sender)' = {} /\ UNCHANGED sendingBuffer
    BY <1>6, NewThreadsHand DEF SenderSends, Hand
  <2>4. CASE txQ' = Append(txQ, sender.msg) /\ UNCHANGED dropped
    <3>1. Range(txQ') = Range(txQ) \union {sender.msg}
      BY <1>1, <2>1, <2>4, PushLast
    <3>2. \A m \in Range(txQ) : m < sender.msg
      BY <1>1, <2>2
    <3>3. Increasing(txQ')
      BY <1>1, <2>1, <2>4, <3>2, PushGreater
    <3>4. QED
      BY <1>1, <2>2, <2>3, <2>4, <3>1, <3>3
  <2>5. CASE dropped' = dropped \union {sender.msg} /\ UNCHANGED txQ
    BY <1>1, <2>2, <2>3, <2>5
  <2>6. QED
    BY <1>6, <2>4, <2>5 DEF SenderSends
<1>7. QED
  BY <1>1, <1>4, <1>5, <1>6, NotSending

-----------------------------------------------------------------------------
(* Deliveries.                                                             *)

ReceivingInOrder ==
    /\ received \subseteq 1 .. nextDeliver - 1
    /\ RetriedBehind(recieveBuffer, retried)
    /\ \A n \in Hand(receiver) : \A m \in Range(recieveBuffer) : m < n => m \in retried
    /\ OvertakenOnlyByRetry

\* The steps that leave the deliveries alone.
LEMMA NotReceiving ==
    ASSUME Threads, [Next]_vars
    PROVE  \/ Deliver \/ ReceiverTakes
           \/ Forwards \/ RetryableFailure \/ PermanentFailure
           \/ /\ UNCHANGED <<nextDeliver, recieveBuffer, rcv_errBuffer, done,
                             received, retried>>
              /\ Hand(receiver)' = Hand(receiver)
<1>1. CASE ReceiverTests \/ ReceiverSleeps \/ ReceiverExits
  <2>1. Hand(receiver) = {} /\ Hand(receiver)' = {}
    BY <1>1, EmptyHand DEF ReceiverTests, ReceiverSleeps, ReceiverExits,
       InLoop, NewThread, Hand
  <2>2. QED
    BY <1>1, <2>1 DEF ReceiverTests, ReceiverSleeps, ReceiverExits
<1>2. CASE Restarts
  <2>1. Hand(receiver) = {} /\ Hand(receiver)' = {}
    BY <1>2, EmptyHand, NewThreadsHand DEF Restarts, Threads, Hand
  <2>2. QED
    BY <1>2, <2>1 DEF Restarts
<1>3. CASE \/ UNCHANGED vars \/ SessionSteps \/ SessionStops \/ SessionGivesUp
           \/ SendHandler \/ Sender \/ BeginsDestructor \/ Destructor
  <2>1. UNCHANGED receiveVars
    BY <1>3 DEF vars, SessionSteps, SessionStops, SessionGivesUp, SendHandler, Sender,
       SenderTests, SenderSleeps, SenderTakes, SenderSends, SenderExits,
       BeginsDestructor, Destructor,
       StopsServer, StopsSession, JoinsAll
  <2>2. QED
    BY <2>1 DEF receiveVars, Hand
<1>4. QED
  BY <1>1, <1>2, <1>3 DEF Next, Receiver

LEMMA NextDelivery ==
    ASSUME TypeOK, Deliver
    PROVE  /\ nextDeliver \in Deliveries /\ nextDeliver \notin 1 .. nextDeliver - 1
           /\ 1 .. nextDeliver' - 1 = (1 .. nextDeliver - 1) \union {nextDeliver}
           /\ \A m \in 1 .. nextDeliver - 1 : m < nextDeliver /\ ~(nextDeliver < m)
<1>1. nextDeliver \in Nat \ {0} /\ nextDeliver \in Deliveries
      /\ nextDeliver' = nextDeliver + 1
  BY BoundsAreNat DEF TypeOK, Deliver, Deliveries
<1>2. QED
  BY <1>1

LEMMA DeliveriesOnce ==
    ASSUME DeliveriesKept
    PROVE  InFour(1 .. nextDeliver - 1, Range(recieveBuffer), Hand(receiver),
                  rcv_errBuffer, done)
<1> DEFINE S == 1 .. nextDeliver - 1
<1>1. Shared(S, <<Range(recieveBuffer), Hand(receiver), rcv_errBuffer, done>>)
  BY DEF DeliveriesKept
<1> HIDE DEF S
<1>2. InFour(S, Range(recieveBuffer), Hand(receiver), rcv_errBuffer, done)
  BY <1>1, SharedByFour
<1>3. QED
  BY <1>2 DEF S

LEMMA DeliveriesStep ==
    ASSUME TypeOK, Threads, DeliveriesKept, [Next]_vars
    PROVE  DeliveriesKept'
<1>1. /\ recieveBuffer \in Seq(Deliveries) /\ IsInjective(recieveBuffer)
      /\ InFour(1 .. nextDeliver - 1, Range(recieveBuffer), Hand(receiver),
                rcv_errBuffer, done)
  BY DeliveriesOnce DEF TypeOK, DeliveriesKept
<1>2. SUFFICES /\ IsInjective(recieveBuffer')
               /\ InFour(1 .. nextDeliver' - 1, Range(recieveBuffer'),
                         Hand(receiver)', rcv_errBuffer', done')
  <2>1. Shared((1 .. nextDeliver - 1)', <<Range(recieveBuffer'), Hand(receiver)',
                                         rcv_errBuffer', done'>>)
    BY <1>2, SharedByFour
  <2>2. QED
    BY <1>2, <2>1 DEF DeliveriesKept
<1> USE DEF InFour
<1>3. CASE Deliver
  <2>1. /\ nextDeliver \in Deliveries /\ nextDeliver \notin 1 .. nextDeliver - 1
        /\ 1 .. nextDeliver' - 1 = (1 .. nextDeliver - 1) \union {nextDeliver}
    BY <1>3, NextDelivery
  <2>2. /\ UNCHANGED <<rcv_errBuffer, done>> /\ Hand(receiver)' = Hand(receiver)
        /\ recieveBuffer' = Append(recieveBuffer, nextDeliver)
    BY <1>3 DEF Deliver, Hand
  <2>3. Range(recieveBuffer') = Range(recieveBuffer) \union {nextDeliver}
    BY <1>1, <2>1, <2>2, PushLast
  <2>4. nextDeliver \notin Range(recieveBuffer)
    BY <1>1, <2>1
  <2>5. IsInjective(recieveBuffer')
    BY <1>1, <2>1, <2>2, <2>4, PushLast
  <2>6. QED
    BY <1>1, <2>1, <2>2, <2>3, <2>5
<1>4. CASE ReceiverTakes
  <2>1. /\ recieveBuffer # <<>> /\ recieveBuffer' = Tail(recieveBuffer)
        /\ UNCHANGED <<nextDeliver, rcv_errBuffer, done>>
        /\ Hand(receiver) = {} /\ Hand(receiver)' = {Head(recieveBuffer)} \ {None}
    BY <1>4, EmptyHand DEF ReceiverTakes, Hand
  <2>2. /\ Head(recieveBuffer) \in Deliveries
        /\ Range(recieveBuffer) = {Head(recieveBuffer)} \union Range(recieveBuffer')
        /\ IsInjective(recieveBuffer')
        /\ Head(recieveBuffer) \notin Range(recieveBuffer')
    BY <1>1, <2>1, PopFirst
  <2>3. Hand(receiver)' = {Head(recieveBuffer)}
    BY <2>1, <2>2, BoundsAreNat DEF Deliveries, None
  <2>4. QED
    BY <1>1, <2>1, <2>2, <2>3
<1>5. CASE Forwards \/ RetryableFailure \/ PermanentFailure
  <2>1. ClientCallEnds
    BY <1>5 DEF Forwards, RetryableFailure, PermanentFailure
  <2>2. receiver.msg \in Deliveries
    BY <2>1, InUse DEF ClientCallEnds
  <2>3. Hand(receiver) = {receiver.msg}
    BY <2>2, BoundsAreNat DEF Hand, Deliveries, None
  <2>4. Hand(receiver)' = {} /\ UNCHANGED nextDeliver
    BY <2>1, NewThreadsHand DEF ClientCallEnds, Hand
  <2>5. CASE Forwards
    BY <1>1, <2>3, <2>4, <2>5 DEF Forwards
  <2>6. CASE RetryableFailure
    <3>1. /\ recieveBuffer' = Append(recieveBuffer, receiver.msg)
          /\ UNCHANGED <<rcv_errBuffer, done>>
      BY <2>6 DEF RetryableFailure
    <3>2. receiver.msg \notin Range(recieveBuffer)
      BY <1>1, <2>3
    <3>3. Range(recieveBuffer') = Range(recieveBuffer) \union {receiver.msg}
      BY <1>1, <2>2, <3>1, PushLast
    <3>4. IsInjective(recieveBuffer')
      BY <1>1, <2>2, <3>1, <3>2, PushLast
    <3>5. QED
      BY <1>1, <2>3, <2>4, <3>1, <3>3, <3>4
  <2>7. CASE PermanentFailure
    BY <1>1, <2>3, <2>4, <2>7 DEF PermanentFailure
  <2>8. QED
    BY <1>5, <2>5, <2>6, <2>7
<1>6. QED
  BY <1>1, <1>3, <1>4, <1>5, NotReceiving

LEMMA OvertakingStep ==
    ASSUME TypeOK, Threads, DeliveriesKept, ReceivingInOrder, [Next]_vars
    PROVE  ReceivingInOrder'
<1>1. /\ recieveBuffer \in Seq(Deliveries) /\ RetriedBehind(recieveBuffer, retried)
      /\ \A n \in Hand(receiver) : \A m \in Range(recieveBuffer) :
           m < n => m \in retried
      /\ received \subseteq 1 .. nextDeliver - 1
  BY DEF TypeOK, ReceivingInOrder
<1>2. Range(recieveBuffer) \union Hand(receiver) \union rcv_errBuffer \union done
        = 1 .. nextDeliver - 1
  BY DeliveriesOnce DEF InFour
<1>3. \A n \in received : \A m \in Range(recieveBuffer) \union Hand(receiver) :
        m < n => m \in retried
  BY <1>1, <1>2 DEF ReceivingInOrder, OvertakenOnlyByRetry
<1>4. SUFFICES
      /\ received' \subseteq 1 .. nextDeliver' - 1
      /\ RetriedBehind(recieveBuffer', retried')
      /\ \A n \in Hand(receiver)' : \A m \in Range(recieveBuffer') :
           m < n => m \in retried'
      /\ \A n \in received' : \A m \in Range(recieveBuffer') \union Hand(receiver)' :
           m < n => m \in retried'
  BY <1>4 DEF ReceivingInOrder, OvertakenOnlyByRetry
<1>5. CASE Deliver
  <2>1. /\ nextDeliver \in Deliveries
        /\ 1 .. nextDeliver' - 1 = (1 .. nextDeliver - 1) \union {nextDeliver}
        /\ \A m \in 1 .. nextDeliver - 1 : m < nextDeliver /\ ~(nextDeliver < m)
    BY <1>5, NextDelivery
  <2>2. /\ UNCHANGED <<received, retried>> /\ Hand(receiver)' = Hand(receiver)
        /\ recieveBuffer' = Append(recieveBuffer, nextDeliver)
    BY <1>5 DEF Deliver, Hand
  <2>3. Range(recieveBuffer') = Range(recieveBuffer) \union {nextDeliver}
    BY <1>1, <2>1, <2>2, PushLast
  <2>4. \A m \in Range(recieveBuffer) \union Hand(receiver) \union received :
          ~(nextDeliver < m)
    BY <1>1, <1>2, <2>1
  <2>5. RetriedBehind(recieveBuffer', retried')
    BY <1>1, <2>1, <2>2, <2>4, PushRetried
  <2>6. QED
    BY <1>1, <1>3, <2>1, <2>2, <2>3, <2>4, <2>5
<1>6. CASE ReceiverTakes
  <2>1. /\ recieveBuffer # <<>> /\ recieveBuffer' = Tail(recieveBuffer)
        /\ UNCHANGED <<nextDeliver, received, retried>>
        /\ Hand(receiver)' = {Head(recieveBuffer)} \ {None}
    BY <1>6 DEF ReceiverTakes, Hand
  <2>2. Range(recieveBuffer) = {Head(recieveBuffer)} \union Range(recieveBuffer')
    BY <1>1, <2>1, PopFirst
  <2>3. /\ RetriedBehind(recieveBuffer', retried)
        /\ \A m \in Range(recieveBuffer') : m < Head(recieveBuffer) => m \in retried
    BY <1>1, <2>1, PopRetried
  <2>4. QED
    BY <1>1, <1>3, <2>1, <2>2, <2>3
<1>7. CASE Forwards \/ RetryableFailure \/ PermanentFailure
  <2>1. ClientCallEnds
    BY <1>7 DEF Forwards, RetryableFailure, PermanentFailure
  <2>2. receiver.msg \in Deliveries
    BY <2>1, InUse DEF ClientCallEnds
  <2>3. Hand(receiver) = {receiver.msg}
    BY <2>2, BoundsAreNat DEF Hand, Deliveries, None
  <2>4. Hand(receiver)' = {} /\ UNCHANGED nextDeliver
    BY <2>1, NewThreadsHand DEF ClientCallEnds, Hand
  <2>5. received' \subseteq received \union {receiver.msg}
    BY <1>7 DEF Forwards, RetryableFailure, PermanentFailure, MayBeReceived
  <2>6. receiver.msg \in 1 .. nextDeliver - 1
    BY <1>2, <2>3
  <2>7. received' \subseteq 1 .. nextDeliver' - 1
    BY <1>1, <2>4, <2>5, <2>6
  <2>8. CASE UNCHANGED <<recieveBuffer, retried>>
    BY <1>1, <1>3, <2>3, <2>4, <2>5, <2>7, <2>8
  <2>9. CASE RetryableFailure
    <3>1. /\ recieveBuffer' = Append(recieveBuffer, receiver.msg)
          /\ retried' = retried \union {receiver.msg}
      BY <2>9 DEF RetryableFailure
    <3>2. Range(recieveBuffer') = Range(recieveBuffer) \union {receiver.msg}
      BY <1>1, <2>2, <3>1, PushLast
    <3>3. retried \subseteq retried' /\ receiver.msg \in retried'
      BY <3>1
    <3>4. RetriedBehind(recieveBuffer', retried')
      <4>1. RetriedBehind(Append(recieveBuffer, receiver.msg), retried')
        BY <1>1, <2>2, <3>3, PushRetried
      <4>2. QED
        BY <3>1, <4>1
    <3>5. QED
      BY <1>1, <1>3, <2>3, <2>4, <2>5, <2>7, <3>2, <3>3, <3>4
  <2>10. QED
    BY <1>7, <2>8, <2>9 DEF Forwards, PermanentFailure
<1>8. QED
  BY <1>1, <1>3, <1>5, <1>6, <1>7, NotReceiving

-----------------------------------------------------------------------------
(* The theorems.                                                           *)

\* An acceptance that is on its way, and a bound session, come from the MC.
BindFirst == accepted \/ state = "BOUND" => mcAccepted

LEMMA BindFirstStep == TypeOK /\ BindFirst /\ [Next]_vars => BindFirst'
<1> SUFFICES ASSUME TypeOK, BindFirst, [Next]_vars
             PROVE  BindFirst'
  OBVIOUS
<1>1. CASE SessionSteps
  <2>1. state' = "BOUND" => state = "BOUND" \/ accepted
    BY <1>1, SessionStep DEF SessionSteps, TypeOK
  <2>2. QED
    BY <1>1, <2>1 DEF SessionSteps, BindFirst
<1>2. CASE SessionStops \/ Restarts
  BY <1>2 DEF SessionStops, Restarts, BindFirst
<1>3. CASE \/ UNCHANGED vars \/ Deliver \/ SessionGivesUp \/ SendHandler \/ Sender
           \/ Receiver \/ BeginsDestructor \/ Destructor
  <2>1. UNCHANGED linkVars
    BY <1>3 DEF vars, Deliver, SessionGivesUp, SendHandler, Sender, SenderTests,
       SenderSleeps, SenderTakes, SenderSends, SenderExits, Receiver, ReceiverTests,
       ReceiverSleeps, ReceiverTakes, Forwards, RetryableFailure, PermanentFailure,
       ReceiverExits, ClientCallEnds, BeginsDestructor, Destructor,
       StopsServer, StopsSession, JoinsAll
  <2>2. QED
    BY <2>1 DEF linkVars, BindFirst
<1>4. QED
  BY <1>1, <1>2, <1>3 DEF Next

IInv ==
    /\ TypeOK /\ Threads /\ BindFirst
    /\ RequestsKept /\ SendingInOrder
    /\ DeliveriesKept /\ ReceivingInOrder

LEMMA InitIInv == Init => IInv
<1> SUFFICES ASSUME Init
             PROVE  IInv
  OBVIOUS
<1>1. /\ DOMAIN sendingBuffer = {} /\ DOMAIN txQ = {} /\ DOMAIN recieveBuffer = {}
      /\ sender.msg = None /\ receiver.msg = None
      /\ sender.pc = "loop" /\ receiver.pc = "loop" /\ main = "serving"
      /\ nextSend = 1 /\ nextDeliver = 1 /\ state = "CLOSED" /\ accepted = FALSE
      /\ failed = {} /\ dropped = {} /\ rcv_errBuffer = {} /\ done = {}
      /\ received = {} /\ retried = {}
  BY DEF Init, NewThread, Session!Init
<1>2. /\ Range(sendingBuffer) = {} /\ Range(txQ) = {} /\ Range(recieveBuffer) = {}
      /\ Hand(sender) = {} /\ Hand(receiver) = {}
      /\ 1 .. nextSend - 1 = {} /\ 1 .. nextDeliver - 1 = {}
  BY <1>1 DEF Range, Hand
<1>3. TypeOK /\ Threads /\ BindFirst
  BY <1>1, InitTypeOK DEF Threads, BindFirst
<1>4. RequestsKept
  <2>1. InFive({}, {}, {}, {}, {}, {})
    BY DEF InFive
  <2>2. Shared({}, <<{}, {}, {}, {}, {}>>)
    BY <2>1, SharedByFive
  <2>3. QED
    BY <1>1, <1>2, <2>2 DEF RequestsKept, IsInjective
<1>5. DeliveriesKept
  <2>1. InFour({}, {}, {}, {}, {})
    BY DEF InFour
  <2>2. Shared({}, <<{}, {}, {}, {}>>)
    BY <2>1, SharedByFour
  <2>3. QED
    BY <1>1, <1>2, <2>2 DEF DeliveriesKept, IsInjective
<1>6. SendingInOrder
  BY <1>1, <1>2 DEF SendingInOrder, Increasing, SubmittedInOrder
<1>7. ReceivingInOrder
  BY <1>1, <1>2 DEF ReceivingInOrder, RetriedBehind, OvertakenOnlyByRetry
<1>8. QED
  BY <1>3, <1>4, <1>5, <1>6, <1>7 DEF IInv

LEMMA StepIInv == IInv /\ [Next]_vars => IInv'
  BY TypeStep, ThreadsStep, BindFirstStep, RequestsStep, OrderStep, DeliveriesStep,
     OvertakingStep DEF IInv

LEMMA InductiveInvariant == Spec => []IInv
<1>1. QED
  BY InitIInv, StepIInv, PTL DEF Spec

\* Every variable of the gateway keeps its type.
THEOREM GatewayTypeOK == Spec => []TypeOK
<1>1. IInv => TypeOK
  BY DEF IInv
<1>2. QED
  BY <1>1, InductiveInvariant, PTL

\* sendingProcessor() and SendHandler: no request is lost, doubled or queued after
\* it was answered with an error message, through any shutdowns and restarts.
THEOREM GatewayKeepsRequests == Spec => []RequestsKept
<1>1. IInv => RequestsKept
  BY DEF IInv
<1>2. QED
  BY <1>1, InductiveInvariant, PTL

\* recieveProcessor(): no delivery is lost or doubled, whatever the calls to the
\* application end with.
THEOREM GatewayKeepsDeliveries == Spec => []DeliveriesKept
<1>1. IInv => DeliveriesKept
  BY DEF IInv
<1>2. QED
  BY <1>1, InductiveInvariant, PTL

\* Messages reach the session in the order of the requests.
THEOREM GatewaySubmitsInOrder == Spec => []SubmittedInOrder
<1>1. IInv => SubmittedInOrder
  BY DEF IInv, SendingInOrder
<1>2. QED
  BY <1>1, InductiveInvariant, PTL

\* Only what a client call has failed for is overtaken on the way to the
\* application.
THEOREM GatewayOvertakesByRetry == Spec => []OvertakenOnlyByRetry
<1>1. IInv => OvertakenOnlyByRetry
  BY DEF IInv, ReceivingInOrder
<1>2. QED
  BY <1>1, InductiveInvariant, PTL

\* No message goes to or comes from the MC before it has accepted a bind.
THEOREM GatewayBindsFirst == Spec => NoTrafficBeforeBind
<1>1. ASSUME IInv, [Next]_vars
      PROVE  [Len(txQ') > Len(txQ) \/ nextDeliver' > nextDeliver => mcAccepted]_vars
  <2>1. CASE state = "BOUND"
    BY <1>1, <2>1 DEF IInv, BindFirst
  <2>2. CASE state # "BOUND"
    <3>1. txQ' = txQ /\ nextDeliver' = nextDeliver
      <4>1. CASE SenderSends
        BY <2>2, <4>1 DEF SenderSends, receiveVars
      <4>2. CASE ~SenderSends
        BY <1>1, <2>2, <4>2 DEF Next, vars, sendVars, receiveVars, SessionSteps, Deliver,
           SessionStops, SessionGivesUp, SendHandler, Sender, SenderTests, SenderSleeps,
           SenderTakes, SenderExits, Receiver, ReceiverTests, ReceiverSleeps, ReceiverTakes,
           Forwards, RetryableFailure, PermanentFailure, ReceiverExits, ClientCallEnds,
           BeginsDestructor, Destructor, StopsServer,
           StopsSession, JoinsAll, Restarts
      <4>3. QED
        BY <4>1, <4>2
    <3>2. Len(txQ) \in Nat /\ nextDeliver \in Nat
      BY <1>1, BoundsAreNat, LenProperties DEF IInv, TypeOK
    <3>3. QED
      BY <3>1, <3>2
  <2>3. QED
    BY <2>1, <2>2
<1>2. QED
  BY <1>1, InductiveInvariant, PTL DEF Spec, NoTrafficBeforeBind

=============================================================================
