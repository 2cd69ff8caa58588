# TLA+ models of kiss-smpp

`ksmppcd` (src/ksmppc) is an SMPP client gateway. Applications hand it messages over
kisscpp; it keeps one session with a message centre (MC) open, sends the messages over it and
forwards what the MC delivers. This directory holds TLA+ models of that program, TLC
configurations that check them on small instances, and TLAPS proofs of theorems about them
for every value of the constants. Paths below are relative to `src/ksmppc/src`.

## 1. Inventory

### Threads

| thread | runs | what it shares with the others |
|---|---|---|
| io thread | `io_service::run()`: every handler and timer callback of `SessionManager` | everything |
| sendingProcessor | pops `sendingBuffer`, calls `send_pdu()` | `currentState` (unlocked), `txQ`, the generator, `writeMutex` |
| recieveProcessor | pops `recieveBuffer`, forwards over kisscpp, retries | `recieveBuffer`, `rcv_errBuffer`, `running` |
| kisscpp workers | `SendHandler::run()` | `sendingBuffer` |
| main | the destructor: `running`, `stop()`, `session->stop()`, `join_all()` | `running`, `stopFlag`, `reconnectFlag`, `currentState`, `txQ` |

### Components

| component | state | operations | makes it correct |
|---|---|---|---|
| `SessionManager` | `currentState`, `stopFlag`, `reconnectFlag`, `w4rQ`, three timers, the socket | connect, read and write handlers, `process4state` per state and command, timers, `close_session`, `close_connection`, `send_pdu`, `stop` | socket and state agree; it always listens; a response finds its request; it comes back after a failure; `stop()` ends it |
| `TransmitQ` | three FIFO levels, the last object popped, persisted | `push`, `pop`, `push_back_last_pop`, `clearSessionQueues` | priority, order in a level, nothing but session traffic is dropped |
| rate limiter (`throttle_check`) | `throttleNextSendTime` | one call before each write | no more than the configured rate |
| sequence number generator | `mVal` | `next()` | a number identifies one request; it comes back only after all the others |
| gateway (`ksmppc`) | `sendingBuffer`, `recieveBuffer`, `rcv_errBuffer`, `running` | constructor, two processor threads, the destructor | messages are conserved and keep their order; the threads end |
| `SendHandler` | none | turns a request into a submit_sm and queues it | a request is queued once, or answered with an error message |
| `RawPdu` | header and body buffers | `headerBuf()`, `bodyBuf()`, `bodyLength()`, the fields of the header | the buffers outlive the reads that fill them |
| codec, config, `util`, `main` | none at run time | conversions, reading values at start | out of scope: no state |
| locks | `writeMutex`, `w4rQMutex`, the generator's | `do_write`, `handle_write`, `w4rQ_*`, `next()` | order, no deadlock |

### How they interact

`send_pdu()` (sendingProcessor), `stop()` (main) and the handlers (io thread) all end in
`do_write()`: push on `txQ`, and, if the queue was empty before, `write_pdu()`: pop, number the
PDU if it has no number, throttle, `async_write`. `handle_write` puts the last PDU popped into
`w4rQ`, and continues with the queue while `canSend()`. A response erases the entry of `w4rQ` with
its number. `w4rQ_age_cleanup` pushes old entries back on the queue. Every reason to close
(`handle_read_*` errors, `handle_write` errors, unbind, unbind_resp, an enquire_link that was not
answered, `stop()`) sets or clears `reconnectFlag` and posts `close_connection()`, which cancels
the timers, clears the session levels, closes the socket and reconnects if the flag still says so.
A deliver_sm is pushed on `rxQ`, which is the gateway's `recieveBuffer`, and answered at once; the
gateway's two threads only meet the session in that buffer and in `send_pdu()`.

### Hard behaviours

* The io thread's queue: completions, aborts and posted `close_connection()`s of an old
  connection are handled after the new one has begun.
* Two `async_write`s at once: a non-empty queue is taken for a write in progress, but `pop()`
  empties it before the write is done; `last_pop_object()` is then the younger PDU.
* `send_pdu()` reads `currentState` without a lock and acts on it later; `stop()` and the io
  thread both write `reconnectFlag`.
* Messages that outlive a connection or a run of the program: put back, aged, persisted.
* Recovery: refusal, end-of-file, reset, no answer to enquire_link, unbind in either direction.
* Number reuse: three places write PDUs, two of them retries.
* Shutdown: four threads leave at different times while requests and deliveries still arrive, and
  the next process starts from the buffers it finds.

PROJECT.json lists the hazards line by line, with the properties that cover each and why the rest
are not covered yet.

## 2. Modules

| module | models | proofs |
|---|---|---|
| `SmppLink` | what the rest of the program may rely on of a session | |
| `SessionManager` | the session, its io_service, the connection, the MC, the threads that call it | `SessionManager_proof`, `SessionNumbers_proof`, `SessionLink_proof`, `SessionAnswers_proof`, `SessionAlive_proof` |
| `TransmitQ` | operators on the queue (`transmit_queue.hpp`) | in the former |
| `MCSessionManager` | values of `Backlog` for TLC | |
| `Ksmppc` | the gateway: buffers, threads, `SendHandler`, destructor, restart | `Ksmppc_proof` |
| `Throttle` | `throttle_check()` with its period and a sleep that may overrun | `Throttle_proof` |
| `WritePdu` | `write_pdu()`: `Throttle` and the sequence number generator with its wrap | `WritePdu_proof` |

`SessionManager` implements `SmppLink` (property `ImplementsLink`, theorem `SessionImplementsLink`), and
`Ksmppc` instantiates `SmppLink` for the session it runs on: what is shown of the gateway holds over every
session that keeps the abstract promise, this one among them. `WritePdu` extends `Throttle`: each of its
steps is a step of `Throttle`, of the generator, or of both, by its definition.

### Correspondence: SmppLink

`state` is `currentState` with one BOUND for three; `conn` the socket; `accepted` says that a
bind_resp with ESME_ROK lies between the MC and the session. The actions are what the handlers do to these three:
`Open` and `Retry` are the two branches of `handle_connect`, `Bind` `procpdu_bind_resp`, `Unbind` the two
unbind handlers, `Fail` the errors of reads and writes, `Close` `close_connection()`. In the refinement
`accepted` is an accepting bind_resp in `inbox` or `ready`. An acceptance may be lost at any step and
may arrive late; that it belongs to the *present* connection is not promised (a bind_resp read
before a reconnect can be handled after it).

### Correspondence: SessionManager

* `currentState`, `stopFlag`, `reconnectFlag`, `w4rQ`: the members of those names. `OUTBOUND` is in
  the code's enumeration and is never assigned, so it is not among `States`.
* `tx`: what `write_pdu` works on under `writeMutex`: the queue, the last object popped, the
  generator's `mVal`, and `fly`, the `async_write`s that have not completed.
* `ready`: the completion handlers the io_service has queued, in order. One thread calls
  `run()`, so a handler is one atomic step from the head of `ready`, everything it calls
  included. `handle_read_body` is cut by the PDU that `process4state` sees into the `Proc...` actions,
  which share `ReadNext`: `w4rQ_pop`, `reschedule_enquire_link`, the next read.
  `w4rQ_age_cleanup` is the exception: its loop writes several PDUs and takes `writeMutex`
  for each, so it is three actions between which other threads, but no other handler, may run.
* `timers`: pending `async_wait`s. An expiry moves a timer to `ready`; cancelling one
  removes it only if it has not expired yet, which is the race of `deadline_timer::cancel()`.
* `thread`: sendingProcessor and main. `send_pdu()`, `stop()` and `do_write()` are cut at each access
  to shared state (`stop()`: `stopFlag`, `reconnectFlag`, `currentState`, the posted close); `busy` is the local variable of `do_write()`. A pc inside push..write means that
  `writeMutex` is held; the io thread's writing handlers wait for it (`MutexFree`).
* `sock`, `attempt`, `reads`, `peer`, `inbox`, `mcQ`, `mcState`, `left`: the environment.

### Correspondence: Ksmppc

* `running`, `sendingBuffer`, `recieveBuffer`, `rcv_errBuffer`: the members of those names. `main` is the
  main thread's place in the destructor, `ioRunning` the io thread's.
* `sender` and `receiver`: the loops of the two threads. The test of `running` is one step (`SenderTests`), and
  the test of the buffer with the sleep or the pop another (`SenderSleeps`, `SenderTakes`): a thread that tested the flag
  before it was cleared still takes a message, one that was queued later included. The test of the buffer and the pop are one step since
  a buffer has one thread that pops, so that nothing can empty it in between. `running` is a plain
  bool read without a lock; the model reads its present value, which is all that a
  thread that sleeps or calls a library function in every round can see.
* `SenderSends`: `send_pdu()` takes what the state has a use for and drops the rest. `txQ` and `dropped` are
  histories, as are `done`, `received`, `retried` and `mcAccepted`.
* `SendHandler`: a request is queued, or its conversion throws before the push and it is answered with an error
  message. Both get RQST_SUCCESS.
* The client call returns, or throws one of the two exceptions, the application having received the message or not.
* `SessionStops` and `SessionGivesUp`: `io_service::run()` returns after `stop()`, or when the session has been
  given up (finding 4).
* `Restarts`: a new process, which finds the three buffers on disk. Only an orderly
  end is modelled: what a crash leaves on disk is up to kisscpp.

### Correspondence: WritePdu

`mVal` is the generator's; `given` the history of what `next()` returned. `TakeNumber` is the call in
`do_bind_request()` and `do_enquire_link()`, whose PDU waits with its number; `WriteUnnumbered` and `WriteNumbered`
are the two branches of `write_pdu()`. `next()` locks a mutex and is one step.

### External behaviour, taken from how the code uses it

* **Asio.** `async_connect` over a list of endpoints closes the socket before each attempt, so a
  second `connect()` aborts the first, and anything on the socket. Closing posts the aborted reads, connect and writes.
  An operation on a socket that is closed, refused or reset fails at once, if
  nothing of its kind is pending; otherwise it stays pending. A completed connection attempt
  is reported as aborted if the socket has been closed when its handler is dispatched.
* **kisscpp queue.** `pop()` serves the lowest-numbered level that holds something,
  `push_back_last_pop()` puts the object back at the front of its level. Memory and disk are
  one sequence. `pop()` of an empty queue is a null pointer, which `write_pdu()`
  follows (`DoWriteCrashes`).
* **MC.** Answers binds and enquire_links; other requests only while bound (else generic_nack);
  may reject a bind, send requests while bound, an outbind before, and end a connection, by an
  end-of-file that can cut the last PDU after its header, or by a reset that loses what was not
  read. It answers in any order (`mcQ` is a set).

### Abstractions

One command (`submit`) stands for every message an application can send: the code treats them alike
but for the constructor. PDUs are a command, a number and an identity; contents, encoding and logging
are left out. `sleep()` and `usleep()` take no time (Throttle has the timing). A PDU whose
constructor throws is `garbled`, a request that any state but CLOSED decodes (enquire_link is one), or `garbled_resp`, the answer to a
submit, which BOUND_TX and BOUND_TRX decode. `ProcGarbled` is the exception path of `process4state`, in each of these
states, and the read that follows it. When two reads are pending on one
socket, a header read that meets a body waits for ever (the length it takes from the body is
arbitrary). `w4rQ_age_cleanup` erases the element its iterator stands on and increments it: undefined
behaviour, modelled as passing over any of the PDUs after it. `initiate()` has no caller and is left out.

## 3. Runs

Bounds named in the modules: `NMsg`, `MaxRefusals`, `MaxDrops`, `MaxRequests`, `MaxTicks`, `MaxSeq`
(SessionManager), `NSend`, `NDeliver` (Ksmppc), `MaxOversleep`, `MaxTime`, `MaxSends` (Throttle),
`MaxGiven` (WritePdu). All safety runs let the environment act at any time (`Quiet = FALSE`). Deadlock
is not checked: the session really stops (`run()` returns) and every bound is a place where a
behaviour ends.

| run | asks | bounds and why they are enough |
|---|---|---|
| `gateway` | conservation, order, shutdown and retries of the gateway | three requests and two deliveries: a message before, in and behind the one in a thread's hand; any number of shutdowns, restarts and failing calls. TX and RX, the two halves of TRX, which share only the session and the destructor; the theorems cover TRX |
| `write_pdu` | at most two PDUs in any period; numbers over the wrap | five sends: every triple follows waits and non-waits; overruns up to 2 ticks of a period of 3 (10 div 3: the rounding is exercised); seven numbers out of three: two wraps |
| `session_safety` | the refinement of `SmppLink`; socket and state, listening, never given up; types | one of each: refusal, drop, MC request (deliver_sm, garbled in any state, unbind or outbind), message. A drop plus a refusal already puts completions of three connections into one queue |
| `session_numbers` | unique numbers, responses match, the sender finds its message | a drop, a tick (an aged PDU or an enquire_link), two messages, so that put-back, resend, both numbering threads and the clearing of the queue overlap; `stop()` at any moment, its crash (`DoWriteCrashes`) included |
| `session_writing` | a queue that is not empty is being written; responses keep their number | two messages, a tick and an MC request: the sender, a timer and the MC's request each want to write while another does. No drops: a put-back breaks the property (finding 3). `W4RLimit = 1` changes nothing here: only a put-back or a backlog leaves a queue for `canSend()` to hold back |
| `session_rebinds` | after refusals, dropped connections and unanswered enquire_links the session is bound again | two refusals, two drops, one enquire_link, which the response timer may overtake; `Quiet` ends connections when the io thread is idle |
| `session_stop` | `stop()` at any moment returns, and the io thread ends | a refusal, an end-of-file and a message at any moment of connecting, binding, unbinding. No reset, garbled PDU or enquire_link: with any of them `stop()` can crash (below) |
| `throttle_spacing` | finding 1 | violated |
| `w4rq_only_sent` | finding 2 | violated |
| `queue_busy_backlog` | finding 3 | violated, one persisted message |
| `abandoned` | finding 4 | violated, one drop and one enquire_link |
| `rebinds_writing` | finding 5 | violated, one reset |

Bounds are one or two of each event because the interactions of interest are pairs: an old
connection with a new one, a retry with a fresh request, a timer with an answer.

### What the properties say

* `ImplementsLink`: seen from outside, the session is bound only by a bind the MC accepted over a
  connection that was up, opened only by a connection attempt, and unbound only from bound.
* `SocketBehindSession`: no order of attempts, late completions and closes leaves an open or
  bound session with a closed socket. The socket may be another one than the session was opened over, and still connecting.
* `KeepsListening`: an open session has a read pending, or a completion or close queued.
* `NeverAbandoned`: unless it is being stopped, something will call the io thread back.
* `SeqIdentifiesRequest`: two requests with one number are one request, wherever queues, threads,
  retries and the MC hold them.
* `AnswersMatch`: the entry of `w4rQ` that a response erases is the request it answers, whatever its number.
* `SenderFindsMessage`: no `close_connection()` takes the message away between the push and the pop of sendingProcessor's
  `do_write()`. The same is not true of the unbind that `stop()` writes (`DoWriteCrashes`).
* `QueueMeansBusy`: the comment of `do_write()`, while a connection holds.
* `ResponsesKeepNumber`: responses leave under their request's number, if it is above Min.
* `TwoSendsPerPeriod`: what the limiter does guarantee.
* `RecentNumbersDiffer`: any Max - Min + 1 numbers in a row are different.
* `RequestsKept`, `DeliveriesKept`: the places a message can be in partition the messages so far.
* `SubmittedInOrder`, `OvertakenOnlyByRetry`: order, and the one thing that breaks it.
* `NoTrafficBeforeBind`: what the gateway gets out of `SmppLink`.
* `StopEnds`: `stop()` gets through its `close_session()` and returns, and `io_service::run()` returns. A thread that died of
  a null pointer has not done either.
* `Rebinds`, `StopEnds`, `DestructorReturns`, `EveryDeliveryIsTried`: liveness, under the fairness below.

Each has a mutant: a plausible bug, written as an operator before the definition it
replaces, that makes TLC find the property violated.

### Fairness

SessionManager: weak fairness of the io thread and of each step of the other threads (the operating system
schedules them, and no loop of theirs spins on a condition another must hold), of the network's
operations, of a connection attempt *n* as long as it is not replaced (two attempts that replace each
other are two distinct *n*, so that a chase is not hidden by fairness), of the MC's answers, and of
the timers. Nothing obliges the MC to ask or to drop, or main to call `stop()`.

Ksmppc: weak fairness of the two threads (a client call has a timeout of 5 seconds, so it ends),
of the destructor once it has begun, and of `SessionStops`, which is the session's `StopEnds`: `DestructorReturns` assumes it, and
with it that `stop()` does not crash and that no unbind of the MC crosses it. Nothing obliges the
session to bind, the MC to deliver, or applications to ask.

### What the passing runs leave out, and why

* `session_rebinds`: a drop that meets a write, a resend or a queued completion (`Quiet`), since
  both the read and the write then notice it (finding 5), or it hits the moment of finding 4; and an unbind
  from the MC, since `procpdu_unbind` posts a close, and the read it issues is then aborted, whose handler posts
  another close with `reconnectFlag` set: the same chase. `session_safety` includes all of these.
* `session_stop`: an unbind from the MC, since `procpdu_unbind` clears `stopFlag` (see `SessionNeverAbandoned` below); resets
  (`DropKinds`), garbled PDUs (`MCSends`), and an enquire_link while the connection lives (`MaxTicks = 0`). Each of the three makes the io thread
  call `close_session()`, which queues a `close_connection()` and leaves the session bound (an end-of-file sets CLOSED first).
  With any of them allowed TLC violates `StopEnds`: `stop()` finds the session bound and pushes its unbind, the queued `close_connection()` clears the
  queue, and `write_pdu()` follows the null pointer that `pop()` returns (`session_manager.cpp:371-373`). The code does that; no line of the
  repository says that it does not, so it is a hazard and not a finding. `session_numbers` has the crash among its steps.
* `session_numbers`: a backlog that was numbered in an earlier run. With `Backlog = <<2>>` TLC
  violates `SeqIdentifiesRequest`, as the generator starts at Min again.
* `MaxSeq` stops the generator: `StopEnds` holds or the bound was met (`OutOfNumbers`).
* The limit of `canSend()`: no property states it, because `do_write()` does not look at it.

## 4. Findings

1. `session_manager.hpp:220` calls `timeBetweenSends` "microseconds between sends". The next
   send time is computed from the clock before the sleep, so a PDU that waited is followed at once
   by the next. At most two leave in a period (`TwoSendsPerPeriod`).
2. `session_manager.cpp:319` records the last PDU popped as "successfully sent". With two writes
   in flight it is the younger one, still being written; the older one is never waited for.
3. `session_manager.cpp:358`, "if the queue is not empty, we are busy writing": not with messages
   left from an earlier run, nor with one that a failed write put back. The bind request is
   then queued and nobody writes it.
4. `session_manager.cpp:882`, "Restart everything": `close_session(false)` clears the `reconnectFlag`
   set just before. If the connection ends at that moment the session stays closed and
   `run()` returns.
5. `ksmppc.hpp:57-58` counts re-connects of the session manager as done. When a connection is
   reset while the bind is being written, the read's error and the write's error each post a
   `close_connection()` and set `reconnectFlag`. Two chains of attempts follow, each writes a bind and starts a
   read; the two reads share one socket and take each other's headers for bodies, and the session stays OPEN.

## 5. Proofs

All are safety, for every value of the constants that satisfies the named assumption of the module
(the types of the constants; for Throttle also a limit in `1 .. Second`, for WritePdu `SeqMin < SeqMax`).

* **`WritePduTypeOK`, `WritePduTwoSendsPerPeriod`.** They follow from the same theorems of `Throttle_proof`, as a behaviour of `WritePdu` is
  one of `Throttle` by its definition. `TwoSendsPerPeriod` says nothing about the
  next send; the inductive invariant of `Throttle_proof` adds that the last send is not in the future
  (`LastSendIsPast`), and that `throttleNextSendTime` is a period after the last send but one
  (`NextSendIsLate`); a call that waits, waits for that time.
* **`WritePduRecentNumbersDiffer`.** The inductive invariant (`GivenInTurn`) says what the last `Cycle - 1` entries of the
  history are: the one given `d` calls ago is `mVal - d`, a cycle higher if that is below Min. The next number is none of them.
* **`SessionTypeOK`.** `TypeOK` is inductive; lemmas on `TransmitQ` and on the writing operators
  (`PopPduType`, `DoWriteType`, ...) give the type of what each handler makes, one
  lemma per group of actions follows.
* **`SessionSocketBehindSession`.** Inductive by itself. Only `HandleConnectOk`
  leaves CLOSED, and its guard asks for a socket that is not closed; the other handlers that set
  an open or bound state start from one. Only `CloseConnection` closes the socket, and it sets CLOSED.
* **`SessionKeepsListening`.** A handler that consumes the pending read either issues the next one (which is
  pending or queues its failure) or posts a close, unless `stop()` came first; what is queued stays
  queued until the io thread takes it.
* **`SessionImplementsLink`.** The initial states map, and each step maps to a step of `SmppLink` or a stutter. The work is in
  `accepted`: what lies in `inbox` and `ready` only shrinks, but for the MC's answers (`Accept`), and a
  bind_resp moves from one to the other unchanged.
* **What is queued.** Two lemmas of `SessionLink_proof`, `EnvironmentPosts` and `HandlerPosts`, say for each action which completions it
  leaves in `ready`, as sets. `SessionAnswersMatch` and `SessionNeverAbandoned` rest on them.
* **`SessionSeqIdentifiesRequest`.** Under `BacklogIsNew`: no persisted message has been
  numbered. `SeqIdentifiesRequest` is not inductive, because the next number must be free. `SeqInv` adds
  `NumbersBelow`: every number in use is below `mVal`. The argument has one shape
  (`SeqStep`): a step keeps the requests it had and makes at most one new numbered one, under
  the old `mVal`, with `mVal` raised past it. Most of the work is showing that each way of
  writing has that shape (`DoWriteSeq`, `NewRequestNumbers`), the two threads' split
  `do_write()` included, where a PDU is in the thread's hands between pop and write. The assumption is needed:
  see section 3.
* **`SessionAnswersMatch`.** Under `BacklogIsNew` too. The inductive invariant (`AnswersInv`) widens `w4rQ` to every request
  that is held anywhere (`AnswersFit`), and says that the number of an answer is in the past (`AnswersBelow`), so that no later request
  can be given it. A step then is one of two kinds: no response arrives (`NoAnswerArrives`), for which it is enough that new numbers
  are from `mVal` on (`SeqKept`) and that handlers move PDUs without making any (the lemmas of `SessionLink_proof`); or
  the MC answers, under the number of a request it holds, which `SeqIdentifiesRequest` makes the only one.
  For the numbers up to Min, which are no numbers, `NumInv` is needed besides: before the generator has given one the session
  has written nothing (`Fresh`), and the PDU popped last has a number unless nothing has been written at all
  (`NothingWritten`); so what waits in `w4rQ` is a numbered request. Were it not, an answer numbered Min could erase it.
* **`SessionSenderFindsMessage`.** Inductive with mutual exclusion (`OneInside`: one thread is between push and write). The io thread's
  handlers that write wait for `writeMutex`, and those that do not wait leave the messages where they are or add one (`MessagesStay`); main
  does not pop while the sender is inside.
* **`SessionNeverAbandoned`.** Under `Uninterrupted`: the response timer does not expire, and where `stop()` may be called the MC sends no
  unbind. Neither can be spared: the first is finding 4; for the second, TLC violates `NeverAbandoned` with `MayStop = TRUE` and
  `MCSends = {"unbind"}`, since `procpdu_unbind` clears `stopFlag` after `stop()` has set it. Refusals, rejections, ends of
  connections, unbinds without `stop()`, backlogs and all other timers are free. `NeverAbandoned` says nothing of the future; `AliveInv` adds
  what will call the io thread back (`Called`): a read or a connection attempt, its completion, or a queued close with `reconnectFlag` set.
  A handler that consumes the one leaves another, and no thread dies since the sender finds its message. Once `stopFlag` is set it stays,
  as no unbind is on its way (`NoUnbind`, `LivesOrStops`).
* **`SessionQueueMeansBusy`.** For an empty backlog and a behaviour in which no write fails (`NoWriteFailed`: no completion of an
  `async_write` with an error is ever queued). Both are needed: finding 3 is what a backlog does, and a write that fails
  puts its PDU back with the same effect. Refused and ended connections, unbinds and `stop()` are free. The inductive invariant (`QueueInv`) is
  sharper than the comment: the queue is empty but between the push and the pop of a thread that has `writeMutex`, where it holds the
  one PDU that thread has pushed (`HoldsOne`), unless `close_connection()` has cleared it. Each handler that
  writes pops what it has pushed (`DoWriteEmpties`). TLC has checked `QueueInv` with the constants of four of the runs,
  restricted to states without a failed write.
* **The gateway's theorems.** `GatewayKeepsRequests` and `GatewayKeepsDeliveries`: the partitions are inductive together with
  the types, over lemmas on what popping the head and pushing to the back do to the range and the injectivity of a
  sequence. `Threads` adds that a thread
  that is not using a message holds none, which is why `join_all()` before the restart matters.
  `GatewaySubmitsInOrder` adds that `sendingBuffer` itself is ascending. `GatewayOvertakesByRetry` adds the order of
  `recieveBuffer` (`RetriedBehind`): a younger delivery in front of an older one means that the older one was retried.
  `GatewayBindsFirst` is an action property: a bound session or an acceptance on its way implies `mcAccepted`.

Only model-checked: liveness (`Rebinds`, `StopEnds`, `DestructorReturns`, `EveryDeliveryIsTried`), which the
prover does not reach. Every invariant and action property that a passing run checks is also stated by a theorem, the ones named
above under an assumption or for every environment. Induction over data and ENABLED are out of the prover's reach as well; no RECURSIVE
operator is used.

## 6. Not modelled

* `RawPdu`: a leaf class that one `shared_ptr` hands from the header's read to the body's; nothing interleaves with it.
  What a header's length below 16 does to `bodyLength()` is listed as a hazard only.
* The codec (`smpppdu_queue.hpp`): a switch over command ids into constructors of an external library; it keeps no state.
* Configuration, `util`, `main`: read at start; they appear as constants.
* `w4rQMutex`: only the io thread takes it, so it can neither order nor block anything.
* The bytes on the wire (`tbuf`, a local string given to `async_write`) and the contents of PDUs.
* Crashes of the process, and what kisscpp's queues leave on disk then; a change of bind-type between two processes.
* The order in which the members are destroyed after `~ksmppc()`.
* `initiate()` and `process4state_outbound()`, which nothing reaches.

## 7. Plan

1. The gateway over `SessionManager` itself for a small instance, in place of `SmppLink`.
2. That no write fails (`NoWriteFailed`) in the environment of `session_writing`: neither the MC nor a timer ends a connection.
