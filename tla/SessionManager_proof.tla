------------------------ MODULE SessionManager_proof ------------------------
(***************************************************************************)
(* Proofs about SessionManager, for every type of bind, every backlog, any *)
(* number of messages, drops, refusals, requests and timer expiries.       *)
(***************************************************************************)
EXTENDS SessionManager, SequenceTheorems, TLAPS

-----------------------------------------------------------------------------
(* The elements of a sequence.                                             *)

Elems(s) == {s[i] : i \in DOMAIN s}

\* Taking from and adding to a sequence.
LEMMA ElemsOf ==
    ASSUME NEW S, NEW s \in Seq(S)
    PROVE  /\ Elems(s) \subseteq S
           /\ s # <<>> => Head(s) \in Elems(s) /\ Elems(Tail(s)) \subseteq Elems(s)
           /\ \A e \in S : Elems(Append(s, e)) \subseteq Elems(s) \union {e}
           /\ \A e \in S : Elems(<<e>> \o s) \subseteq Elems(s) \union {e}
<1>1. Len(s) \in Nat /\ DOMAIN s = 1 .. Len(s)
  BY LenProperties
<1>2. Elems(s) \subseteq S
  BY <1>1, ElementOfSeq DEF Elems
<1>3. s # <<>> => Head(s) \in Elems(s)
  BY <1>1, HeadTailProperties, EmptySeq DEF Elems
<1>4. s # <<>> => Elems(Tail(s)) \subseteq Elems(s)
  <2> SUFFICES ASSUME s # <<>>, NEW i \in DOMAIN Tail(s)
               PROVE  Tail(s)[i] \in Elems(s)
    BY DEF Elems
  <2>1. Len(Tail(s)) = Len(s) - 1 /\ Tail(s) \in Seq(S)
    BY HeadTailProperties
  <2>2. i \in 1 .. Len(s) - 1
    BY <2>1, LenProperties
  <2>3. Tail(s)[i] = s[i + 1]
    BY <2>1, <2>2, HeadTailProperties
  <2>4. i + 1 \in DOMAIN s
    BY <1>1, <2>2
  <2>5. QED
    BY <2>3, <2>4 DEF Elems
<1>5. \A e \in S : Elems(Append(s, e)) \subseteq Elems(s) \union {e}
  <2> SUFFICES ASSUME NEW e \in S, NEW i \in DOMAIN Append(s, e)
               PROVE  Append(s, e)[i] \in Elems(s) \union {e}
    BY DEF Elems
  <2>1. Len(Append(s, e)) = Len(s) + 1 /\ Append(s, e) \in Seq(S)
    BY AppendProperties
  <2>2. i \in 1 .. Len(s) + 1
    BY <2>1, LenProperties
  <2>3. CASE i = Len(s) + 1
    BY <2>3, AppendProperties
  <2>4. CASE i \in 1 .. Len(s)
    BY <1>1, <2>4, AppendProperties DEF Elems
  <2>5. QED
    BY <1>1, <2>2, <2>3, <2>4
<1>6. \A e \in S : Elems(<<e>> \o s) \subseteq Elems(s) \union {e}
  <2> SUFFICES ASSUME NEW e \in S, NEW i \in DOMAIN (<<e>> \o s)
               PROVE  (<<e>> \o s)[i] \in Elems(s) \union {e}
    BY DEF Elems
  <2>1. <<e>> \in Seq(S) /\ Len(<<e>>) = 1 /\ <<e>>[1] = e
    OBVIOUS
  <2>2. Len(<<e>> \o s) = 1 + Len(s) /\ <<e>> \o s \in Seq(S)
    BY <2>1, ConcatProperties
  <2>3. i \in 1 .. 1 + Len(s)
    BY <2>2, LenProperties
  <2>4. (<<e>> \o s)[i] = IF i <= 1 THEN <<e>>[i] ELSE s[i - 1]
    BY <2>1, <2>2, <2>3, ConcatProperties
  <2>5. CASE i = 1
    BY <2>1, <2>4, <2>5
  <2>6. CASE i # 1
    <3>1. i - 1 \in DOMAIN s /\ ~(i <= 1)
      BY <1>1, <2>3, <2>6
    <3>2. QED
      BY <2>4, <3>1 DEF Elems
  <2>7. QED
    BY <2>5, <2>6
<1>7. QED
  BY <1>2, <1>3, <1>4, <1>5, <1>6

\* A sequence that is not empty: the first element and those of the rest.
LEMMA ElemsTail ==
    ASSUME NEW S, NEW s \in Seq(S), s # <<>>
    PROVE  Elems(s) = {Head(s)} \union Elems(Tail(s))
<1>1. /\ Len(s) \in Nat /\ DOMAIN s = 1 .. Len(s)
      /\ Tail(s) \in Seq(S) /\ Len(Tail(s)) = Len(s) - 1 /\ Head(s) = s[1]
      /\ \A k \in 1 .. Len(s) - 1 : Tail(s)[k] = s[k + 1]
  BY LenProperties, HeadTailProperties
<1>2. DOMAIN Tail(s) = 1 .. Len(s) - 1
  BY <1>1, LenProperties
<1>3. ASSUME NEW i \in DOMAIN s
      PROVE  s[i] \in {Head(s)} \union Elems(Tail(s))
  <2>1. CASE i = 1
    BY <1>1, <2>1
  <2>2. CASE i # 1
    <3>1. i - 1 \in 1 .. Len(s) - 1 /\ (i - 1) + 1 = i
      BY <1>1, <1>3, <2>2
    <3>2. Tail(s)[i - 1] = s[i]
      BY <1>1, <3>1
    <3>3. QED
      BY <1>2, <3>1, <3>2 DEF Elems
  <2>3. QED
    BY <2>1, <2>2
<1>4. Elems(s) \subseteq {Head(s)} \union Elems(Tail(s))
  BY <1>3 DEF Elems
<1>5. QED
  BY <1>4, ElemsOf

\* One sequence behind the other.
LEMMA ElemsConcat ==
    ASSUME NEW S, NEW s \in Seq(S), NEW r \in Seq(S)
    PROVE  s \o r \in Seq(S) /\ Elems(s \o r) = Elems(s) \union Elems(r)
<1>1. /\ Len(s) \in Nat /\ DOMAIN s = 1 .. Len(s)
      /\ Len(r) \in Nat /\ DOMAIN r = 1 .. Len(r)
  BY LenProperties
<1>2. /\ s \o r \in Seq(S) /\ Len(s \o r) = Len(s) + Len(r)
      /\ \A i \in 1 .. Len(s) + Len(r) :
           (s \o r)[i] = IF i <= Len(s) THEN s[i] ELSE r[i - Len(s)]
  BY ConcatProperties
<1>3. DOMAIN (s \o r) = 1 .. Len(s) + Len(r)
  BY <1>2, LenProperties
<1>4. ASSUME NEW i \in 1 .. Len(s) + Len(r)
      PROVE  \/ i \in 1 .. Len(s) /\ (s \o r)[i] = s[i]
             \/ i - Len(s) \in 1 .. Len(r) /\ (s \o r)[i] = r[i - Len(s)]
  BY <1>1, <1>2
<1>5. ASSUME NEW i \in 1 .. Len(s)
      PROVE  i \in 1 .. Len(s) + Len(r) /\ (s \o r)[i] = s[i]
  BY <1>1, <1>2
<1>6. ASSUME NEW k \in 1 .. Len(r)
      PROVE  k + Len(s) \in 1 .. Len(s) + Len(r) /\ (s \o r)[k + Len(s)] = r[k]
  <2>1. k + Len(s) \in 1 .. Len(s) + Len(r) /\ ~(k + Len(s) <= Len(s))
    BY <1>1
  <2>2. (k + Len(s)) - Len(s) = k
    BY <1>1
  <2>3. QED
    BY <1>2, <2>1, <2>2
<1>7. \A e \in Elems(s \o r) : e \in Elems(s) \/ e \in Elems(r)
  BY <1>1, <1>3, <1>4 DEF Elems
<1>8. \A e \in Elems(s) : e \in Elems(s \o r)
  BY <1>1, <1>3, <1>5 DEF Elems
<1>9. \A e \in Elems(r) : e \in Elems(s \o r)
  <2>1. ASSUME NEW k \in DOMAIN r PROVE r[k] \in Elems(s \o r)
    BY <1>1, <1>3, <1>6, <2>1 DEF Elems
  <2>2. QED
    BY <2>1 DEF Elems
<1>10. QED
  BY <1>2, <1>7, <1>8, <1>9

\* One element, and none.
LEMMA ElemsOne == Elems(<<>>) = {} /\ \A e : Elems(<<e>>) = {e}
<1>1. Elems(<<>>) = {}
  BY DEF Elems
<1>2. ASSUME NEW e PROVE Elems(<<e>>) = {e}
  <2>1. DOMAIN <<e>> = {1} /\ <<e>>[1] = e
    OBVIOUS
  <2>2. QED
    BY <2>1 DEF Elems
<1>3. QED
  BY <1>1, <1>2

-----------------------------------------------------------------------------
(* The transmit queue and the operators that write from it keep their types. *)

Queues == [Levels -> Seq(Pdu)]

\* The three levels, and what a level of a queue holds.
LEMMA LevelsAre == Levels = {SESSION, RESPONSE, MESSAGE}
  BY DEF Levels, SESSION, RESPONSE, MESSAGE

\* A PDU in hand: its fields, and that it stays one under another number.
LEMMA PduFields ==
    ASSUME NEW p \in Pdu
    PROVE  /\ p.cmd \in Commands /\ p.seq \in Nat /\ p.ref \in Nat
           /\ \A n \in Nat : [p EXCEPT !.seq = n] \in Pdu
  BY DEF Pdu

\* A PDU made from its three fields.
LEMMA NewPduType ==
    ASSUME NEW cmd \in Commands, NEW seq \in Nat, NEW ref \in Nat
    PROVE  NewPdu(cmd, seq, ref) \in Pdu
  BY DEF NewPdu, Pdu

\* The commands that the session's own code puts into a PDU.
LEMMA CommandsAre ==
    /\ {"bind", "submit", "enquire", "unbind", "deliver", "outbind",
        "generic_nack", "bind_reject", "garbled_resp"} \subseteq Commands
    /\ \A c \in DOMAIN ResponseOf : ResponseOf[c] \in Commands
    /\ {"bind_resp", "submit_resp", "enquire_resp", "unbind_resp",
        "deliver_resp"} \subseteq Commands
<1>1. {"bind", "submit", "enquire", "unbind", "deliver", "outbind",
       "generic_nack", "bind_reject", "garbled_resp"} \subseteq Commands
  BY DEF Commands, Requests, MCRequests, Responses
<1>2. \A c \in DOMAIN ResponseOf : ResponseOf[c] \in Commands
  BY DEF Commands, Responses
<1>3. {"bind_resp", "submit_resp", "enquire_resp", "unbind_resp",
       "deliver_resp"} \subseteq {ResponseOf[c] : c \in DOMAIN ResponseOf}
  BY DEF ResponseOf
<1>4. QED
  BY <1>1, <1>2, <1>3 DEF Commands, Responses

\* push() adds to one level.
LEMMA PushType ==
    ASSUME NEW q \in Queues, NEW p \in Pdu, NEW l \in Levels
    PROVE  Push(q, p, l) \in Queues
  BY DEF Queues, Push

\* pop() serves a level that holds something.
LEMMA TopLevelServes ==
    ASSUME NEW q \in Queues, ~IsEmpty(q)
    PROVE  TopLevel(q) \in Levels /\ q[TopLevel(q)] # <<>>
<1>1. \E l \in Levels : q[l] # <<>> /\ \A k \in Levels : k < l => q[k] = <<>>
  <2>1. CASE q[0] # <<>>
    BY <2>1, LevelsAre DEF SESSION, RESPONSE, MESSAGE
  <2>2. CASE q[0] = <<>> /\ q[1] # <<>>
    BY <2>2, LevelsAre DEF SESSION, RESPONSE, MESSAGE
  <2>3. CASE q[0] = <<>> /\ q[1] = <<>> /\ q[2] # <<>>
    BY <2>3, LevelsAre DEF SESSION, RESPONSE, MESSAGE
  <2>4. QED
    BY <2>1, <2>2, <2>3, LevelsAre DEF IsEmpty, SESSION, RESPONSE, MESSAGE
<1>2. QED
  BY <1>1 DEF TopLevel

\* pop() returns a PDU and leaves a queue.
LEMMA PopType ==
    ASSUME NEW q \in Queues, ~IsEmpty(q)
    PROVE  Front(q) \in Pdu /\ Pop(q) \in Queues
<1>1. TopLevel(q) \in Levels /\ q[TopLevel(q)] # <<>> /\ q[TopLevel(q)] \in Seq(Pdu)
  BY TopLevelServes DEF Queues
<1>2. Head(q[TopLevel(q)]) \in Pdu /\ Tail(q[TopLevel(q)]) \in Seq(Pdu)
  BY <1>1, HeadTailProperties
<1>3. QED
  BY <1>1, <1>2 DEF Front, Pop, Queues

\* push_back_last_pop() and clearSessionQueues() leave a queue.
LEMMA PutBackType ==
    ASSUME NEW q \in Queues, NEW p \in Pdu, NEW l \in Levels
    PROVE  PutBack(q, p, l) \in Queues
<1>1. <<p>> \in Seq(Pdu)
  OBVIOUS
<1>2. <<p>> \o q[l] \in Seq(Pdu)
  BY <1>1, ConcatProperties DEF Queues
<1>3. QED
  BY <1>2 DEF PutBack, Queues

\* clearSessionQueues() keeps a queue a queue.
LEMMA ClearSessionQueuesType ==
    ASSUME NEW q \in Queues
    PROVE  ClearSessionQueues(q) \in Queues
<1>1. <<>> \in Seq(Pdu)
  OBVIOUS
<1>2. QED
  BY <1>1 DEF ClearSessionQueues, Queues

\* The fields of a TxRecord, and the records made by changing one of them.
LEMMA TxFields ==
    ASSUME NEW t \in TxRecord
    PROVE  /\ t.q \in Queues /\ t.mVal \in Nat /\ t.fly \in Seq(Pdu)
           /\ t.last.pdu \in Pdu /\ t.last.level \in Levels
           /\ NextSeq(t) \in TxRecord
           /\ \A q \in Queues : [t EXCEPT !.q = q] \in TxRecord
           /\ \A fly \in Seq(Pdu) : [t EXCEPT !.fly = fly] \in TxRecord
<1> DEFINE L == [pdu : Pdu, level : Levels]
<1>1. TxRecord = [q : Queues, last : L, mVal : Nat, fly : Seq(Pdu)]
  BY DEF TxRecord, Queues
<1> HIDE DEF L
<1>2. t.q \in Queues /\ t.last \in L /\ t.mVal \in Nat /\ t.fly \in Seq(Pdu)
  BY <1>1
<1>3. t.last.pdu \in Pdu /\ t.last.level \in Levels
  BY <1>2 DEF L
<1>4. \A n \in Nat : [t EXCEPT !.mVal = n] \in TxRecord
  BY <1>1
<1>5. \A q \in Queues : [t EXCEPT !.q = q] \in TxRecord
  BY <1>1
<1>6. \A fly \in Seq(Pdu) : [t EXCEPT !.fly = fly] \in TxRecord
  BY <1>1
<1>7. NextSeq(t) \in TxRecord
  BY <1>2, <1>4 DEF NextSeq
<1>8. QED
  BY <1>2, <1>3, <1>5, <1>6, <1>7

\* write_pdu() up to the write.
LEMMA PopPduType ==
    ASSUME NEW t \in TxRecord, ~IsEmpty(t.q)
    PROVE  PopPdu(t) \in TxRecord
<1> DEFINE p == Front(t.q)
           s == IF NeedsSeq(p) THEN [p EXCEPT !.seq = t.mVal] ELSE p
<1>1. p \in Pdu /\ Pop(t.q) \in Queues /\ TopLevel(t.q) \in Levels
  BY PopType, TopLevelServes, TxFields
<1>2. s \in Pdu
  BY <1>1, PduFields, TxFields
<1>3. PopPdu(t) = [t EXCEPT !.q = Pop(@),
                            !.last = [pdu |-> s, level |-> TopLevel(t.q)],
                            !.mVal = IF NeedsSeq(p) THEN @ + 1 ELSE @]
  BY DEF PopPdu
<1>4. [pdu |-> s, level |-> TopLevel(t.q)] \in [pdu : Pdu, level : Levels]
  BY <1>1, <1>2
<1>5. t.mVal \in Nat /\ t.mVal + 1 \in Nat
  BY TxFields
<1> HIDE DEF s, p
<1>6. QED
  BY <1>1, <1>3, <1>4, <1>5 DEF TxRecord, Queues

\* write_pdu() keeps a TxRecord a TxRecord.
LEMMA WritePduType ==
    ASSUME NEW t \in TxRecord, ~IsEmpty(t.q)
    PROVE  WritePdu(t) \in TxRecord
<1> DEFINE u == PopPdu(t)
<1>1. u \in TxRecord
  BY PopPduType
<1>2. Append(u.fly, u.last.pdu) \in Seq(Pdu)
  BY <1>1, TxFields, AppendProperties
<1>3. QED
  BY <1>1, <1>2, TxFields DEF WritePdu

\* A queue is not empty after push(): do_write() never pops an empty queue.
LEMMA PushNotEmpty ==
    ASSUME NEW q \in Queues, NEW p \in Pdu, NEW l \in Levels
    PROVE  ~IsEmpty(Push(q, p, l))
<1>1. q[l] \in Seq(Pdu)
  BY DEF Queues
<1>2. Append(q[l], p) # <<>>
  BY <1>1, AppendProperties
<1>3. Push(q, p, l)[l] = Append(q[l], p)
  BY DEF Push, Queues
<1>4. QED
  BY <1>2, <1>3 DEF IsEmpty

\* do_write(), and the requests the session makes itself.
LEMMA DoWriteType ==
    ASSUME NEW t \in TxRecord, NEW p \in Pdu, NEW l \in Levels
    PROVE  DoWrite(t, p, l) \in TxRecord
<1> DEFINE u == [t EXCEPT !.q = Push(@, p, l)]
<1>1. t.q \in Queues /\ Push(t.q, p, l) \in Queues
  BY PushType, TxFields
<1>2. u \in TxRecord /\ u.q = Push(t.q, p, l)
  <2>1. u = [t EXCEPT !.q = Push(t.q, p, l)]
    OBVIOUS
  <2>2. u.q = Push(t.q, p, l)
    BY DEF TxRecord
  <2>3. QED
    BY <1>1, <2>1, <2>2, TxFields
<1>3. WritePdu(u) \in TxRecord
  BY <1>1, <1>2, PushNotEmpty, WritePduType
<1>4. QED
  BY <1>2, <1>3 DEF DoWrite

\* do_bind_request() does too.
LEMMA DoBindRequestType ==
    ASSUME NEW t \in TxRecord
    PROVE  DoBindRequest(t) \in TxRecord
<1>1. NextSeq(t) \in TxRecord /\ t.mVal \in Nat
  BY TxFields
<1>2. NewPdu("bind", t.mVal, 0) \in Pdu
  BY <1>1, NewPduType, CommandsAre
<1>3. QED
  BY <1>1, <1>2, DoWriteType, LevelsAre DEF DoBindRequest

\* So does do_unbind_request().
LEMMA DoUnbindRequestType ==
    ASSUME NEW t \in TxRecord
    PROVE  DoUnbindRequest(t) \in TxRecord
<1>1. NewPdu("unbind", SeqMin, 0) \in Pdu
  BY NewPduType, CommandsAre, SessionAssumption
<1>2. QED
  BY <1>1, DoWriteType, LevelsAre DEF DoUnbindRequest

\* async_write either leaves the PDUs in flight or fails them all at once.
LEMMA TransmitType ==
    ASSUME NEW t \in TxRecord, Transmit(t)
    PROVE  tx' \in TxRecord
<1>1. <<>> \in Seq(Pdu)
  OBVIOUS
<1>2. [t EXCEPT !.fly = <<>>] \in TxRecord
  BY <1>1, TxFields
<1>3. QED
  BY <1>2 DEF Transmit

-----------------------------------------------------------------------------
(* What is posted for the io thread has the type of "ready".               *)

\* An entry without a PDU.
LEMMA PostedType ==
    ASSUME NEW fn \in Handlers, NEW err \in Outcomes
    PROVE  Posted(fn, err) \in Entry
<1>1. NoPdu \in Pdu
  BY CommandsAre DEF NoPdu, Pdu
<1>2. QED
  BY <1>1 DEF Posted, Entry

\* The outcomes and the handlers, one by one.
LEMMA OutcomesAre ==
    /\ {"ok", "eof", "error", "aborted"} = Outcomes
    /\ {"connect", "header", "body", "write", "close", "enquire", "response",
        "age"} = Handlers
  BY DEF Outcomes, Handlers, Timers

\* As many entries as there are operations.
LEMMA EntriesType ==
    ASSUME NEW S, NEW s \in Seq(S), NEW e \in Entry
    PROVE  [i \in DOMAIN s |-> e] \in Seq(Entry)
<1>1. Len(s) \in Nat /\ DOMAIN s = 1 .. Len(s)
  BY LenProperties
<1>2. QED
  BY <1>1

\* The entries of writes that fail at once.
LEMMA WriteFailuresType ==
    ASSUME NEW t \in TxRecord
    PROVE  WriteFailures(t) \in Seq(Entry)
<1>1. Posted("write", "error") \in Entry
  BY PostedType, OutcomesAre
<1>2. [i \in DOMAIN t.fly |-> Posted("write", "error")] \in Seq(Entry)
  BY <1>1, EntriesType, TxFields
<1>3. <<>> \in Seq(Entry)
  OBVIOUS
<1>4. QED
  BY <1>2, <1>3 DEF WriteFailures

\* The entry that close_connection() is posted as.
LEMMA CloseEntryType == CloseEntry \in Entry /\ <<CloseEntry>> \in Seq(Entry)
<1>1. CloseEntry \in Entry
  BY PostedType, OutcomesAre DEF CloseEntry
<1>2. QED
  BY <1>1

\* An async_read, whether it fails at once or is pending.
LEMMA ReadType ==
    ASSUME NEW part \in {"header", "body"}, Read(part),
           reads \in Seq({"header", "body"})
    PROVE  /\ reads' \in Seq({"header", "body"})
           /\ ReadFailure(part) \in Seq(Entry)
<1>1. Append(reads, part) \in Seq({"header", "body"})
  BY AppendProperties
<1>2. Posted(part, "error") \in Entry
  BY PostedType, OutcomesAre
<1>3. <<Posted(part, "error")>> \in Seq(Entry) /\ <<>> \in Seq(Entry)
  BY <1>2
<1>4. QED
  BY <1>1, <1>3 DEF Read, ReadFailure

\* The entries of what closing the socket cuts short.
LEMMA AbortedType ==
    ASSUME reads \in Seq({"header", "body"}), tx \in TxRecord
    PROVE  Aborted \in Seq(Entry)
<1>1. /\ Posted("write", "aborted") \in Entry
      /\ Posted("connect", "aborted") \in Entry
      /\ \A part \in {"header", "body"} : Posted(part, "aborted") \in Entry
  BY PostedType, OutcomesAre
<1>2. [i \in DOMAIN reads |-> Posted(reads[i], "aborted")] \in Seq(Entry)
  <2>1. Len(reads) \in Nat /\ DOMAIN reads = 1 .. Len(reads)
    BY LenProperties
  <2>2. \A i \in 1 .. Len(reads) : reads[i] \in {"header", "body"}
    BY ElementOfSeq
  <2>3. QED
    BY <1>1, <2>1, <2>2
<1>3. (IF sock = "connecting" THEN <<Posted("connect", "aborted")>> ELSE <<>>)
        \in Seq(Entry)
  <2>1. <<Posted("connect", "aborted")>> \in Seq(Entry) /\ <<>> \in Seq(Entry)
    BY <1>1
  <2>2. QED
    BY <2>1
<1>4. [i \in DOMAIN tx.fly |-> Posted("write", "aborted")] \in Seq(Entry)
  BY <1>1, EntriesType, TxFields
<1>5. QED
  BY <1>2, <1>3, <1>4, ConcatProperties DEF Aborted

-----------------------------------------------------------------------------
(* Type correctness, one lemma for each group of actions.                  *)

\* The first entry of "ready" and the rest, when a handler runs.
LEMMA ReadyType ==
    ASSUME TypeOK, ready # <<>>
    PROVE  /\ Head(ready) \in Entry /\ Head(ready).pdu \in Pdu
           /\ Tail(ready) \in Seq(Entry)
<1>1. ready \in Seq(Entry)
  BY DEF TypeOK
<1>2. Head(ready) \in Entry /\ Tail(ready) \in Seq(Entry)
  BY <1>1, HeadTailProperties
<1>3. QED
  BY <1>2 DEF Entry

\* Posting keeps the type of "ready".
LEMMA PostType ==
    ASSUME NEW s \in Seq(Entry)
    PROVE  /\ \A r \in Seq(Entry) : s \o r \in Seq(Entry)
           /\ \A e \in Entry : Append(s, e) \in Seq(Entry)
  BY ConcatProperties, AppendProperties

\* Each bound can be used up.
LEMMA LeftType ==
    ASSUME NEW r \in [refusals : Nat, drops : Nat, requests : Nat, ticks : Nat]
    PROVE  /\ r.refusals > 0 => [r EXCEPT !.refusals = @ - 1]
                \in [refusals : Nat, drops : Nat, requests : Nat, ticks : Nat]
           /\ r.drops > 0 => [r EXCEPT !.drops = @ - 1]
                \in [refusals : Nat, drops : Nat, requests : Nat, ticks : Nat]
           /\ r.requests > 0 => [r EXCEPT !.requests = @ - 1]
                \in [refusals : Nat, drops : Nat, requests : Nat, ticks : Nat]
           /\ r.ticks > 0 => [r EXCEPT !.ticks = @ - 1]
                \in [refusals : Nat, drops : Nat, requests : Nat, ticks : Nat]
  OBVIOUS

\* The initial state has the right types.
LEMMA InitType == Init => TypeOK
<1> SUFFICES ASSUME Init PROVE TypeOK
  OBVIOUS
<1>1. NoPdu \in Pdu
  BY CommandsAre DEF NoPdu, Pdu
<1>2. tx \in TxRecord
  <2> DEFINE b == [i \in DOMAIN Backlog |-> NewPdu("submit", Backlog[i], NMsg + i)]
  <2>1. Len(Backlog) \in Nat /\ DOMAIN Backlog = 1 .. Len(Backlog)
    BY SessionAssumption, LenProperties
  <2>2. \A i \in 1 .. Len(Backlog) : Backlog[i] \in Nat
    BY SessionAssumption, ElementOfSeq
  <2>3. \A i \in 1 .. Len(Backlog) : NewPdu("submit", Backlog[i], NMsg + i) \in Pdu
    BY <2>2, SessionAssumption, NewPduType, CommandsAre
  <2>4. b \in Seq(Pdu)
    BY <2>1, <2>3
  <2>5. NoItems \in Queues
    BY DEF NoItems, Queues
  <2>6. [NoItems EXCEPT ![MESSAGE] = b] \in Queues
    BY <2>4, <2>5, LevelsAre DEF Queues
  <2>7. SeqMin \in Nat /\ <<>> \in Seq(Pdu) /\ SESSION \in Levels
    BY SessionAssumption, LevelsAre
  <2>8. tx = [q |-> [NoItems EXCEPT ![MESSAGE] = b],
              last |-> [pdu |-> NoPdu, level |-> SESSION],
              mVal |-> SeqMin, fly |-> <<>>]
    BY DEF Init
  <2> HIDE DEF b
  <2>9. QED
    BY <1>1, <2>6, <2>7, <2>8 DEF TxRecord, Queues
<1>3. thread \in [ThreadIds -> [pc : ThreadPcs, pdu : Pdu, busy : BOOLEAN]]
  BY <1>1 DEF Init, IdleThread, ThreadPcs
<1>4. left \in [refusals : Nat, drops : Nat, requests : Nat, ticks : Nat]
  BY SessionAssumption DEF Init
<1>5. /\ currentState \in States /\ timers \subseteq Timers
      /\ stopFlag \in BOOLEAN /\ reconnectFlag \in BOOLEAN /\ ioRunning \in BOOLEAN
      /\ w4rQ \subseteq Pdu /\ rxQ \subseteq Pdu
      /\ mcQ \subseteq {p \in Pdu : p.cmd \in Requests}
      /\ ageing \in [on : BOOLEAN, todo : SUBSET Pdu]
  BY DEF Init, States, Timers
<1>6. /\ ready \in Seq(Entry) /\ reads \in Seq({"header", "body"})
      /\ inbox \in Seq([part : {"header", "body"}, pdu : Pdu])
  BY DEF Init
<1>7. /\ sock \in {"closed", "connecting", "connected", "refused"}
      /\ attempt \in {0, 1} /\ peer \in {"up", "eof", "reset"}
      /\ mcState \in {"new", "bound", "unbound"} /\ nextMsg \in Nat
  BY DEF Init
<1>8. QED
  BY <1>2, <1>3, <1>4, <1>5, <1>6, <1>7 DEF TypeOK

\* The network completes operations.
LEMMA NetworkType == TypeOK /\ Network => TypeOK'
<1> SUFFICES ASSUME TypeOK, Network PROVE TypeOK'
  OBVIOUS
<1> USE DEF TypeOK, connVars, flagVars, mcVars, apiVars
<1>1. \A fn \in Handlers, err \in Outcomes : Append(ready, Posted(fn, err)) \in Seq(Entry)
  BY PostType, PostedType
<1>2. tx.fly # <<>> => /\ [tx EXCEPT !.fly = Tail(@)] \in TxRecord
                       /\ Head(tx.fly) \in Pdu
  <2>1. [tx EXCEPT !.fly = Tail(@)] = [tx EXCEPT !.fly = Tail(tx.fly)]
    OBVIOUS
  <2>2. QED
    BY <2>1, TxFields, HeadTailProperties
<1>3. ASSUME NEW n \in {0, 1}, ConnectSucceeds(n) PROVE TypeOK'
  BY <1>1, <1>3, OutcomesAre DEF ConnectSucceeds
<1>4. ASSUME NEW n \in {0, 1}, ConnectRefused(n) PROVE TypeOK'
  <2>1. left' \in [refusals : Nat, drops : Nat, requests : Nat, ticks : Nat]
    BY <1>4, LeftType DEF ConnectRefused
  <2>2. ready' \in Seq(Entry)
    BY <1>1, <1>4, OutcomesAre DEF ConnectRefused
  <2>3. QED
    BY <1>4, <2>1, <2>2 DEF ConnectRefused
<1>5. CASE WriteDone
  BY <1>1, <1>2, <1>5, OutcomesAre DEF WriteDone
<1>6. CASE WriteFails
  BY <1>1, <1>2, <1>6, OutcomesAre DEF WriteFails
<1>7. CASE ReadDone
  <2>1. /\ Head(reads) \in {"header", "body"}
        /\ Tail(reads) \in Seq({"header", "body"})
    BY <1>7, HeadTailProperties DEF ReadDone
  <2>2. /\ Head(inbox).pdu \in Pdu
        /\ Tail(inbox) \in Seq([part : {"header", "body"}, pdu : Pdu])
    <3> DEFINE Bytes == [part : {"header", "body"}, pdu : Pdu]
    <3>1. inbox \in Seq(Bytes) /\ inbox # <<>>
      BY <1>7 DEF ReadDone
    <3> HIDE DEF Bytes
    <3>2. Head(inbox) \in Bytes /\ Tail(inbox) \in Seq(Bytes)
      BY <3>1, HeadTailProperties
    <3>3. QED
      BY <3>2 DEF Bytes
  <2>3. [fn |-> Head(reads), err |-> "ok", pdu |-> Head(inbox).pdu] \in Entry
    BY <2>1, <2>2, OutcomesAre DEF Entry
  <2>4. ready' \in Seq(Entry)
    BY <1>7, <2>3, PostType DEF ReadDone
  <2>5. QED
    BY <1>7, <2>1, <2>2, <2>4 DEF ReadDone
<1>8. CASE ReadFails
  <2>1. /\ Head(reads) \in {"header", "body"}
        /\ Tail(reads) \in Seq({"header", "body"})
    BY <1>8, HeadTailProperties DEF ReadFails
  <2>2. ready' \in Seq(Entry)
    BY <1>1, <1>8, <2>1, OutcomesAre DEF ReadFails
  <2>3. QED
    BY <1>8, <2>1, <2>2 DEF ReadFails
<1>9. QED
  BY <1>3, <1>4, <1>5, <1>6, <1>7, <1>8 DEF Network

\* The MC answers, asks and ends connections; the timers expire.
LEMMA EnvironmentType == TypeOK /\ (MessageCentre \/ TimerExpires) => TypeOK'
<1> SUFFICES ASSUME TypeOK, MessageCentre \/ TimerExpires PROVE TypeOK'
  OBVIOUS
<1> USE DEF TypeOK, connVars, flagVars, mcVars, apiVars
<1> DEFINE Bytes == [part : {"header", "body"}, pdu : Pdu]
<1>1. ASSUME NEW p \in Pdu, Arrive(p) PROVE inbox' \in Seq(Bytes)
  <2>1. NoPdu \in Pdu
    BY CommandsAre DEF NoPdu, Pdu
  <2>2. <<[part |-> "header", pdu |-> NoPdu], [part |-> "body", pdu |-> p]>> \in Seq(Bytes)
    BY <2>1
  <2>3. QED
    BY <1>1, <2>2, ConcatProperties DEF Arrive
<1>2. CASE MCAnswers
  <2>1. PICK p \in mcQ :
          /\ mcQ' = mcQ \ {p}
          /\ \/ /\ Arrive(Answer(ResponseOf[p.cmd], p))
                /\ mcState' = CASE p.cmd = "bind"   -> "bound"
                                [] p.cmd = "unbind" -> "unbound"
                                [] OTHER            -> mcState
             \/ Arrive(Answer("generic_nack", p)) /\ mcState' = mcState
             \/ Arrive(Answer("bind_reject", p)) /\ mcState' = mcState
             \/ Arrive(Answer("garbled_resp", p)) /\ mcState' = mcState
    BY <1>2, PduFields DEF MCAnswers
  <2>2. p \in Pdu /\ \A cmd \in Commands : Answer(cmd, p) \in Pdu
    BY NewPduType, PduFields DEF Answer
  <2>3. ResponseOf[p.cmd] \in Commands
    BY CommandsAre DEF ResponseOf, Requests
  <2>4. inbox' \in Seq(Bytes)
    BY <1>1, <2>1, <2>2, <2>3, CommandsAre
  <2>5. mcState' \in {"new", "bound", "unbound"}
    BY <2>1
  <2>6. QED
    BY <1>2, <2>1, <2>4, <2>5 DEF MCAnswers
<1>3. CASE MCAsks
  <2>1. PICK cmd \in MCSends, seq \in MCSeqs :
          /\ left.requests > 0
          /\ left' = [left EXCEPT !.requests = @ - 1]
          /\ Arrive(NewPdu(cmd, seq, left.requests))
    BY <1>3 DEF MCAsks
  <2>2. NewPdu(cmd, seq, left.requests) \in Pdu
    BY NewPduType, SessionAssumption DEF Commands
  <2>3. inbox' \in Seq(Bytes)
    BY <1>1, <2>1, <2>2
  <2>4. left' \in [refusals : Nat, drops : Nat, requests : Nat, ticks : Nat]
    BY <2>1, LeftType
  <2>5. QED
    BY <1>3, <2>3, <2>4 DEF MCAsks
<1>4. CASE MCDrops
  <2>1. PICK kind \in DropKinds :
          /\ left.drops > 0
          /\ left' = [left EXCEPT !.drops = @ - 1]
          /\ peer' = kind
          /\ \/ inbox' = <<>>
             \/ inbox' = inbox
             \/ inbox # <<>> /\ inbox' = SubSeq(inbox, 1, Len(inbox) - 1)
    BY <1>4 DEF MCDrops
  <2>2. inbox' \in Seq(Bytes)
    <3>1. Len(inbox) \in Nat /\ \A i \in 1 .. Len(inbox) : inbox[i] \in Bytes
      BY LenProperties, ElementOfSeq
    <3>2. <<>> \in Seq(Bytes)
      OBVIOUS
    <3>3. inbox # <<>> => SubSeq(inbox, 1, Len(inbox) - 1) \in Seq(Bytes)
      BY <3>1, SubSeqProperties
    <3>4. QED
      BY <2>1, <3>2, <3>3
  <2>3. left' \in [refusals : Nat, drops : Nat, requests : Nat, ticks : Nat]
    <3>1. left \in [refusals : Nat, drops : Nat, requests : Nat, ticks : Nat]
      OBVIOUS
    <3>2. left.drops > 0 /\ left' = [left EXCEPT !.drops = @ - 1]
      BY <2>1
    <3> QED
      BY ONLY <3>1, <3>2, LeftType
  <2>4. kind \in {"eof", "reset"}
    BY SessionAssumption
  <2>5. QED
    BY <1>4, <2>1, <2>2, <2>3, <2>4 DEF MCDrops
<1>5. CASE TimerExpires
  <2>1. \A t \in Timers : Append(ready, Posted(t, "ok")) \in Seq(Entry)
    BY PostType, PostedType, OutcomesAre DEF Handlers
  <2>2. left' \in [refusals : Nat, drops : Nat, requests : Nat, ticks : Nat]
    BY <1>5, LeftType DEF TimerExpires
  <2>3. ready' \in Seq(Entry) /\ timers' \subseteq Timers
    BY <1>5, <2>1 DEF TimerExpires
  <2>4. QED
    BY <1>5, <2>2, <2>3 DEF TimerExpires
<1>6. QED
  BY <1>2, <1>3, <1>4, <1>5 DEF MessageCentre

\* close_session() posts the close, after the unbind of a bound session.
LEMMA CloseSessionType ==
    ASSUME TypeOK, ready # <<>>, NEW b \in BOOLEAN, CloseSession(b)
    PROVE  reconnectFlag' \in BOOLEAN /\ tx' \in TxRecord /\ ready' \in Seq(Entry)
<1> DEFINE bound == currentState \in BoundStates
           t     == IF bound THEN DoUnbindRequest(tx) ELSE tx
           f     == IF bound THEN WriteFailures(t) ELSE <<>>
<1>1. t \in TxRecord
  BY DoUnbindRequestType DEF TypeOK
<1>2. /\ reconnectFlag' = b /\ Transmit(t)
      /\ ready' = Tail(ready) \o f \o <<CloseEntry>>
  BY DEF CloseSession
<1>3. WriteFailures(t) \in Seq(Entry) /\ <<>> \in Seq(Entry)
  BY <1>1, WriteFailuresType
<1> HIDE DEF bound, t
<1>4. f \in Seq(Entry)
  BY <1>3
<1> HIDE DEF f
<1>5. ready' \in Seq(Entry)
  BY <1>2, <1>4, ReadyType, CloseEntryType, PostType
<1>6. QED
  BY <1>1, <1>2, <1>5, TransmitType

\* What every PDU leads to: nothing of it leaves the types.
LEMMA ReadNextType ==
    ASSUME TypeOK, ready # <<>>, NEW t \in TxRecord, NEW posts \in Seq(Entry),
           ReadNext(t, posts),
           currentState' \in States, stopFlag' \in BOOLEAN,
           reconnectFlag' \in BOOLEAN, rxQ' \subseteq Pdu
    PROVE  TypeOK'
<1>1. /\ w4rQ' = W4rQPop(Head(ready).pdu)
      /\ timers' = (timers \ {"response"}) \union {"enquire"}
      /\ Transmit(t) /\ Read("header")
      /\ ready' = Tail(ready) \o WriteFailures(t) \o posts \o ReadFailure("header")
      /\ UNCHANGED <<ageing, ioRunning, sock, attempt, peer, inbox, mcQ, mcState,
                     thread, nextMsg, left>>
  BY DEF ReadNext, connVars, mcVars, apiVars
<1>2. reads' \in Seq({"header", "body"}) /\ ReadFailure("header") \in Seq(Entry)
  BY <1>1, ReadType DEF TypeOK
<1>3. ready' \in Seq(Entry)
  <2>1. Tail(ready) \o WriteFailures(t) \in Seq(Entry)
    BY ReadyType, WriteFailuresType, PostType
  <2>2. Tail(ready) \o WriteFailures(t) \o posts \in Seq(Entry)
    BY <2>1, PostType
  <2>3. QED
    BY <1>1, <1>2, <2>2, PostType
<1>4. tx' \in TxRecord
  BY <1>1, TransmitType
<1>5. w4rQ' \subseteq Pdu
  BY <1>1 DEF W4rQPop, TypeOK
<1>6. timers' \subseteq Timers
  BY <1>1 DEF TypeOK, Timers
<1>7. QED
  BY <1>1, <1>2, <1>3, <1>4, <1>5, <1>6 DEF TypeOK

\* close_connection(), handle_connect and their kin.
LEMMA ConnectionType ==
    TypeOK /\ (CloseConnection \/ HandleConnectOk \/ HandleConnectError) => TypeOK'
<1> SUFFICES ASSUME TypeOK,
                    CloseConnection \/ HandleConnectOk \/ HandleConnectError
             PROVE  TypeOK'
  OBVIOUS
<1> USE DEF connVars, flagVars, mcVars, apiVars
<1> DEFINE gone == [tx EXCEPT !.fly = <<>>]
<1>1. ready # <<>> => /\ Tail(ready) \in Seq(Entry)
                      /\ Tail(ready) \o Aborted \in Seq(Entry)
  BY ReadyType, AbortedType, PostType DEF TypeOK
<1>2. /\ <<>> \in Seq(Pdu) /\ <<>> \in Seq({"header", "body"})
      /\ <<>> \in Seq([part : {"header", "body"}, pdu : Pdu])
  OBVIOUS
<1>3. 1 - attempt \in {0, 1}
  BY DEF TypeOK
<1>4. CASE CloseConnection
  <2>1. ready # <<>> /\ ready' = Tail(ready) \o Aborted
    BY <1>4 DEF CloseConnection, Runs
  <2>2. tx' \in TxRecord
    <3> DEFINE u == [tx EXCEPT !.q = ClearSessionQueues(tx.q)]
    <3>1. u \in TxRecord
      BY TxFields, ClearSessionQueuesType DEF TypeOK
    <3>2. [u EXCEPT !.fly = <<>>] \in TxRecord
      BY <1>2, <3>1, TxFields
    <3>3. tx' = [u EXCEPT !.fly = <<>>]
      BY <1>4 DEF CloseConnection
    <3>4. QED
      BY <3>2, <3>3
  <2>3. /\ currentState' \in States /\ timers' \subseteq Timers
        /\ reads' \in Seq({"header", "body"})
        /\ inbox' \in Seq([part : {"header", "body"}, pdu : Pdu])
        /\ peer' = "up" /\ mcQ' = {} /\ mcState' = "new"
    BY <1>2, <1>4 DEF CloseConnection, ConnectionGone, States
  <2>4. /\ sock' \in {"closed", "connecting"} /\ attempt' \in {0, 1}
        /\ reconnectFlag' \in BOOLEAN
    BY <1>3, <1>4 DEF CloseConnection, Connect, TypeOK
  <2>5. UNCHANGED <<stopFlag, w4rQ, rxQ, ageing, ioRunning, thread, nextMsg, left>>
    BY <1>4 DEF CloseConnection
  <2>6. ready' \in Seq(Entry)
    BY <1>1, <2>1
  <2>7. QED
    BY <2>2, <2>3, <2>4, <2>5, <2>6 DEF TypeOK
<1>5. CASE HandleConnectOk
  <2> DEFINE t == DoBindRequest(tx)
  <2>1. /\ ready # <<>> /\ currentState' = "OPEN" /\ Transmit(t) /\ Read("header")
        /\ ready' = Tail(ready) \o WriteFailures(t) \o ReadFailure("header")
        /\ UNCHANGED <<stopFlag, reconnectFlag, w4rQ, rxQ, timers, ageing,
                       ioRunning, sock, attempt, peer, inbox, mcQ, mcState,
                       thread, nextMsg, left>>
    BY <1>5 DEF HandleConnectOk, Runs
  <2>2. t \in TxRecord
    BY DoBindRequestType DEF TypeOK
  <2> HIDE DEF t
  <2>3. reads' \in Seq({"header", "body"}) /\ ReadFailure("header") \in Seq(Entry)
    BY <2>1, ReadType DEF TypeOK
  <2>4. Tail(ready) \o WriteFailures(t) \in Seq(Entry)
    BY <1>1, <2>1, <2>2, WriteFailuresType, PostType
  <2>5. ready' \in Seq(Entry)
    BY <2>1, <2>3, <2>4, PostType
  <2>6. tx' \in TxRecord
    BY <2>1, <2>2, TransmitType
  <2>7. QED
    BY <2>1, <2>3, <2>5, <2>6 DEF TypeOK, States
<1>6. CASE HandleConnectError
  <2>1. ready # <<>>
    BY <1>6 DEF HandleConnectError, Runs
  <2>2. CASE stopFlag
    BY <1>1, <1>6, <2>1, <2>2 DEF HandleConnectError, TypeOK
  <2>3. CASE ~stopFlag
    <3>1. tx' \in TxRecord
      <4>1. gone \in TxRecord
        BY <1>2, TxFields DEF TypeOK
      <4>2. tx' = gone
        BY <1>6, <2>3 DEF HandleConnectError
      <4>3. QED
        BY <4>1, <4>2
    <3>2. /\ reads' \in Seq({"header", "body"})
          /\ inbox' \in Seq([part : {"header", "body"}, pdu : Pdu])
          /\ peer' = "up" /\ mcQ' = {} /\ mcState' = "new"
          /\ sock' = "connecting" /\ attempt' \in {0, 1}
      BY <1>2, <1>3, <1>6, <2>3 DEF HandleConnectError, ConnectionGone, Connect
    <3>3. ready' \in Seq(Entry)
      BY <1>1, <1>6, <2>1, <2>3 DEF HandleConnectError
    <3>4. UNCHANGED <<currentState, stopFlag, reconnectFlag, w4rQ, rxQ, timers,
                      ageing, ioRunning, thread, nextMsg, left>>
      BY <1>6 DEF HandleConnectError
    <3>5. QED
      BY <3>1, <3>2, <3>3, <3>4 DEF TypeOK
  <2>4. QED
    BY <2>2, <2>3
<1>7. QED
  BY <1>4, <1>5, <1>6

\* handle_read_header, handle_read_body's error path, handle_write.
LEMMA ReadWriteType ==
    TypeOK /\ (HandleReadHeaderOk \/ HandleReadError \/ HandleWriteOk
               \/ HandleWriteError) => TypeOK'
<1> SUFFICES ASSUME TypeOK,
                    HandleReadHeaderOk \/ HandleReadError \/ HandleWriteOk
                    \/ HandleWriteError
             PROVE  TypeOK'
  OBVIOUS
<1> USE DEF connVars, flagVars, mcVars, apiVars
<1>1. ready # <<>> =>
        /\ Tail(ready) \in Seq(Entry)
        /\ Append(Tail(ready), CloseEntry) \in Seq(Entry)
        /\ \A r \in Seq(Entry) : Tail(ready) \o r \in Seq(Entry)
  BY ReadyType, CloseEntryType, PostType
<1>2. CASE HandleReadHeaderOk
  <2>1. /\ ready # <<>> /\ Read("body")
        /\ ready' = Tail(ready) \o ReadFailure("body")
    BY <1>2 DEF HandleReadHeaderOk, Runs
  <2>2. reads' \in Seq({"header", "body"}) /\ ReadFailure("body") \in Seq(Entry)
    BY <2>1, ReadType DEF TypeOK
  <2>3. ready' \in Seq(Entry)
    BY <1>1, <2>1, <2>2
  <2>4. UNCHANGED <<currentState, stopFlag, reconnectFlag, tx, w4rQ, rxQ, timers,
                    ageing, ioRunning, sock, attempt, peer, inbox, mcQ, mcState,
                    thread, nextMsg, left>>
    BY <1>2 DEF HandleReadHeaderOk
  <2>5. QED
    BY <2>2, <2>3, <2>4 DEF TypeOK
<1>3. CASE HandleReadError
  <2>1. /\ ready # <<>>
        /\ \/ /\ ready' = Tail(ready)
              /\ UNCHANGED <<currentState, reconnectFlag, tx>>
           \/ /\ currentState' = "CLOSED" /\ reconnectFlag' = TRUE /\ tx' = tx
              /\ ready' = Append(Tail(ready), CloseEntry)
           \/ CloseSession(TRUE) /\ UNCHANGED currentState
        /\ UNCHANGED <<stopFlag, w4rQ, rxQ, timers, ageing, ioRunning, sock,
                       attempt, reads, peer, inbox, mcQ, mcState, thread,
                       nextMsg, left>>
    BY <1>3 DEF HandleReadError, Runs
  <2>2. /\ currentState' \in States /\ reconnectFlag' \in BOOLEAN
        /\ tx' \in TxRecord /\ ready' \in Seq(Entry)
    <3>1. CASE CloseSession(TRUE) /\ UNCHANGED currentState
      BY <2>1, <3>1, CloseSessionType DEF TypeOK
    <3>2. CASE ~(CloseSession(TRUE) /\ UNCHANGED currentState)
      BY <1>1, <2>1, <3>2 DEF TypeOK, States
    <3>3. QED
      BY <3>1, <3>2
  <2>3. QED
    BY <2>1, <2>2 DEF TypeOK
<1>4. CASE HandleWriteOk
  <2> DEFINE t == IF CanSend(w4rQ') /\ ~IsEmpty(tx.q) THEN WritePdu(tx) ELSE tx
  <2>1. /\ ready # <<>> /\ w4rQ' = W4rQPut(tx.last.pdu)
        /\ Transmit(t) /\ ready' = Tail(ready) \o WriteFailures(t)
        /\ UNCHANGED <<currentState, stopFlag, reconnectFlag, rxQ, timers, ageing,
                       ioRunning, sock, attempt, reads, peer, inbox, mcQ,
                       mcState, thread, nextMsg, left>>
    BY <1>4 DEF HandleWriteOk, Runs
  <2>2. t \in TxRecord
    BY WritePduType DEF TypeOK
  <2> HIDE DEF t
  <2>3. tx' \in TxRecord /\ ready' \in Seq(Entry)
    BY <1>1, <2>1, <2>2, TransmitType, WriteFailuresType
  <2>4. w4rQ' \subseteq Pdu
    BY <2>1, TxFields DEF W4rQPut, TypeOK
  <2>5. QED
    BY <2>1, <2>3, <2>4 DEF TypeOK
<1>5. CASE HandleWriteError
  <2> DEFINE q == PutBack(tx.q, tx.last.pdu, tx.last.level)
  <2>1. [tx EXCEPT !.q = q] \in TxRecord
    BY TxFields, PutBackType DEF TypeOK
  <2>2. tx' = [tx EXCEPT !.q = q]
    BY <1>5 DEF HandleWriteError
  <2>3. /\ currentState' \in States /\ reconnectFlag' \in BOOLEAN
        /\ ready' \in Seq(Entry)
    BY <1>1, <1>5 DEF HandleWriteError, Runs, TypeOK, States
  <2>4. UNCHANGED <<stopFlag, w4rQ, rxQ, timers, ageing, ioRunning, sock, attempt,
                    reads, peer, inbox, mcQ, mcState, thread, nextMsg, left>>
    BY <1>5 DEF HandleWriteError
  <2> HIDE DEF q
  <2>5. QED
    BY <2>1, <2>2, <2>3, <2>4 DEF TypeOK
<1>6. QED
  BY <1>2, <1>3, <1>4, <1>5

\* handle_read_body: whatever PDU arrives.
LEMMA ProcessType ==
    TypeOK /\ (ProcBindResp \/ ProcEnquireLink \/ ProcDeliverSm \/ ProcGarbled
               \/ ProcUnbind \/ ProcUnbindResp \/ ProcOutbind \/ ProcNothing) => TypeOK'
<1> SUFFICES ASSUME TypeOK,
                    ProcBindResp \/ ProcEnquireLink \/ ProcDeliverSm \/ ProcGarbled
                    \/ ProcUnbind \/ ProcUnbindResp \/ ProcOutbind \/ ProcNothing
             PROVE  TypeOK'
  OBVIOUS
<1> USE DEF flagVars
<1>1. ready # <<>>
  BY DEF ProcBindResp, ProcEnquireLink, ProcDeliverSm, ProcGarbled, ProcUnbind,
         ProcUnbindResp, ProcOutbind, ProcNothing, Arrived, Runs
<1>2. /\ tx \in TxRecord /\ currentState \in States /\ stopFlag \in BOOLEAN
      /\ reconnectFlag \in BOOLEAN /\ rxQ \subseteq Pdu
  BY DEF TypeOK
<1>3. <<>> \in Seq(Entry) /\ <<CloseEntry>> \in Seq(Entry)
  BY CloseEntryType
<1>4. \A cmd \in Commands : Respond(cmd) \in TxRecord
  <2>1. \A cmd \in Commands : Answer(cmd, Head(ready).pdu) \in Pdu
    BY <1>1, ReadyType, PduFields, NewPduType DEF Answer
  <2>2. QED
    BY <1>2, <2>1, DoWriteType, LevelsAre DEF Respond
<1>5. CASE ProcBindResp
  <2>1. StateAfterBind \in States
    BY SessionAssumption DEF StateAfterBind, States, BindTypes
  <2>2. ReadNext(tx, <<>>)
    BY <1>5 DEF ProcBindResp
  <2>3. /\ currentState' = StateAfterBind
        /\ UNCHANGED <<stopFlag, reconnectFlag, rxQ>>
    BY <1>5 DEF ProcBindResp
  <2>4. QED
    BY <1>1, <1>2, <1>3, <2>1, <2>2, <2>3, ReadNextType
<1>6. CASE ProcEnquireLink
  BY <1>1, <1>2, <1>3, <1>4, <1>6, ReadNextType, CommandsAre DEF ProcEnquireLink
<1>7. CASE ProcDeliverSm
  <2>1. rxQ' \subseteq Pdu
    BY <1>1, <1>2, <1>7, ReadyType DEF ProcDeliverSm
  <2>2. QED
    BY <1>1, <1>2, <1>3, <1>4, <1>7, <2>1, ReadNextType, CommandsAre
    DEF ProcDeliverSm
<1>8. CASE ProcUnbind
  <2>1. currentState' \in States
    BY <1>8 DEF ProcUnbind, States
  <2>2. QED
    BY <1>1, <1>2, <1>3, <1>4, <1>8, <2>1, ReadNextType, CommandsAre DEF ProcUnbind
<1>9. CASE ProcUnbindResp
  <2>1. currentState' \in States
    BY <1>9 DEF ProcUnbindResp, States
  <2>2. QED
    BY <1>1, <1>2, <1>3, <1>9, <2>1, ReadNextType DEF ProcUnbindResp
<1>10. CASE ProcOutbind
  BY <1>1, <1>2, <1>3, <1>10, ReadNextType, DoBindRequestType DEF ProcOutbind
<1>11. CASE ProcNothing
  BY <1>1, <1>2, <1>3, <1>11, ReadNextType DEF ProcNothing
<1>12. CASE ProcGarbled
  <2>1. CASE currentState \in BoundStates
    BY <1>1, <1>2, <1>3, <1>12, <2>1, ReadNextType, DoUnbindRequestType
    DEF ProcGarbled
  <2>2. CASE currentState \notin BoundStates
    BY <1>1, <1>2, <1>3, <1>12, <2>2, ReadNextType DEF ProcGarbled
  <2>3. QED
    BY <2>1, <2>2
<1>13. QED
  BY <1>5, <1>6, <1>7, <1>8, <1>9, <1>10, <1>11, <1>12

\* The handlers of the timers, and the end of io_service::run().
LEMMA TimersType ==
    TypeOK /\ (DoEnquireLink \/ DoEnquireLinkFailure \/ AgeCleanupBegins
               \/ AgeCleanupResends \/ AgeCleanupEnds \/ RunReturns) => TypeOK'
<1> SUFFICES ASSUME TypeOK,
                    DoEnquireLink \/ DoEnquireLinkFailure \/ AgeCleanupBegins
                    \/ AgeCleanupResends \/ AgeCleanupEnds \/ RunReturns
             PROVE  TypeOK'
  OBVIOUS
<1> USE DEF connVars, flagVars, mcVars, apiVars
<1>1. CASE DoEnquireLink
  <2> DEFINE t == DoWrite(NextSeq(tx), NewPdu("enquire", tx.mVal, 0), SESSION)
  <2>1. /\ ready # <<>> /\ Transmit(t) /\ ready' = Tail(ready) \o WriteFailures(t)
        /\ timers' = timers \union {"response"}
        /\ UNCHANGED <<currentState, stopFlag, reconnectFlag, w4rQ, rxQ, ageing,
                       ioRunning, sock, attempt, reads, peer, inbox, mcQ,
                       mcState, thread, nextMsg, left>>
    BY <1>1 DEF DoEnquireLink, Runs
  <2>2. t \in TxRecord
    <3>1. NextSeq(tx) \in TxRecord /\ tx.mVal \in Nat
      BY TxFields DEF TypeOK
    <3>2. NewPdu("enquire", tx.mVal, 0) \in Pdu
      BY <3>1, NewPduType, CommandsAre
    <3>3. QED
      BY <3>1, <3>2, DoWriteType, LevelsAre
  <2> HIDE DEF t
  <2>3. tx' \in TxRecord /\ ready' \in Seq(Entry)
    BY <2>1, <2>2, TransmitType, WriteFailuresType, ReadyType, PostType
  <2>4. timers' \subseteq Timers
    BY <2>1 DEF TypeOK, Timers
  <2>5. QED
    BY <2>1, <2>3, <2>4 DEF TypeOK
<1>2. CASE DoEnquireLinkFailure
  <2>1. /\ ready # <<>>
        /\ \/ ready' = Tail(ready) /\ UNCHANGED <<reconnectFlag, tx>>
           \/ CloseSession(FALSE)
        /\ UNCHANGED <<currentState, stopFlag, w4rQ, rxQ, timers, ageing, ioRunning,
                       sock, attempt, reads, peer, inbox, mcQ, mcState, thread,
                       nextMsg, left>>
    BY <1>2 DEF DoEnquireLinkFailure, Runs
  <2>2. reconnectFlag' \in BOOLEAN /\ tx' \in TxRecord /\ ready' \in Seq(Entry)
    <3>1. CASE CloseSession(FALSE)
      BY <2>1, <3>1, CloseSessionType
    <3>2. CASE ready' = Tail(ready) /\ UNCHANGED <<reconnectFlag, tx>>
      BY <2>1, <3>2, ReadyType DEF TypeOK
    <3>3. QED
      BY <2>1, <3>1, <3>2
  <2>3. QED
    BY <2>1, <2>2 DEF TypeOK
<1>3. CASE AgeCleanupBegins
  <2>1. ready' \in Seq(Entry)
    BY <1>3, ReadyType DEF AgeCleanupBegins, Runs
  <2>2. ageing' \in [on : BOOLEAN, todo : SUBSET Pdu]
    BY <1>3 DEF AgeCleanupBegins, TypeOK
  <2>3. QED
    BY <1>3, <2>1, <2>2 DEF AgeCleanupBegins, TypeOK
<1>4. CASE AgeCleanupResends
  <2>1. PICK p \in ageing.todo :
          /\ Transmit(DoWrite(tx, p, MESSAGE))
          /\ ready' = ready \o WriteFailures(DoWrite(tx, p, MESSAGE))
          /\ w4rQ' = {r \in w4rQ : r.seq # p.seq}
          /\ ageing' = [ageing EXCEPT !.todo = {r \in @ : r.seq > p.seq}]
          /\ UNCHANGED <<currentState, stopFlag, reconnectFlag, rxQ, timers,
                         ioRunning, sock, attempt, reads, peer, inbox, mcQ,
                         mcState, thread, nextMsg, left>>
    BY <1>4 DEF AgeCleanupResends
  <2>2. p \in Pdu
    BY DEF TypeOK
  <2>3. DoWrite(tx, p, MESSAGE) \in TxRecord
    BY <2>2, DoWriteType, LevelsAre DEF TypeOK
  <2>4. tx' \in TxRecord /\ ready' \in Seq(Entry)
    BY <2>1, <2>3, TransmitType, WriteFailuresType, PostType DEF TypeOK
  <2>5. ageing' \in [on : BOOLEAN, todo : SUBSET Pdu]
    BY <2>1 DEF TypeOK
  <2>6. QED
    BY <2>1, <2>4, <2>5 DEF TypeOK
<1>5. CASE AgeCleanupEnds
  BY <1>5 DEF AgeCleanupEnds, TypeOK, Timers
<1>6. CASE RunReturns
  BY <1>6 DEF RunReturns, TypeOK
<1>7. QED
  BY <1>1, <1>2, <1>3, <1>4, <1>5, <1>6

\* The two threads outside the io_service.
LEMMA OtherThreadsType == TypeOK /\ OtherThreads => TypeOK'
<1> SUFFICES ASSUME TypeOK, OtherThreads PROVE TypeOK'
  OBVIOUS
<1> USE DEF connVars, flagVars, mcVars, apiVars
<1> DEFINE Thread == [pc : ThreadPcs, pdu : Pdu, busy : BOOLEAN]
<1>1. /\ thread \in [ThreadIds -> Thread] /\ tx \in TxRecord /\ nextMsg \in Nat
      /\ {"sender", "main"} = ThreadIds
  BY DEF TypeOK, ThreadIds
<1>2. /\ \A r \in Thread, pc \in ThreadPcs : [r EXCEPT !.pc = pc] \in Thread
      /\ \A r \in Thread, b \in BOOLEAN : [r EXCEPT !.busy = b] \in Thread
      /\ \A r \in Thread, p \in Pdu : [r EXCEPT !.pdu = p] \in Thread
  OBVIOUS
<1>3. {"idle", "send", "close", "look", "lock", "push", "pop", "write", "post",
       "done", "dead"} = ThreadPcs
  BY DEF ThreadPcs
<1> HIDE DEF Thread
<1>4. \A r \in Thread, t \in ThreadIds : [thread EXCEPT ![t] = r] \in [ThreadIds -> Thread]
  BY <1>1
<1>5. ASSUME NEW t \in ThreadIds, NEW pc \in ThreadPcs, Goto(t, pc)
      PROVE  thread' \in [ThreadIds -> Thread]
  <2>1. thread' = [thread EXCEPT ![t] = [thread[t] EXCEPT !.pc = pc]]
    BY <1>5 DEF Goto
  <2>2. QED
    BY <1>1, <1>2, <1>4, <2>1
<1>6. CASE TakeMessage
  <2> DEFINE r == [[thread["sender"] EXCEPT !.pc = "send"]
                     EXCEPT !.pdu = NewPdu("submit", SeqMin, nextMsg)]
  <2>1. NewPdu("submit", SeqMin, nextMsg) \in Pdu
    BY <1>1, NewPduType, CommandsAre, SessionAssumption
  <2>2. r \in Thread
    BY <1>1, <1>2, <1>3, <2>1
  <2>3. thread' = [thread EXCEPT !["sender"] = r]
    BY <1>6 DEF TakeMessage
  <2> HIDE DEF r
  <2>4. thread' \in [ThreadIds -> Thread]
    BY <1>1, <1>4, <2>2, <2>3
  <2>5. QED
    BY <1>1, <1>6, <2>4 DEF TakeMessage, TypeOK, Thread
<1>7. CASE SendPdu
  <2>1. thread' \in [ThreadIds -> Thread]
    BY <1>1, <1>3, <1>5, <1>7 DEF SendPdu
  <2>2. QED
    BY <1>7, <2>1 DEF SendPdu, TypeOK, Thread
<1>8. CASE Stop
  <2>1. thread' \in [ThreadIds -> Thread]
    BY <1>1, <1>3, <1>5, <1>8 DEF Stop
  <2>2. QED
    BY <1>8, <2>1 DEF Stop, TypeOK, Thread
<1>12. CASE StopClearsReconnect
  <2>1. thread' \in [ThreadIds -> Thread]
    BY <1>1, <1>3, <1>5, <1>12 DEF StopClearsReconnect
  <2>2. QED
    BY <1>12, <2>1 DEF StopClearsReconnect, TypeOK, Thread
<1>9. CASE StopClosesSession
  <2> DEFINE r == [[thread["main"] EXCEPT !.pc = "lock"]
                     EXCEPT !.pdu = NewPdu("unbind", SeqMin, 0)]
  <2>1. NewPdu("unbind", SeqMin, 0) \in Pdu
    BY NewPduType, CommandsAre, SessionAssumption
  <2>2. r \in Thread
    BY <1>1, <1>2, <1>3, <2>1
  <2>3. \/ thread' = [thread EXCEPT !["main"] = r]
        \/ Goto("main", "post")
    BY <1>9 DEF StopClosesSession
  <2> HIDE DEF r
  <2>4. thread' \in [ThreadIds -> Thread]
    BY <1>1, <1>3, <1>4, <1>5, <2>2, <2>3
  <2>5. QED
    BY <1>9, <2>4 DEF StopClosesSession, TypeOK, Thread
<1>10. CASE StopPosts
  <2>1. thread' \in [ThreadIds -> Thread] /\ ready' \in Seq(Entry)
    BY <1>1, <1>3, <1>5, <1>10, CloseEntryType, PostType DEF StopPosts, TypeOK
  <2>2. QED
    BY <1>10, <2>1 DEF StopPosts, TypeOK, Thread
<1>11. ASSUME NEW t \in ThreadIds, OtherThread(t) PROVE TypeOK'
  <2>1. thread[t] \in Thread /\ thread[t].pdu \in Pdu /\ Returns(t) \in ThreadPcs
    BY <1>1, <1>3 DEF Thread, Returns
  <2>2. CASE DoWriteLocks(t)
    <3> DEFINE r == [[thread[t] EXCEPT !.pc = "push"] EXCEPT !.busy = ~IsEmpty(tx.q)]
    <3>1. (~IsEmpty(tx.q)) \in BOOLEAN
      BY DEF IsEmpty
    <3>2. r \in Thread
      BY <1>2, <1>3, <2>1, <3>1
    <3>3. thread' = [thread EXCEPT ![t] = r]
      BY <1>1, <2>2 DEF DoWriteLocks
    <3> HIDE DEF r
    <3>4. thread' \in [ThreadIds -> Thread]
      BY <1>4, <3>2, <3>3
    <3>5. QED
      BY <2>2, <3>4 DEF DoWriteLocks, TypeOK, Thread
  <2>3. CASE DoWritePushes(t)
    <3> DEFINE q == Push(tx.q, thread[t].pdu, LevelOf(t))
    <3>1. LevelOf(t) \in Levels
      BY LevelsAre DEF LevelOf
    <3>2. [tx EXCEPT !.q = q] \in TxRecord
      BY <1>1, <2>1, <3>1, TxFields, PushType
    <3>3. tx' = [tx EXCEPT !.q = q]
      BY <2>3 DEF DoWritePushes
    <3>4. thread' \in [ThreadIds -> Thread]
      BY <1>3, <1>5, <2>1, <2>3 DEF DoWritePushes
    <3> HIDE DEF q
    <3>5. QED
      BY <2>3, <3>2, <3>3, <3>4 DEF DoWritePushes, TypeOK, Thread
  <2>4. CASE DoWritePops(t)
    <3> DEFINE r == [[thread[t] EXCEPT !.pc = "write"] EXCEPT !.pdu = tx'.last.pdu]
    <3>1. tx' \in TxRecord
      BY <1>1, <2>4, PopPduType DEF DoWritePops
    <3>2. r \in Thread
      BY <1>2, <1>3, <2>1, <3>1, TxFields
    <3>3. thread' = [thread EXCEPT ![t] = r]
      BY <1>1, <2>4 DEF DoWritePops
    <3> HIDE DEF r
    <3>4. thread' \in [ThreadIds -> Thread]
      BY <1>4, <3>2, <3>3
    <3>5. QED
      BY <2>4, <3>1, <3>4 DEF DoWritePops, TypeOK, Thread
  <2>5. CASE DoWriteCrashes(t)
    <3>1. thread' \in [ThreadIds -> Thread]
      BY <1>1, <1>2, <1>3, <2>5 DEF DoWriteCrashes
    <3>2. QED
      BY <2>5, <3>1 DEF DoWriteCrashes, TypeOK, Thread
  <2>6. CASE DoWriteWrites(t)
    <3> DEFINE u == [tx EXCEPT !.fly = Append(tx.fly, thread[t].pdu)]
    <3>1. u \in TxRecord
      BY <1>1, <2>1, TxFields, AppendProperties
    <3>2. Transmit(u) /\ ready' = ready \o WriteFailures(u)
      BY <2>6 DEF DoWriteWrites
    <3> HIDE DEF u
    <3>3. tx' \in TxRecord /\ ready' \in Seq(Entry)
      BY <3>1, <3>2, TransmitType, WriteFailuresType, PostType DEF TypeOK
    <3>4. thread' \in [ThreadIds -> Thread]
      BY <1>5, <2>1, <2>6 DEF DoWriteWrites
    <3>5. QED
      BY <2>6, <3>3, <3>4 DEF DoWriteWrites, TypeOK, Thread
  <2>7. QED
    BY <1>11, <2>2, <2>3, <2>4, <2>5, <2>6 DEF OtherThread
<1>13. QED
  BY <1>6, <1>7, <1>8, <1>9, <1>10, <1>11, <1>12
  DEF OtherThreads

\* Every step keeps the types.
LEMMA NextType == TypeOK /\ [Next]_vars => TypeOK'
<1> SUFFICES ASSUME TypeOK, [Next]_vars PROVE TypeOK'
  OBVIOUS
<1>1. CASE Network
  BY <1>1, NetworkType
<1>2. CASE MessageCentre \/ TimerExpires
  BY <1>2, EnvironmentType
<1>3. CASE IoThread
  BY <1>3, ConnectionType, ReadWriteType, ProcessType, TimersType DEF IoThread
<1>4. CASE OtherThreads
  BY <1>4, OtherThreadsType
<1>5. CASE UNCHANGED vars
  BY <1>5 DEF vars, connVars, flagVars, mcVars, apiVars, TypeOK
<1>6. QED
  BY <1>1, <1>2, <1>3, <1>4, <1>5 DEF Next

\* Every variable keeps its type: in particular the state is never one that no
\* handler sets, and the MC only ever holds requests it can answer.
THEOREM SessionTypeOK == Spec => []TypeOK
  BY InitType, NextType, PTL DEF Spec

-----------------------------------------------------------------------------
(* The session never speaks for a closed socket.                           *)

\* No state that needs a socket has a closed one: this is inductive as it stands.
LEMMA InitSocket == Init => SocketBehindSession
  BY DEF Init, SocketBehindSession

\* No step closes the socket under such a state, or takes one without a socket.
LEMMA NextSocket == SocketBehindSession /\ [Next]_vars => SocketBehindSession'
<1> SUFFICES ASSUME SocketBehindSession, [Next]_vars
             PROVE  SocketBehindSession'
  OBVIOUS
<1> USE DEF SocketBehindSession
<1>1. CASE Network
  BY <1>1 DEF Network, ConnectSucceeds, ConnectRefused, WriteDone, WriteFails,
              ReadDone, ReadFails, connVars
<1>2. CASE MessageCentre
  BY <1>2 DEF MessageCentre, MCAnswers, MCAsks, MCDrops, connVars
<1>3. CASE TimerExpires
  BY <1>3 DEF TimerExpires, connVars
<1>4. CASE IoThread
  <2>1. CASE CloseConnection
    BY <2>1 DEF CloseConnection
  <2>2. CASE HandleConnectOk
    BY <2>2 DEF HandleConnectOk, connVars
  <2>3. CASE HandleConnectError
    BY <2>3 DEF HandleConnectError, Connect, connVars
  <2>4. CASE HandleReadHeaderOk \/ HandleReadError
    BY <2>4 DEF HandleReadHeaderOk, HandleReadError, connVars
  <2>5. CASE HandleWriteOk \/ HandleWriteError
    BY <2>5 DEF HandleWriteOk, HandleWriteError, connVars
  <2>6. CASE ProcBindResp
    BY <2>6 DEF ProcBindResp, Arrived, ReadNext, connVars
  <2>7. CASE ProcUnbind \/ ProcUnbindResp
    BY <2>7 DEF ProcUnbind, ProcUnbindResp, Arrived, ReadNext, BoundStates,
                connVars
  <2>8. CASE ProcEnquireLink \/ ProcDeliverSm \/ ProcGarbled \/ ProcOutbind
             \/ ProcNothing
    BY <2>8 DEF ProcEnquireLink, ProcDeliverSm, ProcGarbled, ProcOutbind,
                ProcNothing, ReadNext, connVars
  <2>9. CASE DoEnquireLink \/ DoEnquireLinkFailure
    BY <2>9 DEF DoEnquireLink, DoEnquireLinkFailure, connVars
  <2>10. CASE AgeCleanupBegins \/ AgeCleanupResends \/ AgeCleanupEnds
    BY <2>10 DEF AgeCleanupBegins, AgeCleanupResends, AgeCleanupEnds, connVars
  <2>11. CASE RunReturns
    BY <2>11 DEF RunReturns, connVars
  <2>12. QED
    BY <1>4, <2>1, <2>2, <2>3, <2>4, <2>5, <2>6, <2>7, <2>8, <2>9, <2>10, <2>11
    DEF IoThread
<1>5. CASE OtherThreads
  <2>1. CASE \/ TakeMessage \/ SendPdu \/ Stop \/ StopClearsReconnect
             \/ StopClosesSession \/ StopPosts
    BY <2>1 DEF TakeMessage, SendPdu, Stop, StopClearsReconnect,
                StopClosesSession, StopPosts,
                connVars
  <2>2. CASE \E t \in ThreadIds : OtherThread(t)
    BY <2>2 DEF OtherThread, DoWriteLocks, DoWritePushes, DoWritePops,
                DoWriteCrashes, DoWriteWrites, connVars
  <2>3. QED
    BY <1>5, <2>1, <2>2 DEF OtherThreads
<1>6. CASE UNCHANGED vars
  BY <1>6 DEF vars, connVars
<1>7. QED
  BY <1>1, <1>2, <1>3, <1>4, <1>5, <1>6 DEF Next

\* Whatever the order of connection attempts, their late completions and
\* close_connection()s, an open or bound session has a socket that is not closed.
THEOREM SessionSocketBehindSession == Spec => []SocketBehindSession
  BY InitSocket, NextSocket, PTL DEF Spec

=============================================================================
