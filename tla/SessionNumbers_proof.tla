------------------------ MODULE SessionNumbers_proof ------------------------
(***************************************************************************)
(* The proof that a sequence number identifies a request of SessionManager *)
(* (SeqIdentifiesRequest), provided that no message found on disk has ever *)
(* been numbered: the generator starts from SeqMin again after a restart.  *)
(*                                                                         *)
(* The invariant behind it is that every number in use is below mVal.  A   *)
(* handler brings at most one request into being that it has not taken     *)
(* from what the session held, and numbers it from the old value of mVal.  *)
(***************************************************************************)
EXTENDS SessionManager_proof

BacklogIsNew == \A i \in DOMAIN Backlog : Backlog[i] <= SeqMin

\* What a TxRecord holds, and what the session holds besides it.
TxPdus(t) == Items(t.q) \union Elems(t.fly) \union {t.last.pdu}
OtherHeld == w4rQ \union ageing.todo \union mcQ
             \union {thread[t].pdu : t \in ThreadIds}

NumbersBelow == \A p \in Numbered : p.seq < tx.mVal

SeqInv == NumbersBelow /\ SeqIdentifiesRequest

\* From t to u only PDUs of "old" and unnumbered ones are kept, responses, and
\* one more request with a number from mVal on.
Numbers(t, u, old) ==
    /\ t.mVal <= u.mVal
    /\ \E f : \A p \in TxPdus(u) :
         \/ p \in old \/ IsResponse(p) \/ p.seq <= SeqMin
         \/ p = f /\ t.mVal <= p.seq /\ p.seq < u.mVal

\* What every step does: SeqInv stays, and a request that gets a number gets one
\* that has not been used.
SeqKept ==
    /\ SeqInv'
    /\ tx.mVal <= tx'.mVal
    /\ \A p \in Numbered' : p \in Numbered \/ tx.mVal <= p.seq

-----------------------------------------------------------------------------
(* The items of sequences and queues.                                      *)

\* All that SeqIdentifiesRequest speaks of.
LEMMA HeldIs == Held = TxPdus(tx) \union OtherHeld
  BY DEF Held, TxPdus, OtherHeld, Elems

\* The items of a queue are those of its levels.
LEMMA ItemsIs ==
    ASSUME NEW q
    PROVE  \A p : p \in Items(q) <=> \E l \in Levels : p \in Elems(q[l])
  BY DEF Items, Elems

\* The operations of the queue bring in nothing but their argument.
LEMMA ItemsOf ==
    ASSUME NEW q \in Queues
    PROVE  /\ Items(q) \subseteq Pdu
           /\ ~IsEmpty(q) => Front(q) \in Items(q) /\ Items(Pop(q)) \subseteq Items(q)
           /\ \A p \in Pdu, l \in Levels :
                /\ Items(Push(q, p, l)) \subseteq Items(q) \union {p}
                /\ Items(PutBack(q, p, l)) \subseteq Items(q) \union {p}
           /\ Items(ClearSessionQueues(q)) \subseteq Items(q)
<1>1. \A l \in Levels : q[l] \in Seq(Pdu)
  BY DEF Queues
<1>2. Items(q) \subseteq Pdu
  BY <1>1, ItemsIs, ElemsOf
<1>3. ASSUME ~IsEmpty(q)
      PROVE  Front(q) \in Items(q) /\ Items(Pop(q)) \subseteq Items(q)
  <2> DEFINE k == TopLevel(q)
  <2>1. k \in Levels /\ q[k] # <<>> /\ q[k] \in Seq(Pdu)
    BY <1>1, <1>3, TopLevelServes
  <2>2. Pop(q) = [q EXCEPT ![k] = Tail(q[k])] /\ Front(q) = Head(q[k])
    BY DEF Pop, Front
  <2> HIDE DEF k
  <2>3. Front(q) \in Elems(q[k]) /\ Elems(Tail(q[k])) \subseteq Elems(q[k])
    BY <2>1, <2>2, ElemsOf
  <2>4. \A l \in Levels : Elems(Pop(q)[l]) \subseteq Elems(q[l])
    BY <2>1, <2>2, <2>3 DEF Queues
  <2>5. QED
    BY <2>1, <2>3, <2>4, ItemsIs
<1>4. ASSUME NEW p \in Pdu, NEW l \in Levels
      PROVE  /\ Items(Push(q, p, l)) \subseteq Items(q) \union {p}
             /\ Items(PutBack(q, p, l)) \subseteq Items(q) \union {p}
  <2>1. /\ Elems(Append(q[l], p)) \subseteq Elems(q[l]) \union {p}
        /\ Elems(<<p>> \o q[l]) \subseteq Elems(q[l]) \union {p}
    BY <1>1, ElemsOf
  <2>2. \A k \in Levels : /\ Elems(Push(q, p, l)[k]) \subseteq Elems(q[k]) \union {p}
                          /\ Elems(PutBack(q, p, l)[k]) \subseteq Elems(q[k]) \union {p}
    BY <2>1 DEF Push, PutBack, Queues
  <2>3. QED
    BY <2>2, ItemsIs
<1>5. Items(ClearSessionQueues(q)) \subseteq Items(q)
  <2>1. Elems(<<>>) = {}
    BY DEF Elems
  <2>2. \A k \in Levels : Elems(ClearSessionQueues(q)[k]) \subseteq Elems(q[k])
    BY <2>1 DEF ClearSessionQueues, Queues
  <2>3. QED
    BY <2>2, ItemsIs
<1>6. QED
  BY <1>2, <1>3, <1>4, <1>5

\* What is pushed on an empty queue is what pop() returns.
LEMMA FrontOfPush ==
    ASSUME NEW q \in Queues, IsEmpty(q), NEW p \in Pdu, NEW l \in Levels
    PROVE  Front(Push(q, p, l)) = p
<1> DEFINE r == Push(q, p, l)
<1>1. r \in Queues /\ ~IsEmpty(r)
  BY PushType, PushNotEmpty
<1>2. \A k \in Levels : r[k] = IF k = l THEN <<p>> ELSE <<>>
  <2>1. \A k \in Levels : q[k] = <<>>
    BY DEF IsEmpty
  <2>2. Append(<<>>, p) = <<p>>
    OBVIOUS
  <2>3. r = [q EXCEPT ![l] = Append(q[l], p)]
    BY DEF Push
  <2>4. \A k \in Levels : r[k] = IF k = l THEN Append(q[l], p) ELSE q[k]
    BY <2>3 DEF Queues
  <2>5. QED
    BY <2>1, <2>2, <2>4
<1>3. TopLevel(r) = l
  BY <1>1, <1>2, TopLevelServes
<1>4. QED
  BY <1>2, <1>3 DEF Front

-----------------------------------------------------------------------------
(* Writing numbers at most one PDU.                                        *)

\* The parts of a TxRecord.
LEMMA TxPdusOf ==
    ASSUME NEW t \in TxRecord
    PROVE  /\ TxPdus(t) \subseteq Pdu /\ t.last.pdu \in TxPdus(t)
           /\ Items(t.q) \subseteq TxPdus(t) /\ Elems(t.fly) \subseteq TxPdus(t)
  BY TxFields, ItemsOf, ElemsOf DEF TxPdus

\* A write that only sees what is there, and uses no number.
LEMMA NumbersNone ==
    ASSUME NEW t, NEW u, NEW old, TxPdus(u) \subseteq old,
           t.mVal \in Nat, u.mVal = t.mVal
    PROVE  Numbers(t, u, old)
  BY DEF Numbers

\* Knowing of more PDUs does no harm.
LEMMA NumbersMore ==
    ASSUME NEW t, NEW u, NEW old, NEW more, Numbers(t, u, old),
           \A p \in old : p \in more \/ IsResponse(p) \/ p.seq <= SeqMin
    PROVE  Numbers(t, u, more)
  BY DEF Numbers

\* write_pdu() up to the write: the PDU popped is one of the queue's, or has
\* been given the number mVal.
LEMMA PopPduNumbers ==
    ASSUME NEW t \in TxRecord, ~IsEmpty(t.q)
    PROVE  LET u == PopPdu(t)
               p == Front(t.q) IN
           /\ TxPdus(u) \subseteq TxPdus(t) \union {u.last.pdu}
           /\ IF NeedsSeq(p)
                THEN u.last.pdu = [p EXCEPT !.seq = t.mVal] /\ u.mVal = t.mVal + 1
                ELSE u.last.pdu = p /\ u.mVal = t.mVal
           /\ p \in TxPdus(t)
           /\ u.fly = t.fly
<1> DEFINE u == PopPdu(t)
           p == Front(t.q)
           s == IF NeedsSeq(p) THEN [p EXCEPT !.seq = t.mVal] ELSE p
           m == IF NeedsSeq(p) THEN t.mVal + 1 ELSE t.mVal
<1>1. u = [q |-> Pop(t.q), last |-> [pdu |-> s, level |-> TopLevel(t.q)],
           mVal |-> m, fly |-> t.fly]
  <2>1. u = [t EXCEPT !.q = Pop(t.q),
                      !.last = [pdu |-> s, level |-> TopLevel(t.q)],
                      !.mVal = m]
    BY DEF PopPdu
  <2> HIDE DEF u, s, m, p
  <2>2. QED
    BY <2>1 DEF TxRecord
<1>2. u.q = Pop(t.q) /\ u.last.pdu = s /\ u.mVal = m /\ u.fly = t.fly
  <2> HIDE DEF u, s, m, p
  <2> QED
    BY <1>1
<1>3. p \in Items(t.q) /\ Items(Pop(t.q)) \subseteq Items(t.q)
  BY ItemsOf, TxFields
<1> HIDE DEF u, p
<1>4. TxPdus(u) \subseteq TxPdus(t) \union {u.last.pdu}
  BY <1>2, <1>3 DEF TxPdus
<1>5. p \in TxPdus(t)
  BY <1>3 DEF TxPdus
<1>6. QED
  BY <1>2, <1>4, <1>5 DEF u, p

\* All of write_pdu(): the write adds nothing.
LEMMA WritePduNumbers ==
    ASSUME NEW t \in TxRecord, ~IsEmpty(t.q)
    PROVE  LET u == WritePdu(t)
               p == Front(t.q) IN
           /\ TxPdus(u) \subseteq TxPdus(t) \union {u.last.pdu}
           /\ IF NeedsSeq(p)
                THEN u.last.pdu = [p EXCEPT !.seq = t.mVal] /\ u.mVal = t.mVal + 1
                ELSE u.last.pdu = p /\ u.mVal = t.mVal
           /\ p \in TxPdus(t)
<1> DEFINE v == PopPdu(t)
           u == WritePdu(t)
<1>1. v \in TxRecord
  BY PopPduType
<1>2. u = [v EXCEPT !.fly = Append(v.fly, v.last.pdu)]
  BY DEF WritePdu
<1> HIDE DEF v, u
<1>3. /\ u.q = v.q /\ u.last = v.last /\ u.mVal = v.mVal
      /\ u.fly = Append(v.fly, v.last.pdu)
  BY <1>1, <1>2 DEF TxRecord
<1>4. Elems(u.fly) \subseteq Elems(v.fly) \union {v.last.pdu}
  BY <1>1, <1>3, ElemsOf, TxFields
<1>5. TxPdus(u) \subseteq TxPdus(v)
  BY <1>3, <1>4 DEF TxPdus
<1>6. QED
  BY <1>3, <1>5, PopPduNumbers DEF u, v

\* handle_write()'s write of what is queued.
LEMMA WriteNumbers ==
    ASSUME NEW t \in TxRecord, ~IsEmpty(t.q)
    PROVE  /\ Numbers(t, WritePdu(t), TxPdus(t))
           /\ Numbers(t, PopPdu(t), TxPdus(t))
<1> DEFINE p == Front(t.q)
<1>1. t.mVal \in Nat /\ p \in Pdu
  BY TxFields, PopType
<1>2. ASSUME NEW u,
             /\ TxPdus(u) \subseteq TxPdus(t) \union {u.last.pdu}
             /\ IF NeedsSeq(p)
                  THEN u.last.pdu = [p EXCEPT !.seq = t.mVal] /\ u.mVal = t.mVal + 1
                  ELSE u.last.pdu = p /\ u.mVal = t.mVal
             /\ p \in TxPdus(t)
      PROVE  Numbers(t, u, TxPdus(t))
  <2>1. CASE NeedsSeq(p)
    <3>1. [p EXCEPT !.seq = t.mVal].seq = t.mVal
      BY <1>1 DEF Pdu
    <3> HIDE DEF p
    <3>2. u.last.pdu.seq = t.mVal /\ u.mVal = t.mVal + 1
      BY <1>2, <2>1, <3>1
    <3>3. \A r \in TxPdus(u) : \/ r \in TxPdus(t)
                               \/ /\ r = u.last.pdu /\ t.mVal <= r.seq
                                  /\ r.seq < u.mVal
      BY <1>1, <1>2, <3>2
    <3>4. t.mVal <= u.mVal
      BY <1>1, <3>2
    <3>5. QED
      BY <3>3, <3>4 DEF Numbers
  <2>2. CASE ~NeedsSeq(p)
    <3> HIDE DEF p
    <3>1. TxPdus(u) \subseteq TxPdus(t) /\ u.mVal = t.mVal
      BY <1>2, <2>2
    <3>2. QED
      BY <1>1, <3>1, NumbersNone
  <2>3. QED
    BY <2>1, <2>2
<1>3. QED
  BY <1>2, WritePduNumbers, PopPduNumbers

\* do_write(): the PDU it is given may be written at once, and then numbered.
LEMMA DoWriteSeq ==
    ASSUME NEW t \in TxRecord, NEW p \in Pdu, NEW l \in Levels
    PROVE  LET u == DoWrite(t, p, l) IN
           \E f : /\ TxPdus(u) \subseteq TxPdus(t) \union {p, f}
                  /\ \/ f = p /\ u.mVal = t.mVal
                     \/ /\ p.seq <= SeqMin /\ f.seq = t.mVal
                        /\ u.mVal = t.mVal + 1
<1> DEFINE v == [t EXCEPT !.q = Push(t.q, p, l)]
           u == DoWrite(t, p, l)
<1>1. v.q = Push(t.q, p, l) /\ v.mVal = t.mVal /\ v.last = t.last /\ v.fly = t.fly
  BY DEF TxRecord
<1>2. v \in TxRecord /\ ~IsEmpty(v.q)
  <2>1. Push(t.q, p, l) \in Queues /\ ~IsEmpty(Push(t.q, p, l))
    BY TxFields, PushType, PushNotEmpty
  <2>2. QED
    BY <1>1, <2>1, TxFields
<1>3. u = IF IsEmpty(t.q) THEN WritePdu(v) ELSE v
  BY DEF DoWrite
<1> HIDE DEF v, u
<1>4. TxPdus(v) \subseteq TxPdus(t) \union {p}
  BY <1>1, ItemsOf, TxFields DEF TxPdus
<1>5. CASE ~IsEmpty(t.q)
  BY <1>1, <1>3, <1>4, <1>5 DEF u
<1>6. CASE IsEmpty(t.q)
  <2>1. Front(v.q) = p
    BY <1>1, <1>6, FrontOfPush, TxFields
  <2>2. /\ TxPdus(u) \subseteq TxPdus(v) \union {u.last.pdu}
        /\ IF NeedsSeq(p)
             THEN u.last.pdu = [p EXCEPT !.seq = t.mVal] /\ u.mVal = t.mVal + 1
             ELSE u.last.pdu = p /\ u.mVal = t.mVal
    BY <1>1, <1>2, <1>3, <1>6, <2>1, WritePduNumbers
  <2>3. NeedsSeq(p) => p.seq <= SeqMin /\ u.last.pdu.seq = t.mVal
    BY <2>2 DEF NeedsSeq, Pdu
  <2>4. /\ TxPdus(u) \subseteq TxPdus(t) \union {p, u.last.pdu}
        /\ \/ u.last.pdu = p /\ u.mVal = t.mVal
           \/ p.seq <= SeqMin /\ u.last.pdu.seq = t.mVal /\ u.mVal = t.mVal + 1
    BY <1>4, <2>2, <2>3
  <2>5. QED
    BY <2>4 DEF u
<1>7. QED
  BY <1>5, <1>6

\* do_write() of a PDU that has been numbered before, of one that has no number
\* yet, or of a response.
LEMMA DoWriteNumbers ==
    ASSUME NEW t \in TxRecord, NEW p \in Pdu, NEW l \in Levels, NEW old,
           TxPdus(t) \subseteq old, p \in old \/ IsResponse(p) \/ p.seq <= SeqMin
    PROVE  Numbers(t, DoWrite(t, p, l), old)
<1> DEFINE u == DoWrite(t, p, l)
<1>1. t.mVal \in Nat
  BY TxFields
<1>2. PICK f : /\ TxPdus(u) \subseteq TxPdus(t) \union {p, f}
               /\ \/ f = p /\ u.mVal = t.mVal
                  \/ /\ p.seq <= SeqMin /\ f.seq = t.mVal
                     /\ u.mVal = t.mVal + 1
  BY DoWriteSeq
<1> HIDE DEF u
<1>3. t.mVal <= u.mVal
  BY <1>1, <1>2
<1>4. \A r \in TxPdus(u) : \/ r \in old \/ IsResponse(r) \/ r.seq <= SeqMin
                           \/ r = f /\ t.mVal <= r.seq /\ r.seq < u.mVal
  BY <1>1, <1>2
<1>5. QED
  BY <1>3, <1>4 DEF Numbers, u

\* A request the session numbers itself: seqNumGen.next(), then do_write().
LEMMA NewRequestNumbers ==
    ASSUME NEW t \in TxRecord, NEW cmd \in Commands, NEW old, TxPdus(t) \subseteq old
    PROVE  Numbers(t, DoWrite(NextSeq(t), NewPdu(cmd, t.mVal, 0), SESSION), old)
<1> DEFINE n == NextSeq(t)
           p == NewPdu(cmd, t.mVal, 0)
           u == DoWrite(n, p, SESSION)
<1>1. t.mVal \in Nat /\ n \in TxRecord /\ SESSION \in Levels
  BY TxFields, LevelsAre
<1>2. p \in Pdu /\ p.seq = t.mVal
  BY <1>1, NewPduType DEF NewPdu
<1>3. n.mVal = t.mVal + 1 /\ n.q = t.q /\ n.last = t.last /\ n.fly = t.fly
  BY DEF NextSeq, TxRecord
<1>4. TxPdus(n) = TxPdus(t)
  BY <1>3 DEF TxPdus
<1> HIDE DEF n, p
<1>5. PICK f : /\ TxPdus(u) \subseteq TxPdus(n) \union {p, f}
               /\ \/ f = p /\ u.mVal = n.mVal
                  \/ /\ p.seq <= SeqMin /\ f.seq = n.mVal
                     /\ u.mVal = n.mVal + 1
  BY <1>1, <1>2, DoWriteSeq
<1> HIDE DEF u
<1>6. t.mVal <= u.mVal
  BY <1>1, <1>3, <1>5
<1>7. \A r \in TxPdus(u) : \/ r \in old \/ IsResponse(r) \/ r.seq <= SeqMin
                           \/ r = f /\ t.mVal <= r.seq /\ r.seq < u.mVal
  BY <1>1, <1>2, <1>3, <1>4, <1>5
<1>8. QED
  BY <1>6, <1>7 DEF Numbers, u, n, p

\* async_write only moves what is there.
LEMMA TransmitNumbers ==
    ASSUME tx \in TxRecord, NEW t \in TxRecord, Transmit(t), NEW old,
           Numbers(tx, t, old)
    PROVE  Numbers(tx, tx', old)
<1>1. CASE tx' = t
  BY <1>1
<1>2. CASE tx' = [t EXCEPT !.fly = <<>>]
  <2>1. tx'.q = t.q /\ tx'.last = t.last /\ tx'.mVal = t.mVal /\ tx'.fly = <<>>
    BY <1>2 DEF TxRecord
  <2>2. TxPdus(tx') \subseteq TxPdus(t)
    BY <2>1 DEF TxPdus, Elems
  <2>3. QED
    BY <2>1, <2>2 DEF Numbers
<1>3. QED
  BY <1>1, <1>2 DEF Transmit

-----------------------------------------------------------------------------
(* Every step.                                                             *)

\* What the session holds are PDUs.
LEMMA HeldType == TypeOK => Held \subseteq Pdu
<1> SUFFICES ASSUME TypeOK PROVE Held \subseteq Pdu
  OBVIOUS
<1>1. TxPdus(tx) \subseteq Pdu
  BY TxPdusOf DEF TypeOK
<1>2. OtherHeld \subseteq Pdu
  BY DEF OtherHeld, TypeOK
<1>3. QED
  BY <1>1, <1>2, HeldIs

\* A step that numbers at most one PDU, and otherwise only moves or forgets
\* PDUs, keeps numbers below mVal and one request to a number.
LEMMA SeqStep ==
    ASSUME TypeOK, TypeOK', SeqInv, Numbers(tx, tx', Held),
           \A p \in OtherHeld' : p \in Held \/ p \in TxPdus(tx') \/ p.seq <= SeqMin
    PROVE  SeqKept
<1>1. PICK f : \A p \in TxPdus(tx') :
                 \/ p \in Held \/ IsResponse(p) \/ p.seq <= SeqMin
                 \/ p = f /\ tx.mVal <= p.seq /\ p.seq < tx'.mVal
  BY DEF Numbers
<1>2. /\ tx.mVal \in Nat /\ tx'.mVal \in Nat /\ SeqMin \in Nat
      /\ tx.mVal <= tx'.mVal
  BY TxFields, SessionAssumption DEF TypeOK, Numbers
<1>3. Held \subseteq Pdu
  BY HeldType
<1>4. Held' = TxPdus(tx') \union OtherHeld'
  BY DEF Held, TxPdus, OtherHeld, Elems
<1>5. Held' \subseteq Pdu
  <2>1. TxPdus(tx') \subseteq Pdu
    BY TxPdusOf DEF TypeOK
  <2>2. OtherHeld' \subseteq Pdu
    BY DEF OtherHeld, TypeOK
  <2>3. QED
    BY <1>4, <2>1, <2>2
<1>6. \A p \in Numbered' :
        /\ p \in Pdu
        /\ \/ p \in Numbered
           \/ p = f /\ tx.mVal <= p.seq /\ p.seq < tx'.mVal
  <2> SUFFICES ASSUME NEW p \in Numbered'
               PROVE  /\ p \in Pdu
                      /\ \/ p \in Numbered
                         \/ p = f /\ tx.mVal <= p.seq /\ p.seq < tx'.mVal
    OBVIOUS
  <2>1. p \in Held' /\ ~IsResponse(p) /\ p.seq > SeqMin
    BY DEF Numbered, IsResponse
  <2>2. p \in Pdu /\ p.seq \in Nat
    BY <1>5, <2>1, PduFields
  <2>3. \/ p \in Held
        \/ p = f /\ tx.mVal <= p.seq /\ p.seq < tx'.mVal
    BY <1>1, <1>2, <1>4, <2>1, <2>2
  <2>4. QED
    BY <2>1, <2>2, <2>3 DEF Numbered
<1>7. \A p \in Numbered : p \in Pdu /\ p.seq < tx.mVal
  BY <1>3 DEF SeqInv, NumbersBelow, Numbered
<1>8. \A p \in Pdu : p.seq \in Nat
  BY PduFields
<1>9. \A p \in Numbered' : p.seq < tx'.mVal
  BY <1>2, <1>6, <1>7, <1>8
<1>10. ASSUME NEW p \in Numbered', NEW r \in Numbered', p.seq = r.seq
       PROVE  p = r
  <2>1. CASE p \in Numbered /\ r \in Numbered
    BY <1>10, <2>1 DEF SeqInv, SeqIdentifiesRequest
  <2>2. CASE ~(p \in Numbered /\ r \in Numbered)
    BY <1>2, <1>6, <1>7, <1>8, <1>10, <2>2
  <2>3. QED
    BY <2>1, <2>2
<1>11. QED
  BY <1>2, <1>6, <1>9, <1>10
  DEF SeqKept, SeqInv, NumbersBelow, SeqIdentifiesRequest

\* The special case of a step that leaves tx alone.
LEMMA SeqQuiet ==
    ASSUME TypeOK, TypeOK', SeqInv, tx' = tx,
           \A p \in OtherHeld' : p \in Held \/ p.seq <= SeqMin
    PROVE  SeqKept
<1>1. TxPdus(tx) \subseteq Held
  BY HeldIs
<1>2. Numbers(tx, tx', Held)
  BY <1>1, NumbersNone, TxFields DEF TypeOK
<1>3. QED
  BY <1>2, SeqStep

\* Nothing is numbered yet when the backlog is new.
LEMMA InitSeq == BacklogIsNew /\ Init => SeqInv
<1> SUFFICES ASSUME BacklogIsNew, Init PROVE SeqInv
  OBVIOUS
<1>1. \A p \in Held : p.seq <= SeqMin
  <2>1. NoPdu.seq = 0 /\ SeqMin \in Nat
    BY SessionAssumption DEF NoPdu
  <2>2. \A p \in OtherHeld : p.seq <= SeqMin
    BY <2>1 DEF OtherHeld, Init, IdleThread
  <2> DEFINE b == [i \in DOMAIN Backlog |-> NewPdu("submit", Backlog[i], NMsg + i)]
  <2>3. \A p \in Elems(b) : p.seq <= SeqMin
    BY DEF BacklogIsNew, NewPdu, Elems
  <2>4. tx = [q |-> [NoItems EXCEPT ![MESSAGE] = b],
              last |-> [pdu |-> NoPdu, level |-> SESSION],
              mVal |-> SeqMin, fly |-> <<>>]
    BY DEF Init
  <2> HIDE DEF b
  <2>5. /\ tx.q = [NoItems EXCEPT ![MESSAGE] = b]
        /\ tx.last.pdu = NoPdu /\ tx.fly = <<>>
    BY <2>4
  <2>6. \A l \in Levels : tx.q[l] = b \/ tx.q[l] = <<>>
    BY <2>5 DEF NoItems
  <2>7. Elems(<<>>) = {}
    BY DEF Elems
  <2>8. \A p \in Items(tx.q) : p.seq <= SeqMin
    BY <2>3, <2>6, <2>7, ItemsIs
  <2>9. \A p \in TxPdus(tx) : p.seq <= SeqMin
    <3>1. TxPdus(tx) = Items(tx.q) \union {NoPdu}
      BY <2>5, <2>7 DEF TxPdus
    <3>2. NoPdu.seq <= SeqMin
      BY <2>1
    <3>3. QED
      BY <2>8, <3>1, <3>2
  <2>10. QED
    BY <2>2, <2>9, HeldIs
<1>2. Held \subseteq Pdu
  BY InitType, HeldType
<1>3. \A p \in Held : p.seq \in Nat
  BY <1>2, PduFields
<1>4. Numbered = {}
  BY <1>1, <1>3, SessionAssumption DEF Numbered
<1>5. QED
  BY <1>4 DEF SeqInv, NumbersBelow, SeqIdentifiesRequest

\* The network, the MC and the timers.
LEMMA EnvironmentSeq ==
    ASSUME TypeOK, TypeOK', SeqInv, Network \/ MessageCentre \/ TimerExpires
    PROVE  SeqKept
<1> USE DEF connVars, flagVars, mcVars, apiVars
<1>1. tx \in TxRecord
  BY DEF TypeOK
<1>2. Elems(tx.fly) \subseteq Held /\ TxPdus(tx) \subseteq Held
  BY <1>1, TxPdusOf, HeldIs
<1>3. CASE WriteDone \/ WriteFails
  <2>1. tx' = [tx EXCEPT !.fly = Tail(tx.fly)] /\ tx.fly # <<>>
    BY <1>3 DEF WriteDone, WriteFails
  <2>2. /\ tx'.q = tx.q /\ tx'.last = tx.last /\ tx'.mVal = tx.mVal
        /\ tx'.fly = Tail(tx.fly)
    BY <1>1, <2>1 DEF TxRecord
  <2>3. Head(tx.fly) \in Held /\ Elems(tx'.fly) \subseteq Elems(tx.fly)
    BY <1>1, <1>2, <2>1, <2>2, ElemsOf, TxFields
  <2>4. TxPdus(tx') \subseteq Held
    BY <1>2, <2>2, <2>3 DEF TxPdus
  <2>5. Numbers(tx, tx', Held)
    BY <1>1, <2>2, <2>4, NumbersNone, TxFields
  <2>6. /\ mcQ' \subseteq mcQ \union {Head(tx.fly)}
        /\ UNCHANGED <<w4rQ, ageing, thread>>
    BY <1>3 DEF WriteDone, WriteFails
  <2>7. \A p \in OtherHeld' : p \in Held
    BY <2>3, <2>6, HeldIs DEF OtherHeld
  <2>8. QED
    BY <2>5, <2>7, SeqStep
<1>4. CASE ~(WriteDone \/ WriteFails)
  <2>1. UNCHANGED <<tx, w4rQ, ageing, thread>> /\ mcQ' \subseteq mcQ
    <3>1. CASE Network
      BY <1>4, <3>1 DEF Network, ConnectSucceeds, ConnectRefused, ReadDone, ReadFails
    <3>2. CASE MessageCentre
      BY <3>2 DEF MessageCentre, MCAnswers, MCAsks, MCDrops
    <3>3. CASE TimerExpires
      BY <3>3 DEF TimerExpires
    <3>4. QED
      BY <3>1, <3>2, <3>3
  <2>2. \A p \in OtherHeld' : p \in Held
    BY <2>1, HeldIs DEF OtherHeld
  <2>3. QED
    BY <2>1, <2>2, SeqQuiet
<1>5. QED
  BY <1>3, <1>4

\* An unbind has no number before it is written.
LEMMA UnbindNumbers ==
    ASSUME NEW t \in TxRecord, NEW old, TxPdus(t) \subseteq old
    PROVE  Numbers(t, DoUnbindRequest(t), old)
<1>1. NewPdu("unbind", SeqMin, 0) \in Pdu
  BY NewPduType, CommandsAre, SessionAssumption
<1>2. NewPdu("unbind", SeqMin, 0).seq <= SeqMin
  BY SessionAssumption DEF NewPdu
<1>3. QED
  BY <1>1, <1>2, DoWriteNumbers, LevelsAre DEF DoUnbindRequest

\* close_session() queues or writes an unbind that has no number yet.
LEMMA CloseSessionNumbers ==
    ASSUME TypeOK, NEW b, CloseSession(b)
    PROVE  Numbers(tx, tx', Held)
<1> DEFINE t == IF currentState \in BoundStates THEN DoUnbindRequest(tx) ELSE tx
<1>1. tx \in TxRecord /\ TxPdus(tx) \subseteq Held
  BY HeldIs DEF TypeOK
<1>2. Transmit(t)
  BY DEF CloseSession
<1>3. t \in TxRecord
  BY <1>1, DoUnbindRequestType
<1>4. Numbers(tx, t, Held)
  <2>1. Numbers(tx, tx, Held)
    BY <1>1, NumbersNone, TxFields
  <2>2. Numbers(tx, DoUnbindRequest(tx), Held)
    BY <1>1, UnbindNumbers
  <2>3. QED
    BY <2>1, <2>2
<1> HIDE DEF t
<1>5. QED
  BY <1>1, <1>2, <1>3, <1>4, TransmitNumbers

\* The handlers of the io thread, except for those of PDUs.
LEMMA HandlersSeq ==
    ASSUME TypeOK, TypeOK', SeqInv,
           \/ CloseConnection \/ HandleConnectOk \/ HandleConnectError
           \/ HandleReadHeaderOk \/ HandleReadError \/ HandleWriteOk
           \/ HandleWriteError \/ DoEnquireLink \/ DoEnquireLinkFailure
           \/ AgeCleanupBegins \/ AgeCleanupResends \/ AgeCleanupEnds \/ RunReturns
    PROVE  SeqKept
<1> USE DEF connVars, flagVars, mcVars, apiVars
<1>1. /\ tx \in TxRecord /\ tx' \in TxRecord /\ tx.mVal \in Nat
      /\ tx.q \in Queues /\ tx.last.pdu \in Pdu /\ tx.last.level \in Levels
  BY TxFields DEF TypeOK
<1>2. /\ TxPdus(tx) \subseteq Held /\ OtherHeld \subseteq Held
      /\ Items(tx.q) \subseteq Held /\ tx.last.pdu \in Held
  BY <1>1, TxPdusOf, HeldIs
<1>3. Elems(<<>>) = {}
  BY DEF Elems
<1>4. ASSUME tx'.last = tx.last, tx'.mVal = tx.mVal,
             Items(tx'.q) \subseteq Held, Elems(tx'.fly) \subseteq Elems(tx.fly)
      PROVE  Numbers(tx, tx', Held)
  <2>1. TxPdus(tx') \subseteq Held
    BY <1>2, <1>4 DEF TxPdus
  <2>2. QED
    BY <1>1, <1>4, <2>1, NumbersNone
<1>5. ASSUME NEW t \in TxRecord, Transmit(t), Numbers(tx, t, Held)
      PROVE  Numbers(tx, tx', Held)
  BY <1>1, <1>5, TransmitNumbers
<1>6. CASE CloseConnection
  <2>1. tx' = [tx EXCEPT !.q = ClearSessionQueues(tx.q), !.fly = <<>>]
    BY <1>6 DEF CloseConnection
  <2>2. /\ tx'.last = tx.last /\ tx'.mVal = tx.mVal
        /\ tx'.q = ClearSessionQueues(tx.q) /\ tx'.fly = <<>>
    BY <1>1, <2>1 DEF TxRecord
  <2>3. Numbers(tx, tx', Held)
    BY <1>1, <1>2, <1>3, <1>4, <2>2, ItemsOf
  <2>4. \A p \in OtherHeld' : p \in Held
    BY <1>2, <1>6 DEF CloseConnection, ConnectionGone, OtherHeld
  <2>5. QED
    BY <2>3, <2>4, SeqStep
<1>7. CASE HandleConnectOk
  <2>1. Transmit(DoBindRequest(tx)) /\ UNCHANGED <<w4rQ, ageing, mcQ, thread>>
    BY <1>7 DEF HandleConnectOk
  <2>2. DoBindRequest(tx) \in TxRecord
    BY <1>1, DoBindRequestType
  <2>3. Numbers(tx, DoBindRequest(tx), Held)
    BY <1>1, <1>2, NewRequestNumbers, CommandsAre DEF DoBindRequest
  <2>4. Numbers(tx, tx', Held)
    BY <1>5, <2>1, <2>2, <2>3
  <2>5. \A p \in OtherHeld' : p \in Held
    BY <1>2, <2>1 DEF OtherHeld
  <2>6. QED
    BY <2>4, <2>5, SeqStep
<1>8. CASE HandleConnectError
  <2>1. /\ tx' = tx \/ tx' = [tx EXCEPT !.fly = <<>>]
        /\ mcQ' = mcQ \/ mcQ' = {}
        /\ UNCHANGED <<w4rQ, ageing, thread>>
    BY <1>8 DEF HandleConnectError, ConnectionGone
  <2>2. /\ tx'.last = tx.last /\ tx'.mVal = tx.mVal /\ tx'.q = tx.q
        /\ tx'.fly = tx.fly \/ tx'.fly = <<>>
    BY <1>1, <2>1 DEF TxRecord
  <2>3. Numbers(tx, tx', Held)
    BY <1>2, <1>3, <1>4, <2>2
  <2>4. \A p \in OtherHeld' : p \in Held
    BY <1>2, <2>1 DEF OtherHeld
  <2>5. QED
    BY <2>3, <2>4, SeqStep
<1>9. CASE HandleReadHeaderOk \/ AgeCleanupBegins \/ AgeCleanupEnds \/ RunReturns
  <2>1. /\ tx' = tx /\ UNCHANGED <<w4rQ, mcQ, thread>>
        /\ ageing'.todo \subseteq ageing.todo \union w4rQ
    BY <1>9 DEF HandleReadHeaderOk, AgeCleanupBegins, AgeCleanupEnds, RunReturns
  <2>2. \A p \in OtherHeld' : p \in Held
    BY <1>2, <2>1 DEF OtherHeld
  <2>3. QED
    BY <2>1, <2>2, SeqQuiet
<1>10. CASE HandleReadError \/ DoEnquireLinkFailure
  <2>1. /\ tx' = tx \/ CloseSession(TRUE) \/ CloseSession(FALSE)
        /\ UNCHANGED <<w4rQ, ageing, mcQ, thread>>
    BY <1>10 DEF HandleReadError, DoEnquireLinkFailure
  <2>2. \A p \in OtherHeld' : p \in Held
    BY <1>2, <2>1 DEF OtherHeld
  <2>3. CASE tx' = tx
    BY <2>2, <2>3, SeqQuiet
  <2>4. CASE CloseSession(TRUE) \/ CloseSession(FALSE)
    BY <2>2, <2>4, CloseSessionNumbers, SeqStep
  <2>5. QED
    BY <2>1, <2>3, <2>4
<1>11. CASE HandleWriteOk
  <2> DEFINE t == IF CanSend(w4rQ') /\ ~IsEmpty(tx.q) THEN WritePdu(tx) ELSE tx
  <2>1. /\ Transmit(t) /\ w4rQ' \subseteq w4rQ \union {tx.last.pdu}
        /\ UNCHANGED <<ageing, mcQ, thread>>
    BY <1>11 DEF HandleWriteOk, W4rQPut
  <2>2. t \in TxRecord
    BY <1>1, WritePduType
  <2>3. Numbers(tx, t, Held)
    <3>1. Numbers(tx, tx, Held)
      BY <1>1, <1>2, NumbersNone
    <3>2. ~IsEmpty(tx.q) => Numbers(tx, WritePdu(tx), Held)
      BY <1>1, <1>2, WriteNumbers, NumbersMore
    <3>3. QED
      BY <3>1, <3>2
  <2> HIDE DEF t
  <2>4. Numbers(tx, tx', Held)
    BY <1>5, <2>1, <2>2, <2>3
  <2>5. \A p \in OtherHeld' : p \in Held
    BY <1>2, <2>1 DEF OtherHeld
  <2>6. QED
    BY <2>4, <2>5, SeqStep
<1>12. CASE HandleWriteError
  <2>1. /\ tx' = [tx EXCEPT !.q = PutBack(tx.q, tx.last.pdu, tx.last.level)]
        /\ UNCHANGED <<w4rQ, ageing, mcQ, thread>>
    BY <1>12 DEF HandleWriteError
  <2>2. /\ tx'.last = tx.last /\ tx'.mVal = tx.mVal /\ tx'.fly = tx.fly
        /\ tx'.q = PutBack(tx.q, tx.last.pdu, tx.last.level)
    BY <1>1, <2>1 DEF TxRecord
  <2>3. Items(tx'.q) \subseteq Held
    BY <1>1, <1>2, <2>2, ItemsOf
  <2>4. Numbers(tx, tx', Held)
    BY <1>4, <2>2, <2>3
  <2>5. \A p \in OtherHeld' : p \in Held
    BY <1>2, <2>1 DEF OtherHeld
  <2>6. QED
    BY <2>4, <2>5, SeqStep
<1>13. CASE DoEnquireLink
  <2> DEFINE t == DoWrite(NextSeq(tx), NewPdu("enquire", tx.mVal, 0), SESSION)
  <2>1. Transmit(t) /\ UNCHANGED <<w4rQ, ageing, mcQ, thread>>
    BY <1>13 DEF DoEnquireLink
  <2>2. t \in TxRecord
    BY <1>1, TxFields, NewPduType, CommandsAre, DoWriteType, LevelsAre
  <2>3. Numbers(tx, t, Held)
    BY <1>1, <1>2, NewRequestNumbers, CommandsAre
  <2> HIDE DEF t
  <2>4. Numbers(tx, tx', Held)
    BY <1>5, <2>1, <2>2, <2>3
  <2>5. \A p \in OtherHeld' : p \in Held
    BY <1>2, <2>1 DEF OtherHeld
  <2>6. QED
    BY <2>4, <2>5, SeqStep
<1>14. CASE AgeCleanupResends
  <2>1. PICK p \in ageing.todo :
          /\ Transmit(DoWrite(tx, p, MESSAGE))
          /\ w4rQ' \subseteq w4rQ
          /\ ageing' = [ageing EXCEPT !.todo = {r \in @ : r.seq > p.seq}]
          /\ UNCHANGED <<mcQ, thread>>
    BY <1>14 DEF AgeCleanupResends
  <2>2. p \in Pdu /\ p \in Held
    BY <1>2 DEF TypeOK, OtherHeld
  <2>3. /\ DoWrite(tx, p, MESSAGE) \in TxRecord
        /\ Numbers(tx, DoWrite(tx, p, MESSAGE), Held)
    BY <1>1, <1>2, <2>2, DoWriteType, DoWriteNumbers, LevelsAre
  <2>4. Numbers(tx, tx', Held)
    BY <1>5, <2>1, <2>3
  <2>5. ageing'.todo \subseteq ageing.todo
    BY <2>1 DEF TypeOK
  <2>6. \A r \in OtherHeld' : r \in Held
    BY <1>2, <2>1, <2>5 DEF OtherHeld
  <2>7. QED
    BY <2>4, <2>6, SeqStep
<1>15. QED
  BY <1>6, <1>7, <1>8, <1>9, <1>10, <1>11, <1>12, <1>13, <1>14

\* handle_read_body: what a PDU leads to is a response, a bind or nothing.
LEMMA ProcessSeq ==
    ASSUME TypeOK, TypeOK', SeqInv,
           \/ ProcBindResp \/ ProcEnquireLink \/ ProcDeliverSm \/ ProcGarbled
           \/ ProcUnbind \/ ProcUnbindResp \/ ProcOutbind \/ ProcNothing
    PROVE  SeqKept
<1>1. tx \in TxRecord /\ TxPdus(tx) \subseteq Held /\ OtherHeld \subseteq Held
  BY HeldIs DEF TypeOK
<1>2. ready # <<>>
  BY DEF ProcBindResp, ProcEnquireLink, ProcDeliverSm, ProcGarbled, ProcUnbind,
         ProcUnbindResp, ProcOutbind, ProcNothing, Arrived, Runs
<1>3. ASSUME NEW t \in TxRecord, NEW posts, ReadNext(t, posts), Numbers(tx, t, Held)
      PROVE  SeqKept
  <2>1. Transmit(t) /\ w4rQ' \subseteq w4rQ /\ UNCHANGED <<ageing, mcQ, thread>>
    BY <1>3 DEF ReadNext, W4rQPop, mcVars, apiVars
  <2>2. Numbers(tx, tx', Held)
    BY <1>1, <1>3, <2>1, TransmitNumbers
  <2>3. \A p \in OtherHeld' : p \in Held
    BY <1>1, <2>1 DEF OtherHeld
  <2>4. QED
    BY <2>2, <2>3, SeqStep
<1>4. Numbers(tx, tx, Held)
  BY <1>1, NumbersNone, TxFields
<1>5. ASSUME NEW cmd \in Responses
      PROVE  Respond(cmd) \in TxRecord /\ Numbers(tx, Respond(cmd), Held)
  <2> DEFINE p == Answer(cmd, Head(ready).pdu)
  <2>1. p \in Pdu
    BY <1>2, ReadyType, PduFields, NewPduType DEF Answer, Commands
  <2>2. IsResponse(p)
    BY DEF IsResponse, Answer, NewPdu
  <2> HIDE DEF p
  <2>3. /\ DoWrite(tx, p, RESPONSE) \in TxRecord
        /\ Numbers(tx, DoWrite(tx, p, RESPONSE), Held)
    BY <1>1, <2>1, <2>2, DoWriteType, DoWriteNumbers, LevelsAre
  <2>4. QED
    BY <2>3 DEF Respond, p
<1>6. {"enquire_resp", "deliver_resp", "unbind_resp"} \subseteq Responses
  BY DEF Responses, ResponseOf
<1>7. CASE ProcBindResp \/ ProcUnbindResp \/ ProcNothing
  <2>1. ReadNext(tx, <<>>) \/ ReadNext(tx, <<CloseEntry>>)
    BY <1>7 DEF ProcBindResp, ProcUnbindResp, ProcNothing
  <2>2. QED
    BY <1>1, <1>3, <1>4, <2>1
<1>8. CASE ProcEnquireLink \/ ProcDeliverSm \/ ProcUnbind
  <2>1. \E cmd \in Responses :
          ReadNext(Respond(cmd), <<>>) \/ ReadNext(Respond(cmd), <<CloseEntry>>)
    BY <1>6, <1>8 DEF ProcEnquireLink, ProcDeliverSm, ProcUnbind
  <2>2. QED
    BY <1>3, <1>5, <2>1
<1>9. CASE ProcOutbind
  <2>1. ReadNext(DoBindRequest(tx), <<>>)
    BY <1>9 DEF ProcOutbind
  <2>2. DoBindRequest(tx) \in TxRecord
    BY <1>1, DoBindRequestType
  <2>3. Numbers(tx, DoBindRequest(tx), Held)
    BY <1>1, NewRequestNumbers, CommandsAre DEF DoBindRequest
  <2>4. QED
    BY <1>3, <2>1, <2>2, <2>3
<1>10. CASE ProcGarbled
  <2>1. ReadNext(DoUnbindRequest(tx), <<CloseEntry>>) \/ ReadNext(tx, <<CloseEntry>>)
    BY <1>10 DEF ProcGarbled
  <2>2. QED
    BY <1>1, <1>3, <1>4, <2>1, DoUnbindRequestType, UnbindNumbers
<1>11. QED
  BY <1>7, <1>8, <1>9, <1>10

\* The sendingProcessor thread and the main thread.
LEMMA OtherThreadsSeq ==
    ASSUME TypeOK, TypeOK', SeqInv, OtherThreads
    PROVE  SeqKept
<1> USE DEF connVars, flagVars, mcVars
<1>1. /\ tx \in TxRecord /\ TxPdus(tx) \subseteq Held /\ OtherHeld \subseteq Held
      /\ tx.mVal \in Nat /\ tx.q \in Queues /\ tx.fly \in Seq(Pdu)
  BY HeldIs, TxFields DEF TypeOK
<1>2. /\ \A t \in ThreadIds : thread[t].pdu \in Pdu /\ thread[t].pdu \in Held
      /\ {"sender", "main"} = ThreadIds /\ SeqMin \in Nat
      /\ thread \in [ThreadIds -> [pc : ThreadPcs, pdu : Pdu, busy : BOOLEAN]]
  BY <1>1, SessionAssumption DEF TypeOK, OtherHeld, ThreadIds
<1>3. ASSUME UNCHANGED <<w4rQ, ageing, mcQ>>,
             \A t \in ThreadIds : \/ thread'[t].pdu \in Held \union TxPdus(tx')
                                  \/ thread'[t].pdu.seq <= SeqMin
      PROVE  \A p \in OtherHeld' : p \in Held \/ p \in TxPdus(tx') \/ p.seq <= SeqMin
  BY <1>1, <1>3 DEF OtherHeld
<1>4. ASSUME NEW t \in ThreadIds, NEW pc, Goto(t, pc)
      PROVE  \A s \in ThreadIds : thread'[s].pdu = thread[s].pdu
  BY <1>2, <1>4 DEF Goto
<1>5. ASSUME NEW t \in ThreadIds, NEW p \in Pdu, p.seq <= SeqMin, NEW pc,
             thread' = [thread EXCEPT ![t] = [@ EXCEPT !.pc = pc, !.pdu = p]]
      PROVE  \A s \in ThreadIds : \/ thread'[s].pdu \in Held
                                  \/ thread'[s].pdu.seq <= SeqMin
  <2>1. \A s \in ThreadIds : thread'[s].pdu = IF s = t THEN p ELSE thread[s].pdu
    BY <1>2, <1>5
  <2>2. QED
    BY <1>2, <1>5, <2>1
<1>6. CASE TakeMessage \/ StopClosesSession
  <2>1. UNCHANGED <<tx, w4rQ, ageing, mcQ>>
    BY <1>6 DEF TakeMessage, StopClosesSession
  <2>2. \A t \in ThreadIds : thread'[t].pdu \in Held \/ thread'[t].pdu.seq <= SeqMin
    <3>1. CASE TakeMessage
      <4>1. NewPdu("submit", SeqMin, nextMsg) \in Pdu
        BY <1>2, NewPduType, CommandsAre DEF TypeOK
      <4>2. NewPdu("submit", SeqMin, nextMsg).seq <= SeqMin
        BY <1>2 DEF NewPdu
      <4>3. QED
        BY <1>2, <1>5, <3>1, <4>1, <4>2 DEF TakeMessage
    <3>2. CASE StopClosesSession
      <4>1. NewPdu("unbind", SeqMin, 0) \in Pdu
        BY <1>2, NewPduType, CommandsAre
      <4>2. NewPdu("unbind", SeqMin, 0).seq <= SeqMin
        BY <1>2 DEF NewPdu
      <4>3. CASE Goto("main", "post")
        BY <1>2, <1>4, <4>3
      <4>4. QED
        BY <1>2, <1>5, <3>2, <4>1, <4>2, <4>3 DEF StopClosesSession
    <3>3. QED
      BY <1>6, <3>1, <3>2
  <2>3. QED
    BY <1>1, <1>3, <2>1, <2>2, SeqQuiet DEF TxPdus
<1>7. CASE \/ SendPdu \/ Stop \/ StopClearsReconnect \/ StopPosts
           \/ \E t \in ThreadIds : DoWriteLocks(t) \/ DoWriteCrashes(t)
  <2>1. UNCHANGED <<tx, w4rQ, ageing, mcQ>>
    BY <1>7 DEF SendPdu, Stop, StopClearsReconnect, StopPosts, DoWriteLocks,
                DoWriteCrashes
  <2>2. \A t \in ThreadIds : thread'[t].pdu = thread[t].pdu
    <3>1. CASE SendPdu \/ Stop \/ StopClearsReconnect \/ StopPosts
      BY <1>2, <1>4, <3>1 DEF SendPdu, Stop, StopClearsReconnect, StopPosts
    <3>2. CASE \E t \in ThreadIds : DoWriteLocks(t)
      BY <1>2, <3>2 DEF DoWriteLocks
    <3>3. CASE \E t \in ThreadIds : DoWriteCrashes(t)
      BY <1>2, <3>3 DEF DoWriteCrashes
    <3>4. QED
      BY <1>7, <3>1, <3>2, <3>3
  <2>3. QED
    BY <1>1, <1>2, <1>3, <2>1, <2>2, SeqQuiet DEF TxPdus
<1>8. ASSUME NEW t \in ThreadIds, DoWritePushes(t)
      PROVE  SeqKept
  <2>1. /\ tx' = [tx EXCEPT !.q = Push(tx.q, thread[t].pdu, LevelOf(t))]
        /\ UNCHANGED <<w4rQ, ageing, mcQ>>
    BY <1>8 DEF DoWritePushes
  <2>2. /\ tx'.q = Push(tx.q, thread[t].pdu, LevelOf(t)) /\ tx'.last = tx.last
        /\ tx'.mVal = tx.mVal /\ tx'.fly = tx.fly
    BY <1>1, <2>1 DEF TxRecord
  <2>3. LevelOf(t) \in Levels
    BY LevelsAre DEF LevelOf
  <2>4. Items(tx'.q) \subseteq Items(tx.q) \union {thread[t].pdu}
    BY <1>1, <1>2, <2>2, <2>3, ItemsOf
  <2>5. TxPdus(tx') \subseteq Held
    BY <1>1, <1>2, <2>2, <2>4 DEF TxPdus
  <2>6. Numbers(tx, tx', Held)
    BY <1>1, <2>2, <2>5, NumbersNone
  <2>7. \A s \in ThreadIds : thread'[s].pdu = thread[s].pdu
    BY <1>4, <1>8 DEF DoWritePushes
  <2>8. QED
    BY <1>2, <1>3, <2>1, <2>6, <2>7, SeqStep
<1>9. ASSUME NEW t \in ThreadIds, DoWritePops(t)
      PROVE  SeqKept
  <2>1. /\ tx' = PopPdu(tx) /\ ~IsEmpty(tx.q)
        /\ thread' = [thread EXCEPT ![t].pc = "write", ![t].pdu = tx'.last.pdu]
        /\ UNCHANGED <<w4rQ, ageing, mcQ>>
    BY <1>9 DEF DoWritePops
  <2>2. Numbers(tx, tx', Held)
    BY <1>1, <2>1, WriteNumbers, NumbersMore
  <2>3. \A s \in ThreadIds :
          thread'[s].pdu = IF s = t THEN tx'.last.pdu ELSE thread[s].pdu
    BY <1>2, <2>1
  <2>4. tx'.last.pdu \in TxPdus(tx')
    BY DEF TxPdus
  <2>5. QED
    BY <1>2, <1>3, <2>1, <2>2, <2>3, <2>4, SeqStep
<1>10. ASSUME NEW t \in ThreadIds, DoWriteWrites(t)
       PROVE  SeqKept
  <2> DEFINE u == [tx EXCEPT !.fly = Append(tx.fly, thread[t].pdu)]
  <2>1. Transmit(u) /\ Goto(t, Returns(t)) /\ UNCHANGED <<w4rQ, ageing, mcQ>>
    BY <1>10 DEF DoWriteWrites
  <2>2. u \in TxRecord
    <3>1. Append(tx.fly, thread[t].pdu) \in Seq(Pdu)
      BY <1>1, <1>2, AppendProperties
    <3>2. QED
      BY <1>1, <3>1, TxFields DEF TxRecord
  <2>3. /\ u.q = tx.q /\ u.last = tx.last /\ u.mVal = tx.mVal
        /\ u.fly = Append(tx.fly, thread[t].pdu)
    BY <1>1 DEF TxRecord
  <2> HIDE DEF u
  <2>4. Elems(u.fly) \subseteq Elems(tx.fly) \union {thread[t].pdu}
    BY <1>1, <1>2, <2>3, ElemsOf
  <2>5. TxPdus(u) \subseteq Held
    BY <1>1, <1>2, <2>3, <2>4 DEF TxPdus
  <2>6. Numbers(tx, u, Held)
    BY <1>1, <2>3, <2>5, NumbersNone
  <2>7. Numbers(tx, tx', Held)
    BY <1>1, <2>1, <2>2, <2>6, TransmitNumbers
  <2>8. \A s \in ThreadIds : thread'[s].pdu = thread[s].pdu
    BY <1>4, <2>1
  <2>9. QED
    BY <1>2, <1>3, <2>1, <2>7, <2>8, SeqStep
<1>11. QED
  BY <1>6, <1>7, <1>8, <1>9, <1>10 DEF OtherThreads, OtherThread

\* Every step, given the types.
LEMMA NextSeqInv == TypeOK /\ SeqInv /\ [Next]_vars => SeqKept
<1> SUFFICES ASSUME TypeOK, SeqInv, [Next]_vars PROVE SeqKept
  OBVIOUS
<1>1. TypeOK'
  BY NextType
<1>2. CASE Network \/ MessageCentre \/ TimerExpires
  BY <1>1, <1>2, EnvironmentSeq
<1>3. CASE IoThread
  BY <1>1, <1>3, HandlersSeq, ProcessSeq DEF IoThread
<1>4. CASE OtherThreads
  BY <1>1, <1>4, OtherThreadsSeq
<1>5. CASE UNCHANGED vars
  <2>1. UNCHANGED <<tx, w4rQ, ageing, mcQ, thread>>
    BY <1>5 DEF vars, mcVars, apiVars
  <2>2. \A p \in OtherHeld' : p \in Held
    BY <2>1, HeldIs DEF OtherHeld
  <2>3. QED
    BY <1>1, <2>1, <2>2, SeqQuiet
<1>6. QED
  BY <1>2, <1>3, <1>4, <1>5 DEF Next

\* Provided that no message found on disk has a number from an earlier run, a
\* sequence number identifies a request in every reachable state, for every
\* bind type, backlog, MC and number of messages: two threads number PDUs, and
\* put-backs, resends and reconnects move them about.
THEOREM SessionSeqIdentifiesRequest ==
    ASSUME BacklogIsNew
    PROVE  Spec => []SeqIdentifiesRequest
<1>1. Init => TypeOK /\ SeqInv
  BY InitType, InitSeq
<1>2. TypeOK /\ SeqInv /\ [Next]_vars => (TypeOK /\ SeqInv)'
  BY NextType, NextSeqInv DEF SeqKept
<1>3. SeqInv => SeqIdentifiesRequest
  BY DEF SeqInv
<1>4. QED
  BY <1>1, <1>2, <1>3, PTL DEF Spec

=============================================================================
