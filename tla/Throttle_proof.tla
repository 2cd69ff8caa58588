--------------------------- MODULE Throttle_proof ---------------------------
(***************************************************************************)
(* Proofs about Throttle, for every limit, every clock resolution and      *)
(* every bound on time, oversleep and number of PDUs.                      *)
(***************************************************************************)
EXTENDS Throttle, SequenceTheorems, TLAPS

\* What has to hold between two sends for the next one to keep its distance:
\* the clock is past the last send, and throttleNextSendTime is a period after
\* the last send but one.
LastSendIsPast ==
    Len(sends) >= 1 => now >= sends[Len(sends)]

NextSendIsLate ==
    Len(sends) >= 2 =>
        throttleNextSendTime >= sends[Len(sends) - 1] + TimeBetweenSends

IInv == TypeOK /\ LastSendIsPast /\ NextSendIsLate /\ TwoSendsPerPeriod

\* The period is a number of ticks, whatever the limit.
LEMMA TimeBetweenSendsType == TimeBetweenSends \in Nat
<1>1. Second \in Nat /\ TxThrottleLimit \in Nat /\ TxThrottleLimit > 0
  BY ThrottleAssumption
<1>2. QED
  BY <1>1 DEF TimeBetweenSends

\* throttle_check() may sleep past its time, and never returns before it.
LEMMA WakesUpLate ==
    ASSUME TypeOK, NEW t \in 0 .. MaxTime, WakesUp(t)
    PROVE  t >= now /\ t >= throttleNextSendTime
<1> USE ThrottleAssumption DEF TypeOK
<1>1. CASE now < throttleNextSendTime
  BY <1>1 DEF WakesUp
<1>2. CASE ~(now < throttleNextSendTime)
  BY <1>2 DEF WakesUp
<1>3. QED
  BY <1>1, <1>2

\* Initially nothing has been sent.
LEMMA InitIInv == Init => IInv
  BY ThrottleAssumption
  DEF Init, IInv, TypeOK, LastSendIsPast, NextSendIsLate, TwoSendsPerPeriod

\* No step of the clock and no call of throttle_check() breaks the invariant.
LEMMA NextIInv == IInv /\ [Next]_vars => IInv'
<1> SUFFICES ASSUME IInv, [Next]_vars PROVE IInv'
  OBVIOUS
<1> DEFINE P == TimeBetweenSends
           n == Len(sends)
<1>1. P \in Nat /\ MaxTime \in Nat
  BY TimeBetweenSendsType, ThrottleAssumption
<1>2. /\ TypeOK /\ n \in Nat
      /\ \A i \in 1 .. n : sends[i] \in Nat
  <2>1. TypeOK
    BY DEF IInv
  <2>2. sends \in Seq(0 .. MaxTime)
    BY <2>1 DEF TypeOK
  <2>3. n \in Nat
    BY <2>2, LenProperties
  <2>4. \A i \in 1 .. n : sends[i] \in 0 .. MaxTime
    BY <2>2, ElementOfSeq
  <2>5. QED
    BY <1>1, <2>1, <2>3, <2>4
<1>3. CASE Tick
  <2>1. TypeOK'
    BY <1>1, <1>2, <1>3 DEF Tick, TypeOK
  <2>2. LastSendIsPast' /\ NextSendIsLate' /\ TwoSendsPerPeriod'
    BY <1>1, <1>2, <1>3
    DEF IInv, Tick, TypeOK, LastSendIsPast, NextSendIsLate, TwoSendsPerPeriod,
        TimeBetweenSends
  <2>3. QED
    BY <2>1, <2>2 DEF IInv
<1>4. CASE ThrottleCheck
  <2>1. PICK t \in 0 .. MaxTime :
          /\ WakesUp(t)
          /\ now' = t
          /\ throttleNextSendTime' = now + P
          /\ sends' = Append(sends, t)
    BY <1>4 DEF ThrottleCheck, NextSendTime
  <2>2. t >= now /\ t >= throttleNextSendTime
    BY <1>2, <2>1, WakesUpLate
  <2>3. /\ Len(sends') = n + 1 /\ sends'[n + 1] = t
        /\ \A i \in 1 .. n : sends'[i] = sends[i]
    BY <1>2, <2>1 DEF TypeOK
  <2>4. TypeOK'
    BY <1>1, <1>2, <2>1 DEF TypeOK
  <2>5. LastSendIsPast'
    BY <1>2, <2>1, <2>3 DEF LastSendIsPast
  <2>6. NextSendIsLate'
    <3>1. n >= 1 => now + P >= sends[n] + P
      BY <1>1, <1>2 DEF IInv, LastSendIsPast, TypeOK
    <3>2. QED
      BY <1>2, <2>1, <2>3, <3>1 DEF NextSendIsLate
  <2>7. TwoSendsPerPeriod'
    <3> SUFFICES ASSUME NEW i \in 1 .. Len(sends') - 2
                 PROVE  sends'[i + 2] >= sends'[i] + P
      BY DEF TwoSendsPerPeriod
    <3>1. CASE i \in 1 .. n - 2
      BY <1>2, <2>3, <3>1 DEF IInv, TwoSendsPerPeriod
    <3>2. CASE i = n - 1
      <4>1. throttleNextSendTime >= sends[i] + P
        BY <1>2, <2>3, <3>2 DEF IInv, NextSendIsLate
      <4>2. throttleNextSendTime \in Nat /\ sends[i] \in Nat
        BY <1>2, <2>3, <3>2 DEF TypeOK
      <4>3. QED
        BY <1>1, <1>2, <2>2, <2>3, <3>2, <4>1, <4>2
    <3>3. QED
      BY <1>2, <2>3, <3>1, <3>2
  <2>8. QED
    BY <2>4, <2>5, <2>6, <2>7 DEF IInv
<1>5. CASE UNCHANGED vars
  BY <1>5 DEF vars, IInv, TypeOK, LastSendIsPast, NextSendIsLate,
              TwoSendsPerPeriod, TimeBetweenSends
<1>6. QED
  BY <1>3, <1>4, <1>5 DEF Next

\* The history of sends and the clock keep their types in every behaviour.
THEOREM ThrottleTypeOK == Spec => []TypeOK
<1>1. IInv => TypeOK
  BY DEF IInv
<1>2. QED
  BY InitIInv, NextIInv, <1>1, PTL DEF Spec

\* At most two PDUs leave in any timeBetweenSends, for every tx-throttle-limit
\* and however late usleep() returns.
THEOREM ThrottleTwoSendsPerPeriod == Spec => []TwoSendsPerPeriod
<1>1. IInv => TwoSendsPerPeriod
  BY DEF IInv
<1>2. QED
  BY InitIInv, NextIInv, <1>1, PTL DEF Spec

=============================================================================
