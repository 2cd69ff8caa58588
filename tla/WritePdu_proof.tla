--------------------------- MODULE WritePdu_proof ---------------------------
(***************************************************************************)
(* Proofs about WritePdu: the limit of Throttle holds for whatever is      *)
(* written, and the generator gives a number again only after all others,  *)
(* for every range of numbers and however often it wraps.                  *)
(***************************************************************************)
EXTENDS WritePdu, Throttle_proof

\* Where the generator was d calls ago, as long as d is less than a cycle.
Before(d) == IF mVal >= SeqMin + d THEN mVal - d ELSE mVal + Cycle - d

GivenInTurn ==
    \A i \in 1 .. Len(given) :
        Len(given) + 1 - i < Cycle => given[i] = Before(Len(given) + 1 - i)

NumbersOK == mVal \in Numbers /\ given \in Seq(Numbers)

NInv == NumbersOK /\ GivenInTurn /\ RecentNumbersDiffer

LEMMA NumbersAreNat ==
    SeqMin \in Nat /\ SeqMax \in Nat /\ SeqMin < SeqMax /\ Cycle \in Nat \ {0, 1}
  BY WritePduAssumption DEF Cycle

LEMMA InitNInv == WriteInit => NInv
<1> SUFFICES ASSUME WriteInit
             PROVE  NInv
  OBVIOUS
<1>1. given = <<>> /\ Len(given) = 0 /\ DOMAIN given = {} /\ mVal = SeqMin
  BY DEF WriteInit
<1>2. NumbersOK
  BY <1>1, NumbersAreNat DEF NumbersOK, Numbers
<1>3. QED
  BY <1>1, <1>2 DEF NInv, GivenInTurn, RecentNumbersDiffer

\* next() gives a number that none of the last Cycle - 1 calls has given.
LEMMA NextNumberStep ==
    ASSUME NInv, NextNumber
    PROVE  NInv'
<1> DEFINE n == Len(given)
<1>1. /\ n \in Nat /\ DOMAIN given = 1 .. n
      /\ mVal \in Nat /\ SeqMin <= mVal /\ mVal <= SeqMax
      /\ \A i \in 1 .. n : given[i] \in Nat
  BY NumbersAreNat, LenProperties, ElementOfSeq DEF NInv, NumbersOK, Numbers
<1>2. /\ given' = Append(given, mVal)
      /\ mVal' = IF mVal < SeqMax THEN mVal + 1 ELSE SeqMin
  BY DEF NextNumber
<1>3. /\ given' \in Seq(Numbers) /\ Len(given') = n + 1 /\ DOMAIN given' = 1 .. n + 1
      /\ given'[n + 1] = mVal
      /\ \A i \in 1 .. n : given'[i] = given[i]
  BY <1>2, AppendProperties, LenProperties DEF NInv, NumbersOK
<1> HIDE DEF n
<1>4. NumbersOK'
  BY <1>1, <1>2, <1>3, NumbersAreNat DEF NumbersOK, Numbers
<1>5. \A i \in 1 .. n : n + 1 - i < Cycle =>
        given[i] = IF mVal >= SeqMin + (n + 1 - i)
                   THEN mVal - (n + 1 - i) ELSE mVal + Cycle - (n + 1 - i)
  BY DEF NInv, GivenInTurn, Before, n
<1>6. GivenInTurn'
  <2> SUFFICES ASSUME NEW i \in 1 .. n + 1, NEW e \in Nat, e = n + 2 - i, e < Cycle
               PROVE  given'[i] = IF mVal' >= SeqMin + e THEN mVal' - e
                                  ELSE mVal' + Cycle - e
    <3>1. \A i \in 1 .. n + 1 : n + 2 - i \in Nat /\ Len(given') + 1 - i = n + 2 - i
      BY <1>1, <1>3
    <3>2. QED
      BY <1>3, <3>1 DEF GivenInTurn, Before, Cycle
  <2>1. CASE i = n + 1
    BY <1>1, <1>2, <1>3, <2>1, NumbersAreNat DEF Cycle
  <2>2. CASE i # n + 1
    <3>1. /\ i \in 1 .. n /\ given'[i] = given[i]
          /\ given[i] = IF mVal >= SeqMin + (n + 1 - i)
                        THEN mVal - (n + 1 - i) ELSE mVal + Cycle - (n + 1 - i)
      BY <1>1, <1>3, <1>5, <2>2, NumbersAreNat
    <3> DEFINE d == n + 1 - i
    <3>2. d \in Nat \ {0} /\ e = d + 1
      BY <1>1, <3>1
    <3>3. given'[i] = IF mVal >= SeqMin + d THEN mVal - d ELSE mVal + Cycle - d
      BY <3>1
    <3> HIDE DEF d
    <3>4. CASE mVal < SeqMax
      BY <1>1, <1>2, <3>2, <3>3, <3>4, NumbersAreNat
    <3>5. CASE mVal = SeqMax
      <4>1. mVal' = SeqMin /\ given'[i] = SeqMax - d
        BY <1>2, <3>2, <3>3, <3>5, NumbersAreNat DEF Cycle
      <4>2. SeqMin + Cycle - e = SeqMax - d /\ ~(SeqMin >= SeqMin + e)
        BY <3>2, NumbersAreNat DEF Cycle
      <4>3. QED
        BY <4>1, <4>2
    <3>6. QED
      BY <1>1, NumbersAreNat, <3>4, <3>5
  <2>3. QED
    BY <2>1, <2>2
<1>7. RecentNumbersDiffer'
  <2> SUFFICES ASSUME NEW i \in 1 .. n + 1, NEW j \in 1 .. n + 1,
                      i < j, j - i < Cycle
               PROVE  given'[i] # given'[j]
    BY <1>3 DEF RecentNumbersDiffer, Cycle
  <2>1. i \in 1 .. n /\ given'[i] = given[i]
    BY <1>1, <1>3
  <2>2. CASE j \in 1 .. n
    BY <1>1, <1>3, <2>1, <2>2 DEF NInv, RecentNumbersDiffer
  <2>3. CASE j = n + 1
    <3>1. n + 1 - i < Cycle /\ n + 1 - i >= 1
      BY <1>1, <2>1, <2>3
    <3>2. given[i] = IF mVal >= SeqMin + (n + 1 - i)
                     THEN mVal - (n + 1 - i) ELSE mVal + Cycle - (n + 1 - i)
      BY <1>5, <2>1, <3>1
    <3>3. given[i] # mVal
      BY <1>1, <2>1, <3>1, <3>2, NumbersAreNat
    <3>4. QED
      BY <1>3, <2>1, <2>3, <3>3
  <2>4. QED
    BY <1>1, <2>2, <2>3
<1>8. QED
  BY <1>4, <1>6, <1>7 DEF NInv

LEMMA StepNInv == NInv /\ [WriteNext]_writeVars => NInv'
<1> SUFFICES ASSUME NInv, [WriteNext]_writeVars
             PROVE  NInv'
  OBVIOUS
<1>1. CASE NextNumber
  BY <1>1, NextNumberStep
<1>2. CASE UNCHANGED numberVars
  BY <1>2 DEF numberVars, NInv, NumbersOK, GivenInTurn, Before, RecentNumbersDiffer,
     Cycle, Numbers
<1>3. QED
  BY <1>1, <1>2 DEF WriteNext, Pass, TakeNumber, WriteUnnumbered, WriteNumbered, writeVars

\* A behaviour of WritePdu is one of Throttle, so that its theorems carry over.
LEMMA WriteSpecIsThrottled == WriteSpec => Spec
<1>1. WriteInit => Init
  BY DEF WriteInit
<1>2. [WriteNext]_writeVars => [Next]_vars
  BY DEF WriteNext, Pass, TakeNumber, WriteUnnumbered, WriteNumbered, writeVars, Next
<1>3. QED
  BY <1>1, <1>2, PTL DEF WriteSpec, Spec

\* Every variable of write_pdu() keeps its type.
THEOREM WritePduTypeOK == WriteSpec => []WriteTypeOK
<1>1. NInv /\ TypeOK => WriteTypeOK
  BY DEF NInv, NumbersOK, WriteTypeOK
<1>2. WriteSpec => []NInv
  BY InitNInv, StepNInv, PTL DEF WriteSpec
<1>3. QED
  BY <1>1, <1>2, WriteSpecIsThrottled, ThrottleTypeOK, PTL

\* At most two PDUs leave in any timeBetweenSends.
THEOREM WritePduTwoSendsPerPeriod == WriteSpec => []TwoSendsPerPeriod
  BY WriteSpecIsThrottled, ThrottleTwoSendsPerPeriod, PTL

\* A number comes again only after all the others.
THEOREM WritePduRecentNumbersDiffer == WriteSpec => []RecentNumbersDiffer
<1>1. NInv => RecentNumbersDiffer
  BY DEF NInv
<1>2. QED
  BY <1>1, InitNInv, StepNInv, PTL DEF WriteSpec

=============================================================================
