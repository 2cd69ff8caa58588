------------------------------ MODULE WritePdu ------------------------------
(***************************************************************************)
(* SessionManager::write_pdu with its two parts: the generator of sequence *)
(* numbers, which do_bind_request() and do_enquire_link() ask as well, and *)
(* the rate limiter of Throttle.  The generator wraps from Max to Min.     *)
(***************************************************************************)
EXTENDS Throttle

CONSTANTS
    SeqMin, SeqMax,  \* smpp_pdu::SequenceNumber::Min and Max
    MaxGiven         \* bound: numbers taken from the generator

ASSUME WritePduAssumption ==
    /\ SeqMin \in Nat /\ SeqMax \in Nat /\ SeqMin < SeqMax
    /\ MaxGiven \in Nat

VARIABLES
    mVal,   \* the generator's member of the same name
    given   \* history: what next() has returned

numberVars == <<mVal, given>>
writeVars == <<vars, numberVars>>

Numbers == SeqMin .. SeqMax
Cycle == SeqMax - SeqMin + 1

-----------------------------------------------------------------------------

WriteInit ==
    /\ Init
    /\ mVal = SeqMin
    /\ given = <<>>

\* Mutant: the wrap returns what it has just set mVal to.
NextNumber_ReturnsReset ==
    /\ Len(given) < MaxGiven
    /\ given' = Append(given, IF mVal < SeqMax THEN mVal ELSE SeqMin)
    /\ mVal' = IF mVal < SeqMax THEN mVal + 1 ELSE SeqMin

\* SequinceNumberGenerator::next(): returns mVal, which Max is the last value of.
NextNumber ==
    /\ Len(given) < MaxGiven
    /\ given' = Append(given, mVal)
    /\ mVal' = IF mVal < SeqMax THEN mVal + 1 ELSE SeqMin

\* do_bind_request() and do_enquire_link(): the PDU waits in txQ with its number.
TakeNumber == NextNumber /\ UNCHANGED vars

\* write_pdu() with a PDU that has no number yet, or Min.
WriteUnnumbered == NextNumber /\ ThrottleCheck

\* write_pdu() with a response, or a request that is numbered already.
WriteNumbered == ThrottleCheck /\ UNCHANGED numberVars

Pass == Tick /\ UNCHANGED numberVars

WriteNext == Pass \/ TakeNumber \/ WriteUnnumbered \/ WriteNumbered

WriteSpec == WriteInit /\ [][WriteNext]_writeVars

-----------------------------------------------------------------------------

WriteTypeOK ==
    /\ TypeOK
    /\ mVal \in Numbers
    /\ given \in Seq(Numbers)

\* next(): a number returns only after all the others have been given, across the
\* wrap and whoever asks for them.
RecentNumbersDiffer ==
    \A i, j \in DOMAIN given : i < j /\ j - i < Cycle => given[i] # given[j]

=============================================================================
