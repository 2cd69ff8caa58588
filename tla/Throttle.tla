------------------------------ MODULE Throttle ------------------------------
(***************************************************************************)
(* The rate limiter of SessionManager::write_pdu.  Every PDU passes        *)
(* through throttle_check() just before its async_write, with writeMutex   *)
(* held, so calls never overlap.  throttle_check() reads the clock once,   *)
(* sleeps until throttleNextSendTime if that is still to come, and then    *)
(* sets throttleNextSendTime from the clock value read BEFORE the sleep.   *)
(*                                                                         *)
(* Time is a natural number of clock ticks.  The clock is monotone here:   *)
(* the code reads local_time(), whose jumps are not modelled.              *)
(***************************************************************************)
EXTENDS Naturals, Sequences

CONSTANTS
    Second,           \* clock ticks in one second (1000000 in the code)
    TxThrottleLimit,  \* smpp-session.tx-throttle-limit, PDUs per second
    MaxOversleep,     \* bound: ticks usleep() may return late
    MaxTime,          \* bound: the clock stops here
    MaxSends          \* bound: number of PDUs sent in a behaviour

ASSUME ThrottleAssumption ==
    /\ Second \in Nat \ {0}
    /\ TxThrottleLimit \in 1 .. Second
    /\ MaxOversleep \in Nat
    /\ MaxTime \in Nat
    /\ MaxSends \in Nat

VARIABLES
    now,                   \* what microsec_clock::local_time() would return
    throttleNextSendTime,  \* the member of the same name
    sends                  \* history: the times at which async_write started

vars == <<now, throttleNextSendTime, sends>>

-----------------------------------------------------------------------------

\* start_session(): integer division, so the period is rounded down.
TimeBetweenSends == Second \div TxThrottleLimit

Init ==
    /\ now = 0
    /\ throttleNextSendTime = now
    /\ sends = <<>>

Tick ==
    /\ now < MaxTime
    /\ now' = now + 1
    /\ UNCHANGED <<throttleNextSendTime, sends>>

\* Mutant: usleep() returns early.
WakesUp_Early(t) ==
    IF now < throttleNextSendTime
    THEN t \in throttleNextSendTime - 1 .. throttleNextSendTime + MaxOversleep
    ELSE t = now

\* When the thread wakes up: usleep() sleeps at least as long as asked for.
WakesUp(t) ==
    IF now < throttleNextSendTime
    THEN t \in throttleNextSendTime .. throttleNextSendTime + MaxOversleep
    ELSE t = now

\* Mutant: what is left to sleep is taken for a time.
NextSendTime_Remaining == throttleNextSendTime - now

NextSendTime == now + TimeBetweenSends

\* throttle_check() and the async_write that follows it.
ThrottleCheck ==
    \E t \in 0 .. MaxTime :
        /\ Len(sends) < MaxSends
        /\ WakesUp(t)
        /\ now' = t
        /\ throttleNextSendTime' = NextSendTime
        /\ sends' = Append(sends, t)

Next == Tick \/ ThrottleCheck

Spec == Init /\ [][Next]_vars

-----------------------------------------------------------------------------

TypeOK ==
    /\ now \in 0 .. MaxTime
    /\ throttleNextSendTime \in Nat
    /\ sends \in Seq(0 .. MaxTime)

\* Any two sends with one other between them are a full period apart: the code
\* lets at most two PDUs out in any period of timeBetweenSends, however the
\* calls, the sleeps and their overruns fall.
TwoSendsPerPeriod ==
    \A i \in 1 .. Len(sends) - 2 : sends[i + 2] >= sends[i] + TimeBetweenSends

\* "timeBetweenSends; // microseconds between sends" (session_manager.hpp:220):
\* two successive sends are at least timeBetweenSends apart.
SpacedSends ==
    \A i \in 1 .. Len(sends) - 1 : sends[i + 1] >= sends[i] + TimeBetweenSends

=============================================================================
