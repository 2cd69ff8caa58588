----------------------------- MODULE TransmitQ -----------------------------
(***************************************************************************)
(* The transmit queue of a session (transmit_queue.hpp): three FIFO levels *)
(* on top of kisscpp's ThreadsafePersistedPriorityQueue.  A queue is a     *)
(* function from levels to sequences.  Paging to disk is left out: what is *)
(* in memory and what is on disk are one sequence here.                    *)
(*                                                                         *)
(* kisscpp is not part of the repository; what its operations do is taken  *)
(* from the calls session_manager.cpp makes: push() at the back of a       *)
(* level, pop() from the front of the most urgent level that is not empty, *)
(* push_back_last_pop() undoes a pop().                                    *)
(***************************************************************************)
EXTENDS Naturals, Sequences

SESSION  == 0
RESPONSE == 1
MESSAGE  == 2
Levels   == SESSION .. MESSAGE

NoItems == [l \in Levels |-> <<>>]

IsEmpty(q) == \A l \in Levels : q[l] = <<>>

Push(q, item, level) == [q EXCEPT ![level] = Append(@, item)]

\* The level pop() serves: the lowest-numbered one that holds something.
TopLevel(q) ==
    CHOOSE l \in Levels : q[l] # <<>> /\ \A k \in Levels : k < l => q[k] = <<>>

Front(q) == Head(q[TopLevel(q)])
Pop(q)   == [q EXCEPT ![TopLevel(q)] = Tail(@)]

PutBack(q, item, level) == [q EXCEPT ![level] = <<item>> \o @]

\* Mutant: the messages are cleared as well.
ClearSessionQueues_All(q) == NoItems

ClearSessionQueues(q) == [q EXCEPT ![SESSION] = <<>>, ![RESPONSE] = <<>>]

Items(q) == UNION {{q[l][i] : i \in DOMAIN q[l]} : l \in Levels}

=============================================================================
