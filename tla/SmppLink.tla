------------------------------ MODULE SmppLink ------------------------------
(***************************************************************************)
(* What the rest of ksmppcd may rely on of an SMPP session: the states that *)
(* SessionManager::currentState goes through, against the connection and    *)
(* the MC's acceptance of a bind.  SessionManager implements it and Ksmppc  *)
(* is built on it.  Neither its handlers nor their queue appear here.       *)
(***************************************************************************)

VARIABLES
    state,    \* currentState, with one BOUND for the three kinds
    conn,     \* the socket: closed, connecting or up
    accepted  \* an accepting bind_resp is on its way to the session

linkVars == <<state, conn, accepted>>

LinkTypeOK ==
    /\ state \in {"CLOSED", "OPEN", "BOUND", "UNBOUND"}
    /\ conn \in {"closed", "connecting", "up"}
    /\ accepted \in BOOLEAN

Init == state = "CLOSED" /\ conn = "connecting" /\ accepted = FALSE

\* Any step may lose an acceptance that was on its way; only Accept makes one.
MayLose == accepted' \in {accepted, FALSE}

\* The MC accepts a bind, over a connection that is up.
Accept == conn = "up" /\ accepted' = TRUE /\ UNCHANGED <<state, conn>>

\* async_connect succeeds; its handler has not run yet.
ComesUp == conn = "connecting" /\ conn' = "up" /\ MayLose /\ UNCHANGED state

\* handle_connect without an error: whatever the state was, it is OPEN.
Open == conn # "closed" /\ state' = "OPEN" /\ MayLose /\ UNCHANGED conn

\* handle_connect with an error, and another attempt.
Retry == conn' = "connecting" /\ MayLose /\ UNCHANGED state

\* Mutant: any answer to the bind will do.
Bind_IgnoresStatus ==
    /\ state = "OPEN"
    /\ state' = "BOUND"
    /\ MayLose /\ UNCHANGED conn

\* procpdu_bind_resp: an acceptance makes an open session a bound one.
Bind ==
    /\ state = "OPEN" /\ accepted
    /\ state' = "BOUND"
    /\ MayLose /\ UNCHANGED conn

\* procpdu_unbind and procpdu_unbind_resp.
Unbind ==
    /\ state = "BOUND"
    /\ state' \in {"UNBOUND", "OPEN"}
    /\ MayLose /\ UNCHANGED conn

\* A read or a write fails.
Fail == state' = "CLOSED" /\ MayLose /\ UNCHANGED conn

\* close_connection(), with or without another attempt.
Close == state' = "CLOSED" /\ conn' \in {"closed", "connecting"} /\ MayLose

Lose == MayLose /\ UNCHANGED <<state, conn>>

Next == Accept \/ ComesUp \/ Open \/ Retry \/ Bind \/ Unbind \/ Fail \/ Close \/ Lose

Spec == Init /\ [][Next]_linkVars

=============================================================================
