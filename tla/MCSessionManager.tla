-------------------------- MODULE MCSessionManager --------------------------
(* Values for the constants of SessionManager that a .cfg cannot write down. *)
EXTENDS SessionManager

NoBacklog   == <<>>

\* One persisted message that has never been sent, and so has no number.
OneBacklog  == <<SeqMin>>

=============================================================================
