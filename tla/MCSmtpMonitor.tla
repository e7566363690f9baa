---------------------------- MODULE MCSmtpMonitor ----------------------------
(***************************************************************************)
(* Small instances of SmtpMonitor: the sessions' scripts are those of      *)
(* MCSmtpSession.                                                          *)
(***************************************************************************)
EXTENDS MCSmtpSession, SmtpMonitor

Asking(cmd, flaws) == [cmd |-> cmd, flaws |-> flaws]

\* The connections asked for, by the client of the repository and by one that does
\* not know the token.
CountQueries == {Asking("CONC", {}), Asking("HIST", {}), Asking("BYTES", {"token", "length"})}
=============================================================================
