---------------------------- MODULE SmtpCommands ----------------------------
(***************************************************************************)
(* The command handlers of src/src/lib/process.c and the part of           *)
(* request_process (src/src/lib/smtp.c) that chooses among them.           *)
(*                                                                         *)
(* A handler reads the session's protocol data and the parsed request and  *)
(* returns the new data with the class of the reply it formats.  A request *)
(* is a record [verb, arg]: an address <u@local> is the user u, every      *)
(* other well-formed address is "remote", every malformed one is "bad".    *)
(***************************************************************************)
EXTENDS Naturals, Sequences

CONSTANTS User,         \* names of local users, as strings
          NoUser        \* the emptied string: no sender, no selected user

\* The arguments that are not user names.
NoArg    == ""
Password == "password"
OtherArg == {NoArg, Password, "host", "remote", "bad", "ALL", "today", "ON", "OFF"}
Arg      == User \cup OtherArg

ASSUME UserAssumption == /\ User \cap OtherArg = {}
                         /\ NoUser \notin Arg

Unknown       == "?"
ValidCommands == {"HELO", "MAIL", "RCPT", "DATA", "XFROM", "XAUTH", "XGET", "XQUIT", "XTRAN"}
Verb          == ValidCommands \cup {"RSET", "NOOP", "QUIT", ".", Unknown}
Request       == [verb : Verb \cup {""}, arg : Arg]

\* smtp_state: the values a session can take (DONE, XAUTH, XTRAN, XQUIT and
\* ERROR of the enum are never assigned).
SmtpState  == {"EHLO", "FROM", "TO", "DATA", "BODY", "XFROM", "XGET"}
AdminState == {"XFROM", "XGET"}

Reply == {"220", "250", "250 helo", "250 queued", "354", "501", "502", "503",
          "550", "553", "admin", "bad password", "bad user", "listing",
          "empty", "uninitialised"}

\* The fields of struct smtp_data that the handlers read and write.
SmtpData == [state     : SmtpState,
             mail_from : User \cup {NoUser},
             rcpt_to   : Seq(User),
             user      : User \cup {NoUser}]

InitData == [state |-> "EHLO", mail_from |-> NoUser, rcpt_to |-> <<>>, user |-> NoUser]

Answer(d, next, msg) == [data |-> [d EXCEPT !.state = next], msg |-> msg]

\* is_valid's two complaints: a known command out of sequence, or no command.
Refusal(r) == IF r.verb \in ValidCommands THEN "503" ELSE "502"

-----------------------------------------------------------------------------
handle_helo(d, r) ==
  IF r.verb = "HELO" /\ r.arg # NoArg
  THEN Answer(d, "FROM", "250 helo")
  ELSE Answer(d, "EHLO", "502")

\* Mutant: any argument is taken for the password.
handle_xauth_any(d, r) ==
  CASE r.verb # "XAUTH"  -> Answer(d, "FROM", Refusal(r))
    [] r.verb = "XAUTH" /\ r.arg = NoArg -> Answer(d, "FROM", "501")
    [] OTHER -> Answer(d, "XFROM", "admin")

handle_xauth(d, r) ==
  CASE r.verb # "XAUTH"  -> Answer(d, "FROM", Refusal(r))
    [] r.verb = "XAUTH" /\ r.arg = NoArg    -> Answer(d, "FROM", "501")
    [] r.verb = "XAUTH" /\ r.arg = Password -> Answer(d, "XFROM", "admin")
    [] OTHER -> Answer(d, "FROM", "bad password")

handle_from(d, r) ==
  CASE r.verb = "XAUTH" -> handle_xauth(d, r)
    [] r.verb \notin {"XAUTH", "MAIL"} -> Answer(d, "FROM", Refusal(r))
    [] r.verb = "MAIL" /\ r.arg \in User ->
         Answer([d EXCEPT !.mail_from = r.arg], "TO", "250")
    [] r.verb = "MAIL" /\ r.arg = "remote" -> Answer(d, "FROM", "550")
    [] OTHER -> Answer(d, "FROM", "501")

\* Mutant: a refused recipient still advances the dialogue.
handle_to_advances(d, r) ==
  CASE r.verb # "RCPT" -> Answer(d, "TO", Refusal(r))
    [] r.verb = "RCPT" /\ r.arg \in User ->
         Answer([d EXCEPT !.rcpt_to = Append(@, r.arg)], "DATA", "250")
    [] r.verb = "RCPT" /\ r.arg = "remote" -> Answer(d, "DATA", "553")
    [] OTHER -> Answer(d, "TO", "501")

handle_to(d, r) ==
  CASE r.verb # "RCPT" -> Answer(d, "TO", Refusal(r))
    [] r.verb = "RCPT" /\ r.arg \in User ->
         Answer([d EXCEPT !.rcpt_to = Append(@, r.arg)], "DATA", "250")
    [] r.verb = "RCPT" /\ r.arg = "remote" -> Answer(d, "TO", "553")
    [] OTHER -> Answer(d, "TO", "501")

\* A refused RCPT falls through to the "not recognised" reply and stays in DATA.
handle_data(d, r) ==
  CASE r.verb = "RCPT" /\ handle_to(d, r).data.state = "DATA" -> handle_to(d, r)
    [] r.verb = "DATA" -> Answer(d, "BODY", "354")
    [] OTHER -> Answer(d, "DATA", "502")

handle_body(d, r) == Answer(d, "EHLO", "250 queued")

\* An argument other than ON and OFF leaves the reply uninitialised.
handle_xtran(d, r) ==
  Answer(d, "XFROM", CASE r.verb # "XTRAN" -> Refusal(r)
                       [] r.verb = "XTRAN" /\ r.arg \in {"ON", "OFF"} -> "250"
                       [] OTHER -> "uninitialised")

-----------------------------------------------------------------------------
(* The handlers that read the access registry: a sequence of mails         *)
(* [from, to, path, today] in registration order.                          *)

Registered(registry) == {registry[i] : i \in DOMAIN registry}

\* access_registry.c: every sender and recipient of a mail becomes a user.
is_user(registry, u) == \E m \in Registered(registry) : u \in {m.from, m.to}

handle_xfrom(d, r, registry) ==
  CASE r.verb = "XTRAN" -> handle_xtran(d, r)
    [] r.verb \notin {"XTRAN", "XFROM"} -> Answer(d, "XFROM", Refusal(r))
    [] r.verb = "XFROM" /\ r.arg \in User /\ is_user(registry, r.arg) ->
         Answer([d EXCEPT !.user = r.arg], "XGET", "250")
    [] OTHER -> Answer(d, "XFROM", "bad user")

\* print_mails lists by sender, print_mails_by_day by sender or recipient.  With
\* nothing to list the first replies nothing, the second its uninitialised buffer.
Listed(d, r, registry) ==
  {m \in Registered(registry) :
     \/ r.arg = "ALL" /\ m.from = d.user
     \/ r.arg = "today" /\ m.today /\ d.user \in {m.from, m.to}}

handle_xget(d, r, registry) ==
  CASE r.verb = "XFROM" -> handle_xfrom(d, r, registry)
    [] r.verb \notin {"XFROM", "XGET"} -> Answer(d, "XGET", Refusal(r))
    [] r.verb = "XGET" /\ r.arg \in {"ALL", "today"} ->
         Answer([d EXCEPT !.user = NoUser], "XGET",
                CASE Listed(d, r, registry) # {} -> "listing"
                  [] Listed(d, r, registry) = {} /\ r.arg = "ALL" -> "empty"
                  [] OTHER -> "uninitialised")
    [] OTHER -> Answer(d, "XGET", "501")

-----------------------------------------------------------------------------
\* handlers_table, indexed by the state the session was in.
handlers_table(d, r, registry) ==
  CASE d.state = "EHLO"  -> handle_helo(d, r)
    [] d.state = "FROM"  -> handle_from(d, r)
    [] d.state = "TO"    -> handle_to(d, r)
    [] d.state = "DATA"  -> handle_data(d, r)
    [] d.state = "BODY"  -> handle_body(d, r)
    [] d.state = "XFROM" -> handle_xfrom(d, r, registry)
    [] d.state = "XGET"  -> handle_xget(d, r, registry)

\* QUIT ends the session whatever its argument: the reply is never sent.
handle_quit(r) == r.verb = "QUIT"

handle_reset(d, r) ==
  IF r.arg = NoArg THEN Answer(d, "FROM", "250") ELSE Answer(d, d.state, "501")

handle_xquit(d) == Answer(d, "FROM", "250")

\* request_process: the commands accepted in every state, then the state's own.
Process(d, r, registry) ==
  CASE r.verb = "NOOP" -> Answer(d, d.state, "250")
    [] r.verb = "RSET" -> handle_reset(d, r)
    [] r.verb = "XQUIT" /\ d.state \in AdminState -> handle_xquit(d)
    [] OTHER -> handlers_table(d, r, registry)

\* Mutant: XTRAN is obeyed in every state.
set_status_anywhere(d, r, transform) ==
  IF r.verb = "XTRAN" /\ r.arg \in {"ON", "OFF"} THEN r.arg = "ON" ELSE transform

\* set_status, called by handle_xtran: the new value of config.transform.
set_status(d, r, transform) ==
  IF d.state = "XFROM" /\ r.verb = "XTRAN" /\ r.arg \in {"ON", "OFF"}
  THEN r.arg = "ON"
  ELSE transform
=============================================================================
