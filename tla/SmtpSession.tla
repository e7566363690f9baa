----------------------------- MODULE SmtpSession ----------------------------
(***************************************************************************)
(* The SMTP sessions of the server: src/src/lib/smtp.c with the state      *)
(* machine of stm.c, the selector's interests, the mail files of maildir.c *)
(* and the counters of monitor.c.                                          *)
(*                                                                         *)
(* One thread serves every connection: selector_select dispatches a        *)
(* handler when a descriptor is ready and its interest asks for it, and a  *)
(* handler runs to its end.  Each dispatch is an action; the interleaving  *)
(* of connections, the segmentation of what clients send, the moments they *)
(* close, and the failures named in Faults are the nondeterminism.         *)
(*                                                                         *)
(* sess[c] is what the server holds for connection c: the selector's item  *)
(* of its socket and of its output file, its struct smtp_data, and the     *)
(* mail files it wrote.  Every operator whose first argument is s maps     *)
(* such a record to the next one.                                          *)
(***************************************************************************)
EXTENDS SmtpParsers, SequencesExt, Integers, FiniteSets

CONSTANTS Conn,          \* the client connections
          Scripts,       \* the sequences of lines a client may want to send
          WholeSend,     \* TRUE: a client sends all it has to say at once, else by lines
          WholeRecv,     \* TRUE: one recv gets all that is there, else any prefix
          Faults,        \* the system calls that may fail
          MockMails,     \* the mails registered at startup
          SentModulus    \* the number of values of the monitor's byte counter

FaultKinds == {"calloc", "register", "send", "recv", "open", "write", "copy"}

ASSUME ScriptAssumption  == Scripts \subseteq Seq(Line)
ASSUME FaultAssumption   == {WholeSend, WholeRecv} \subseteq BOOLEAN /\ Faults \subseteq FaultKinds
ASSUME MockAssumption    == MockMails \in Seq([from : User, to : User, path : {"mock"}, today : BOOLEAN])
ASSUME ModulusAssumption == SentModulus \in Nat \ {0, 1}

VARIABLES server,        \* "up", "aborted" (abort()), or killed by "sigpipe" or "sigsegv"
          listening,     \* the listening sockets registered in the selector
          transform,     \* config.transform
          registry,      \* the access registry, in registration order
          monitor,       \* the monitor's counters
          client,        \* per connection: what the client sent and has yet to send
          sess           \* per connection: what the server holds

vars == <<server, listening, transform, registry, monitor, client, sess>>

-----------------------------------------------------------------------------
(* A mail file is a sequence of cells: the header the server writes, then  *)
(* the tokens of the body.                                                 *)
Cell == [from : User \cup {NoUser}, rcpts : Seq(User)] \cup Token
File == Seq(Cell)

\* Writing from offset 0 into a file opened without O_TRUNC keeps the old tail.
Overwrite(old, new) == new \o SubSeq(old, Len(new) + 1, Len(old))

StmState == {"NULL", "READ", "WRITE", "DATA", "ADMIN", "DATA_WRITE", "ERROR"}

Session ==
  [phase     : {"none", "open", "closed", "lost"},
   interest  : {"NOOP", "READ", "WRITE"},          \* of the socket's item
   stm       : StmState,                           \* stm.current
   rbuf      : Seq(Token),                         \* read_buffer
   wbuf      : Seq(Reply),                         \* write_buffer
   par       : Parser,                             \* request_parser and request
   data      : SmtpData,
   output    : {"none", "NOOP", "WRITE"},          \* the item of output_fd
   pipe      : BOOLEAN,                            \* output_fd is a pipe
   stale     : Nat,                                \* earlier output_fds never unregistered
   temp_path : User \cup {NoUser},                 \* whose tmp/ temp_full_path names
   tmp       : [User -> File],                     \* ./Maildir/<u>/tmp/<name>
   new       : [User -> File]]                     \* ./Maildir/<u>/new/<name>

NoSession ==
  [phase |-> "none", interest |-> "NOOP", stm |-> "NULL", rbuf |-> <<>>, wbuf |-> <<>>,
   par |-> request_parser_init, data |-> InitData, output |-> "none", pipe |-> FALSE,
   stale |-> 0, temp_path |-> NoUser, tmp |-> [u \in User |-> <<>>], new |-> [u \in User |-> <<>>]]

Listener == {"server4", "server6"}

Client == [todo : Seq(Line), net : Seq(Token), eof : BOOLEAN]

Mail == [from : User \cup {NoUser}, to : User, path : Conn \cup {"mock"}, today : BOOLEAN]

Monitor == [curr : Int, total : Nat, sent_bytes : 0..SentModulus - 1]

Open(c) == sess[c].phase = "open"

-----------------------------------------------------------------------------
(* Building blocks of the handlers.                                        *)

\* smtp_done: unregister the socket and free the session.  Neither the socket
\* nor the output file is closed; the item of the output file stays.
smtp_done(s) == [s EXCEPT !.phase = "closed", !.interest = "NOOP"]

\* request_process: the reply goes into write_buffer, QUIT ends the session.
request_process(s) ==
  LET a == Process(s.data, s.par.req, registry)
  IN  IF handle_quit(s.par.req)
      THEN smtp_done(s)
      ELSE [s EXCEPT !.data = a.data, !.wbuf = Append(@, a.msg), !.stm = "WRITE"]

Header(d) == [from |-> d.mail_from, rcpts |-> d.rcpt_to]

\* request_data_init, on every arrival to DATA: a fresh parser, the temporary
\* file of the first recipient reopened at offset 0 (or, with the transformation
\* on, a pipe to a process) and registered without interest.  The output_fd
\* of an earlier arrival is forgotten.
request_data_init(s, opened) ==
  LET u == s.data.rcpt_to[1]
  IN  [s EXCEPT
         !.stm       = "DATA",
         !.par       = request_parser_data_init,
         !.temp_path = IF @ = NoUser THEN u ELSE @,
         !.tmp[u]    = IF opened /\ ~transform THEN Overwrite(@, <<Header(s.data)>>) ELSE @,
         !.stale     = IF s.output = "none" THEN @ ELSE @ + 1,
         !.output    = IF opened \/ transform THEN "NOOP" ELSE "none",
         !.pipe      = transform]

\* Mutant: OP_WRITE is not set when a request is complete.
ReadCommand_quiet(s) ==
  LET r == request_consume(s.par, s.rbuf, Argless(s.stm))
      t == [s EXCEPT !.par = r.p, !.rbuf = r.rest]
  IN  IF request_is_done(r.p) THEN request_process(t) ELSE t

\* request_actual_read with a non-empty read_buffer, in READ and ADMIN: hand a
\* complete (or erroneous) request over, else wait for more.
ReadCommand(s) ==
  LET r == request_consume(s.par, s.rbuf, Argless(s.stm))
      t == [s EXCEPT !.par = r.p, !.rbuf = r.rest]
  IN  IF request_is_done(r.p) THEN request_process([t EXCEPT !.interest = "WRITE"]) ELSE t

\* Mutant: the socket keeps OP_READ while the body is written.
ReadBody_armed(s) ==
  LET r == request_consume_data(s.par, s.rbuf)
      t == [s EXCEPT !.par = r.p, !.rbuf = r.rest]
  IN  IF s.output = "none"
      THEN smtp_done(t)
      ELSE [t EXCEPT !.output = "WRITE", !.stm = "DATA_WRITE"]

\* The same in DATA: whatever was read goes to the output file, if it is there.
ReadBody(s) ==
  LET r == request_consume_data(s.par, s.rbuf)
      t == [s EXCEPT !.par = r.p, !.rbuf = r.rest]
  IN  IF s.output = "none"
      THEN smtp_done(t)
      ELSE [t EXCEPT !.interest = "NOOP", !.output = "WRITE", !.stm = "DATA_WRITE"]

request_actual_read(s) == IF s.stm = "DATA" THEN ReadBody(s) ELSE ReadCommand(s)

\* Mutant: the sent reply is not consumed.
Sent_keeps(s, opened) ==
  LET t == [s EXCEPT !.interest = "READ"]
  IN  CASE s.data.state = "BODY" -> request_data_init(t, opened)
        [] s.data.state \in AdminState ->
             [t EXCEPT !.stm = "ADMIN", !.par = request_parser_init]
        [] OTHER -> [t EXCEPT !.stm = "READ", !.par = request_parser_init]

\* Mutant: after 354 the server goes on reading commands.
Sent_forgets_body(s, opened) ==
  LET t == [s EXCEPT !.wbuf = <<>>, !.interest = "READ"]
  IN  IF s.data.state \in AdminState
      THEN [t EXCEPT !.stm = "ADMIN", !.par = request_parser_init]
      ELSE [t EXCEPT !.stm = "READ", !.par = request_parser_init]

\* request_write_handler after a complete send: the reply is gone, and the
\* state of the dialogue decides what is read next.
Sent(s, opened) ==
  LET t == [s EXCEPT !.wbuf = <<>>, !.interest = "READ"]
  IN  CASE s.data.state = "BODY" -> request_data_init(t, opened)
        [] s.data.state \in AdminState ->
             [t EXCEPT !.stm = "ADMIN", !.par = request_parser_init]
        [] OTHER -> [t EXCEPT !.stm = "READ", !.par = request_parser_init]

\* Mutant: what is buffered waits for the socket to be readable again.
SentAndRead_waits(s, opened) == Sent(s, opened)

\* write_handler: what is already buffered is read at once, except in ADMIN.
SentAndRead(s, opened) ==
  LET t == Sent(s, opened)
  IN  IF t.stm \in {"READ", "DATA"} /\ t.rbuf # <<>> THEN request_actual_read(t) ELSE t

\* copy_temp_to_new_single for every recipient; failures are only logged.
Delivered(s, failed) ==
  [u \in User |-> IF u \in Range(s.data.rcpt_to) \ failed
                  THEN Overwrite(s.new[u], s.tmp[s.temp_path])
                  ELSE s.new[u]]

\* clean_request keeps the file's name and temp_full_path.
clean_request(s) == [s EXCEPT !.par.req = EmptyRequest, !.data.mail_from = NoUser,
                              !.data.rcpt_to = <<>>]

\* write_file_handler, the write itself: a pipe swallows it, because its reader
\* (the transformation program) is never there to read.
Written(s) ==
  LET u == s.data.rcpt_to[1]
  IN  IF s.pipe THEN s
      ELSE [s EXCEPT !.tmp[u] = Overwrite(@, <<Header(s.data)>> \o s.par.data)]

\* write_file_handler at the end of the body: deliver, answer.
Finished(s, failed) ==
  request_process(clean_request(
    [s EXCEPT !.new = Delivered(s, failed), !.interest = "WRITE", !.output = "none"]))

\* Mutant: only the first recipient's mail is registered.
Entries_first(c, d) ==
  <<[from |-> d.mail_from, to |-> d.rcpt_to[1], path |-> c, today |-> TRUE]>>

\* The registry entries register_mail adds for a finished mail.
Entries(c, d) ==
  [i \in DOMAIN d.rcpt_to |->
     [from |-> d.mail_from, to |-> d.rcpt_to[i], path |-> c, today |-> TRUE]]

-----------------------------------------------------------------------------
(* The counters of monitor.c.                                              *)
monitor_add_connection   == [monitor EXCEPT !.curr = @ + 1, !.total = @ + 1]
monitor_close_connection(m) == [m EXCEPT !.curr = @ - 1]

\* A reply counts as one byte, the empty one as none.
Bytes(replies) == IF replies = <<"empty">> THEN 0 ELSE Len(replies)

\* A failed send adds (unsigned long) -1.
monitor_add_sent_bytes(n) == [monitor EXCEPT !.sent_bytes = (@ + n) % SentModulus]

\* close_handler runs inside smtp_done.
CloseCounted(m, s) == IF s.phase = "closed" THEN monitor_close_connection(m) ELSE m

-----------------------------------------------------------------------------
Init ==
  /\ server = "up"
  /\ listening = Listener
  /\ transform = FALSE
  /\ registry = MockMails
  /\ monitor = [curr |-> 0, total |-> 0, sent_bytes |-> 0]
  /\ client \in [Conn -> {[todo |-> w, net |-> <<>>, eof |-> FALSE] : w \in Scripts}]
  /\ sess = [c \in Conn |-> NoSession]

ServerUnchanged == UNCHANGED <<server, listening, transform, registry, monitor, sess>>

-----------------------------------------------------------------------------
(* The clients.                                                            *)

\* Lines as they travel: head, LF, head, LF ...
Wire(lines) == [i \in 1..2 * Len(lines) |-> IF i % 2 = 1 THEN lines[(i + 1) \div 2] ELSE LF]

ClientSend(c) ==
  LET n == IF WholeSend THEN Len(client[c].todo) ELSE 1
  IN  /\ ~client[c].eof
      /\ client[c].todo # <<>>
      /\ client' = [client EXCEPT ![c].net  = @ \o Wire(SubSeq(client[c].todo, 1, n)),
                                  ![c].todo = After(@, n)]
      /\ ServerUnchanged

ClientClose(c) ==
  /\ ~client[c].eof
  /\ client' = [client EXCEPT ![c].eof = TRUE, ![c].todo = <<>>]
  /\ ServerUnchanged

-----------------------------------------------------------------------------
(* smtp_passive_accept, dispatched for the listening socket.               *)

Pending(c) == server = "up" /\ listening # {} /\ sess[c].phase = "none"

\* The socket is registered with the welcome message to write.
Accept(c) ==
  /\ Pending(c)
  /\ sess' = [sess EXCEPT ![c].phase = "open", ![c].interest = "WRITE", ![c].wbuf = <<"220">>]
  /\ monitor' = monitor_add_connection
  /\ UNCHANGED <<server, listening, transform, registry, client>>

\* Mutant: the connection is counted before there is memory for it.
AcceptNoMemory_counted(c) ==
  /\ Pending(c) /\ "calloc" \in Faults
  /\ sess' = [sess EXCEPT ![c].phase = "lost"]
  /\ monitor' = monitor_add_connection
  /\ UNCHANGED <<server, listening, transform, registry, client>>

\* calloc fails: the accepted socket is never looked at again.
AcceptNoMemory(c) ==
  /\ Pending(c) /\ "calloc" \in Faults
  /\ sess' = [sess EXCEPT ![c].phase = "lost"]
  /\ UNCHANGED <<server, listening, transform, registry, monitor, client>>

\* selector_register fails: smtp_done is called on the key of the listening
\* socket the client came through, which is unregistered.
AcceptNoRegister(c) ==
  /\ Pending(c) /\ "register" \in Faults
  /\ sess' = [sess EXCEPT ![c].phase = "lost"]
  /\ \E l \in listening : listening' = listening \ {l}
  /\ UNCHANGED <<server, transform, registry, monitor, client>>

-----------------------------------------------------------------------------
(* The handlers of a connection.                                           *)

Dispatched(c, op) == server = "up" /\ Open(c) /\ sess[c].interest = op

\* write_handler, the reply sent whole.
Write(c) ==
  /\ Dispatched(c, "WRITE")
  /\ sess[c].stm \in {"NULL", "WRITE"}
  /\ \E opened \in {TRUE} \cup {"open" \notin Faults} :
       LET s == SentAndRead(sess[c], opened)
       IN  /\ sess' = [sess EXCEPT ![c] = s]
           /\ monitor' = CloseCounted(monitor_add_sent_bytes(Bytes(sess[c].wbuf)), s)
  /\ UNCHANGED <<server, listening, transform, registry, client>>

\* write_handler, send() fails: the counter gets -1 and the session ends.
WriteFails(c) ==
  /\ Dispatched(c, "WRITE") /\ "send" \in Faults
  /\ sess[c].stm \in {"NULL", "WRITE"}
  /\ sess' = [sess EXCEPT ![c] = smtp_done(@)]
  /\ monitor' = monitor_close_connection(monitor_add_sent_bytes(SentModulus - 1))
  /\ UNCHANGED <<server, listening, transform, registry, client>>

\* The process is killed when it writes the header to the pipe of a
\* transformation that is already gone.
WriteToDeadPipe(c) ==
  /\ Dispatched(c, "WRITE")
  /\ sess[c].stm = "WRITE" /\ sess[c].data.state = "BODY" /\ transform
  /\ server' = "sigpipe"
  /\ UNCHANGED <<listening, transform, registry, monitor, client, sess>>

\* Mutant: the end of the stream does not make the socket readable.
Readable_data(c) == client[c].net # <<>>

Readable(c) == client[c].net # <<>> \/ client[c].eof

\* How much one recv may return; nothing is received while something is buffered.
Received(c) ==
  CASE sess[c].rbuf # <<>>          -> {0}
    [] sess[c].rbuf = <<>> /\ WholeRecv -> {Len(client[c].net)}
    [] OTHER                        -> 1..Len(client[c].net)

\* read_handler with something to parse.
Read(c) ==
  /\ Dispatched(c, "READ") /\ Readable(c)
  /\ sess[c].stm \in {"READ", "DATA", "ADMIN"}
  /\ sess[c].rbuf # <<>> \/ client[c].net # <<>>
  /\ \E n \in Received(c) :
       LET s == request_actual_read([sess[c] EXCEPT !.rbuf = @ \o SubSeq(client[c].net, 1, n)])
       IN  /\ sess' = [sess EXCEPT ![c] = s]
           /\ client' = [client EXCEPT ![c].net = After(@, n)]
           /\ transform' = IF s.stm = "WRITE" THEN set_status(sess[c].data, s.par.req, transform)
                           ELSE transform
           /\ monitor' = CloseCounted(monitor, s)
  /\ UNCHANGED <<server, listening, registry>>

\* The process is killed when body() writes outside the data it has read, if that
\* write is to no mapped page; if it is to one, Read goes on as if it had not happened.
ReadOutside(c) ==
  /\ Dispatched(c, "READ") /\ sess[c].stm = "DATA"
  /\ \E n \in Received(c) : CutsBefore(sess[c].rbuf \o SubSeq(client[c].net, 1, n))
  /\ server' = "sigsegv"
  /\ UNCHANGED <<listening, transform, registry, monitor, client, sess>>

\* read_handler when recv returns 0 at the end of the stream, or fails.
ReadEnd(c) ==
  /\ Dispatched(c, "READ") /\ Readable(c)
  /\ sess[c].stm \in {"READ", "DATA", "ADMIN"}
  /\ sess[c].rbuf = <<>>
  /\ client[c].net = <<>> \/ "recv" \in Faults
  /\ sess' = [sess EXCEPT ![c] = smtp_done(@)]
  /\ monitor' = monitor_close_connection(monitor)
  /\ UNCHANGED <<server, listening, transform, registry, client>>

-----------------------------------------------------------------------------
(* write_file, dispatched for the output file.                             *)

OutputReady(c) == server = "up" /\ sess[c].output = "WRITE"

\* The end of the body: deliver to every recipient, register, answer.
StoreLast(c) ==
  /\ OutputReady(c) /\ sess[c].stm = "DATA_WRITE" /\ sess[c].par.st = "done"
  /\ \E failed \in IF "copy" \in Faults THEN SUBSET User ELSE {{}} :
       sess' = [sess EXCEPT ![c] = Finished(Written(@), failed)]
  /\ registry' = registry \o Entries(c, sess[c].data)
  /\ UNCHANGED <<server, listening, transform, monitor, client>>

\* Mutant: the output file keeps OP_WRITE between chunks.
StoreChunk_armed(c) ==
  /\ OutputReady(c) /\ sess[c].stm = "DATA_WRITE" /\ sess[c].par.st # "done"
  /\ sess' = [sess EXCEPT ![c] =
        [request_data_init([Written(@) EXCEPT !.interest = "READ"], TRUE) EXCEPT !.output = "WRITE"]]
  /\ UNCHANGED <<server, listening, transform, registry, monitor, client>>

\* More body to come: back to DATA, whose arrival opens the file again.
StoreChunk(c) ==
  /\ OutputReady(c) /\ sess[c].stm = "DATA_WRITE" /\ sess[c].par.st # "done"
  /\ \E opened \in {TRUE} \cup {"open" \notin Faults} :
       sess' = [sess EXCEPT ![c] =
                  request_data_init([Written(@) EXCEPT !.interest = "READ", !.output = "NOOP"],
                                    opened)]
  /\ UNCHANGED <<server, listening, transform, registry, monitor, client>>

\* write() fails.  write_file ignores the result: the item keeps OP_WRITE.
StoreFails(c) ==
  /\ OutputReady(c) /\ sess[c].stm = "DATA_WRITE" /\ "write" \in Faults
  /\ sess' = [sess EXCEPT ![c].stm = "ERROR"]
  /\ UNCHANGED <<server, listening, transform, registry, monitor, client>>

\* The reader of the pipe is gone, in the write or in the header of a next chunk.
StoreToDeadPipe(c) ==
  /\ OutputReady(c) /\ sess[c].stm = "DATA_WRITE"
  /\ sess[c].pipe \/ (transform /\ sess[c].par.st # "done")
  /\ server' = "sigpipe"
  /\ sess' = [sess EXCEPT ![c] = Written(@)]
  /\ UNCHANGED <<listening, transform, registry, monitor, client>>

-----------------------------------------------------------------------------
\* stm_handler_read and stm_handler_write abort() when the state they are called
\* in has no handler for the event.
Abort(c) ==
  /\ \/ /\ Dispatched(c, "READ") /\ Readable(c)
        /\ sess[c].stm \notin {"READ", "DATA", "ADMIN"}
     \/ /\ Dispatched(c, "WRITE")
        /\ sess[c].stm \notin {"NULL", "WRITE", "DATA_WRITE"}
     \/ /\ OutputReady(c) /\ Open(c)
        /\ sess[c].stm \notin {"NULL", "WRITE", "DATA_WRITE"}
  /\ server' = "aborted"
  /\ UNCHANGED <<listening, transform, registry, monitor, client, sess>>

-----------------------------------------------------------------------------
OnListener(c) == Accept(c) \/ AcceptNoMemory(c) \/ AcceptNoRegister(c)
OnSocket(c)   == Write(c) \/ WriteFails(c) \/ WriteToDeadPipe(c)
                   \/ Read(c) \/ ReadOutside(c) \/ ReadEnd(c)
OnOutput(c)   == StoreLast(c) \/ StoreChunk(c) \/ StoreFails(c) \/ StoreToDeadPipe(c)

Next == \E c \in Conn :
          \/ ClientSend(c) \/ ClientClose(c)
          \/ OnListener(c) \/ OnSocket(c) \/ OnOutput(c) \/ Abort(c)

Spec == Init /\ [][Next]_vars

\* The selector is level-triggered: a descriptor that stays ready and of interest
\* is dispatched, because every iteration dispatches all of them.  This is
\* weak fairness of each handler, with what enables it written out (TLC takes
\* very long to evaluate ENABLED of a whole handler).  Nothing obliges a client.
SocketReady(c) == Dispatched(c, "WRITE") \/ (Dispatched(c, "READ") /\ Readable(c))

Fairness ==
  \A c \in Conn :
    /\ WF_vars(OnListener(c))
    /\ []<>~SocketReady(c) \/ []<><<OnSocket(c) \/ Abort(c)>>_vars
    /\ []<>~OutputReady(c) \/ []<><<OnOutput(c) \/ Abort(c)>>_vars

FairSpec == Spec /\ Fairness

-----------------------------------------------------------------------------
TypeOK ==
  /\ server \in {"up", "aborted", "sigpipe", "sigsegv"}
  /\ listening \subseteq Listener
  /\ transform \in BOOLEAN
  /\ registry \in Seq(Mail)
  /\ monitor \in Monitor
  /\ client \in [Conn -> Client]
  /\ sess \in [Conn -> Session]

-----------------------------------------------------------------------------
(* Safety.                                                                 *)

\* The interest a session registered always has a handler in the state its
\* machine is in, and the session waits on exactly one descriptor: its socket,
\* or its output file while the socket is on OP_NOOP.  (selector.c dispatches by
\* interest, stm.c aborts on a state without the handler; the two are set in
\* different places of smtp.c.)
InterestMatchesState ==
  \A c \in Conn : Open(c) =>
    /\ sess[c].interest = "READ"  => sess[c].stm \in {"READ", "DATA", "ADMIN"}
    /\ sess[c].interest = "WRITE" => sess[c].stm \in {"NULL", "WRITE"}
    /\ sess[c].interest = "NOOP"  => sess[c].stm \in {"DATA_WRITE", "ERROR"}
    /\ sess[c].output = "WRITE" <=> sess[c].interest = "NOOP"

\* abort() takes the whole server down only after write() failed on an output
\* file; no order of requests, closes and other failures reaches it.
AbortNeedsWriteError == server = "aborted" => "write" \in Faults

\* The file item carries the session as its attachment.  When the session is
\* freed the item may stay registered, but it is never armed: write_file is
\* never dispatched with a freed session.
ArmedOutputHasSession == \A c \in Conn : sess[c].output = "WRITE" => Open(c)

\* write_buffer holds one reply, exactly while the socket waits to be written:
\* request_process copies a reply of up to RESPONSE_SIZE bytes without looking at
\* the room there is, which is right only because the buffer is empty then.
OneReplyPending ==
  \A c \in Conn : Open(c) =>
    Len(sess[c].wbuf) = IF sess[c].interest = "WRITE" THEN 1 ELSE 0

\* A session that waits for its client in READ has parsed all it received:
\* pipelined commands are never left behind in read_buffer.
NothingLeftBehind ==
  \A c \in Conn : Open(c) /\ sess[c].interest = "READ" /\ sess[c].stm = "READ"
                    => sess[c].rbuf = <<>>

\* Whatever RSET, NOOP, refused commands and earlier mails came before, a body is
\* accepted only for a sender and at least one recipient: request_data_init
\* takes the mailbox from rcpt_to[0].
EnvelopeComplete ==
  \A c \in Conn : Open(c) =>
    /\ sess[c].data.state \in {"TO", "DATA", "BODY"} => sess[c].data.mail_from # NoUser
    /\ sess[c].data.state \in {"DATA", "BODY"} => sess[c].data.rcpt_to # <<>>

\* While a body is read or written the dialogue is in BODY, and the temporary file
\* has a name, a mailbox of which is where copies are taken from.
BodyHasFile ==
  \A c \in Conn : Open(c) /\ sess[c].stm \in {"DATA", "DATA_WRITE"} =>
    sess[c].data.state = "BODY" /\ sess[c].temp_path \in User

\* The machine's ERROR state is entered only by a failed write() of an output file.
ErrorNeedsWriteError == \A c \in Conn : sess[c].stm = "ERROR" => "write" \in Faults

\* The record of a connection not yet accepted is a fresh one.
FreshUntilAccepted == \A c \in Conn : sess[c].phase = "none" => sess[c] = NoSession

\* The inductive invariant: each part needs others (the interests tell which
\* handlers run, the envelope that request_data_init finds a recipient).
IInv ==
  /\ TypeOK
  /\ InterestMatchesState
  /\ ArmedOutputHasSession
  /\ OneReplyPending
  /\ NothingLeftBehind
  /\ EnvelopeComplete
  /\ BodyHasFile
  /\ ErrorNeedsWriteError
  /\ FreshUntilAccepted
  /\ AbortNeedsWriteError

\* The monitor's concurrent connections are the open sessions, and its historic
\* ones all that were registered: every way out of a session counts once.
ConnectionsCounted ==
  /\ monitor.curr  = Cardinality({c \in Conn : Open(c)})
  /\ monitor.total = Cardinality({c \in Conn : sess[c].phase \in {"open", "closed"}})

-----------------------------------------------------------------------------
(* Action properties.                                                      *)

\* A session enters the administration states only by the password.
AdminByPassword ==
  [][\A c \in Conn :
       sess[c].data.state \notin AdminState /\ sess'[c].data.state \in AdminState
         => sess'[c].par.req = [verb |-> "XAUTH", arg |-> Password]]_vars

\* The transformation every session uses is switched only by a session that is
\* in the administration states, before and after.
TransformByAdmin ==
  [][transform' # transform =>
       \E c \in Conn : /\ sess[c] # sess'[c]
                       /\ {sess[c].data.state, sess'[c].data.state} = {"XFROM"}]_vars

\* A mail is registered only by the session that received it, one entry for each
\* recipient accepted, and the same step owes the client the reply that says so.
RegisteredWithReply ==
  [][registry' # registry =>
       \E c \in Conn :
         /\ sess'[c].wbuf = <<"250 queued">> /\ sess[c].wbuf = <<>>
         /\ {m.to : m \in {registry'[i] : i \in Len(registry) + 1..Len(registry')}}
              = Range(sess[c].data.rcpt_to)]_vars

-----------------------------------------------------------------------------
(* Liveness, under FairSpec.                                               *)

\* What a client sent is read to the end, unless its session ends.
InputConsumed ==
  \A c \in Conn :
    client[c].todo = <<>> ~>
      \/ server # "up" \/ listening = {} \/ sess[c].phase \in {"closed", "lost"}
      \/ client[c].net = <<>> /\ sess[c].rbuf = <<>> /\ sess[c].interest = "READ"

\* A session whose client is gone is released.
CloseReleases ==
  \A c \in Conn : client[c].eof /\ Open(c) ~> server # "up" \/ ~Open(c)
=============================================================================
