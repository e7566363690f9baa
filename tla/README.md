# SMTP-Protos: a TLA+ model of the server

This directory specifies the SMTP server of this repository (`src/src`): a
single-threaded C program that serves SMTP clients, an administration dialogue
inside SMTP, and a UDP monitor, from one `pselect` loop. TLC checks the modules
on small instances; TLAPS proves the theorems of the `*Proofs` modules for every
value of the constants.

Contents: [inventory](#inventory), [modules](#modules),
[what the runs show](#runs), [bounds](#bounds), [fairness](#fairness),
[proofs](#proofs), [findings](#findings), [what is left out](#left-out),
[plan](#plan).

## Inventory

| Component | State it keeps | Operations | Interacts with |
|---|---|---|---|
| selector and main loop (`selector.c`, `main.c`) | table of items (descriptor, interest, handler, attachment), prototype sets, `max_fd` | register, unregister, set interest, select + iterate | calls every handler; handlers change it while it iterates |
| SMTP session (`smtp.c`, `stm.c`, `smtp.h`) | per connection: state machine, dialogue state, envelope, request and its parser, read and write buffer, output file | accept, read, write, write file, close | parsers, commands, maildir, registry, monitor, selector |
| request parsers (`request.c`, `request_admin.c`, `request_data.c`) | parser state, verb, argument, body | consume the read buffer to done, error or its end | read the session's buffer |
| commands (`process.c`) | none of their own | one handler per dialogue state, plus NOOP, QUIT, RSET, XQUIT | session data, registry, `config.transform` |
| mail files (`maildir.c`) | `./Maildir/<user>/{tmp,new}/<name>` | create or reopen the temporary file, copy it to a recipient | called by the session |
| access registry (`access_registry.c`) | registered mails in two orders, users | register, list by sender or day, is-user | session (register), administration (list) |
| monitor (`monitor.c`) | counters of connections and bytes | add, close, add bytes; answer a UDP query | session calls; UDP client |
| monitor client (`monitor_client/`) | none | one query, one answer, 5 s timeout | monitor, by UDP |
| buffer (`buffer.c`) | byte array, read and write positions | write/read pointer and advance, read, write, compact, reset | session's two buffers |
| logger (`logger.c`) | array of bytes on their way to the log file, the file's descriptor | start, print, flush when writable, last flush at the end | selector |
| startup and shutdown (`main.c`) | sockets, the flag the signals set | create, register, loop until a signal, release | everything |
| unused (`args.c`, `netutils.c`, `parser*.c`, `hello.c`, `socks5nio.c`, stale tests) | | | nothing calls them |

There are no threads at work (the blocking jobs of `selector.c` are never
started), so a handler is atomic. What is hard is between handlers:

* the order in which connections, output files and the listener are dispatched;
* how TCP cuts what a client sends into `recv`s, and several commands in one;
* a client closing at any byte; `send`, `recv`, `open`, `write`, `calloc`,
  `selector_register` and the copy failing in the middle of a dialogue;
* state kept in two places that must agree: the interest in the selector and the
  state in `stm.c` (a mismatch is an `abort()` of the server), the envelope and
  the dialogue state, the prototype sets and the items, a freed session and the
  item of its output file, the counters and the sessions;
* descriptors: reused at once by the kernel, closed in one place, registered in
  another, and in places never closed;
* arrays that fill: a line longer than `verb` or `arg`, a body as long as the read
  buffer, a log that the disk does not take, a listing longer than its reply;
* a signal that comes between two statements of the loop, a start that fails half-way,
  an end that releases in the wrong order.

What makes each component right, in brief: a session never waits for the wrong
event, holds one reply at a time, reads everything it was sent, stores a mail as
it was sent and acknowledges only mails it registered, and releases what it
holds; the administration needs its password; the selector's copies of the
interests agree, every registered descriptor is open, and every ready one is
served; the buffer is a FIFO queue; the counters count; the parsers take the
requests of the grammar however they arrive; the log file has what was logged, in
order; the registry's lists agree and its listings are what was asked for; the
program starts, stops and releases in an order that touches nothing freed.
`PROJECT.json` lists every hazard at its line with the properties that watch it.

## Modules

### The session

`SmtpCommands` has one operator per handler of `process.c`, from the session's
protocol data and the parsed request to the next data and the class of the reply
(`Process` is the choice among them in `request_process`). Addresses are
abstracted to the local user they name, `remote`, or `bad`.

`SmtpParsers` has the three parsers over tokens. A client's line is two tokens, its
head up to the CR and its LF, because the parsers end an erroneous line at the CR
and because the terminator of a body is recognised only by what precedes it in
the same read. A buffer may be cut between any two tokens.

`RequestParser` is the same three parsers byte by byte, with their arrays and indices:
`feed` gives the next parser for a byte (a set, as `command()` may return an
uninitialised state and the terminator at the head of a read writes outside its
array), `consume` runs it over what is buffered, and the actions `Receive`,
`ReadBuffered` and `Arrive` are when the handlers of `smtp.c` call it. Its reference is
a grammar over what the parser has seen (`Viable`, `Complete`, `Dots`). `ParserTokens`
compares it with `SmtpParsers`: whenever the bytes spell tokens, both have come to the
same (`TokensAgree`), which is what lets `SmtpSession` work with tokens.

`SmtpSession` is the state machine: `sess[c]` is everything the server holds for
a connection (the two selector items, `struct smtp_data`, the mail files),
`client[c]` what the client has to send and what is in flight, next to the
global `transform`, `registry`, `monitor` and `listening`. Its actions are the
dispatches of the program:

| Action | Code |
|---|---|
| `Accept`, `AcceptNoMemory`, `AcceptNoRegister` | `smtp_passive_accept` and its failures |
| `Write`, `WriteFails`, `WriteToDeadPipe` | `write_handler`: send, next state with its arrival, and the read of what is already buffered |
| `Read`, `ReadEnd` | `read_handler`: recv, parse, process; end of stream or error |
| `StoreLast`, `StoreChunk`, `StoreFails`, `StoreToDeadPipe` | `write_file`: last and earlier parts of a body, a failed write, SIGPIPE |
| `Abort` | `stm.c` called in a state without the handler |
| `ClientSend`, `ClientClose` | the environment |

A handler is one action from the dispatch to its return: `Write` includes
`request_data_init`, run by the state machine on arrival to DATA, and a nested
`request_actual_read`. `SmtpTurns` is the abstract specification (client and
server take turns; a body only after the go-ahead; a mail registered only with the
reply that says so), and `SmtpRefinement` maps the session's interests and states
to it (`TakesTurns`). `SmtpMails` has the mails clients send, the scripts that carry them
and what must become of each (`DeliveredAsSent`, `CopyIsOfThisMail`, `SentMailStored`);
`MCSmtpSession` has the mails and scripts of the instances.

### The monitor and its client

`SmtpMonitor` puts the UDP protocol of `monitor.c` and the query program of
`monitor_client/` next to the sessions whose counters it tells. One client process
asks (`Ask`), the server answers or stays silent (`handle_udp_packet`), the client
prints (`Tell`) or gives up after its five seconds (`GiveUp`), and the sessions take
their steps in between (`Meanwhile`). A datagram may stay on the wire for
ever (lost) or until the client has given up (late); the next process is taken to get
another port. A query is its command and the set of checks of
`parse_monitor_message` it fails, so that the order of the checks shows.
`seen` is a history variable: what was true of what is asked for, at each moment
since it was asked. `MCSmtpMonitor` has the queries of the instances.

### The selector and descriptors

`Selector` translates the table of `selector.c` into operators over
`struct fdselector`. `Descriptors` uses them for the main loop: the kernel's
lowest-free allocation, one `Visit` per item of `handle_iteration` in ascending
order (with the sets `pselect` filled before, and the interest the item has when
it is reached), and what each handler of `smtp.c` and `maildir.c` does to
descriptors and items. Of the dialogue only whose turn it is remains; what a
client's bytes make of a handler is a choice among its outcomes. The two modules see
the same handlers at two levels: `SmtpSession` has the data and no numbers,
`Descriptors` the numbers and no data.

`Lifecycle` extends `Descriptors` with the program around the loop: `OpenSockets`,
`NewSelector`, `StartLogger` and their failures, `TestDone`, `CallSelect` and `Return`
(the three moments of the loop a signal can find, `sigterm_handler`), and `Destroy` and
`Finish`, in the order of `finally`. Its specification is the one the loop is checked
under.

### The log

`Logger` has the array of `logger.c` with its start, length and capacity.
`logf(n, refused, k)` is one call of the macro: room made (`make_buffer_space`, where
`malloc` may refuse), a line of `n` bytes printed and cut to the room, and a `write`
that takes `k` bytes or fails. `fd_write_handler` and `fd_close_handler` are the
selector's calls. Bytes are numbered in the order they were kept, so that the file can
say whether it has them in order.

### The registry

`AccessRegistry` has the mails by arrival, the list by time as places in it, and the
users. `register_mail` is called for the mock mails of the start (`MockMail`, random
past times) and for each recipient of a delivered mail (`Deliver`), while the clock
goes on or is set (`Tick`). `print_mails`, `print_mails_by_day` and `xget` are the
answers an administrator would get, as the entries shown whole (`Fitting`: those that
leave room for a terminator, since `snprintf` cuts one that does not); an argument is its
ten characters, since `is_valid_time` computes with characters it never checks. The
reference for dates is a calendar that counts one day after the other.

### The buffer

`ByteBuffer` has the functions of `buffer.c`, with positions as offsets, under every
order of calls the contract of the header allows; `Fifo` is the bounded queue it
implements (`ImplementsFifo`, through the bytes between the two positions). The program
itself compacts only in `buffer_read_adv`, with nothing unread: that `memmove` keeps the
unread bytes is a fact about the library, not about the server.

## Runs

| Run | Question |
|---|---|
| `pipelined` | Two clients send a whole mail dialogue in one go (what `concurrency_test.c` does): is all of it read, stored as sent, registered with its reply, and are sessions released? |
| `dialogue` | Every dialogue of up to four lines after an accepted sender, and every administration of up to three commands, and a mail through the transformation, cut anywhere: do interests and machine agree, is one reply pending, nothing left behind, the envelope complete? Does every step refine `SmtpTurns`? |
| `faults` | Two clients, a mail line by line, every system call failing at any point: the inductive invariant, attachments of output files, the counters |
| `monitor` | An administrator, an impostor and a mail client, two at a time, while somebody asks the monitor again and again: was what it told true while it was waited for, who reaches the administration states, who switches the transformation |
| `lifecycle` | From the first socket to the exit, with 5 items and 6 descriptors until they run out, each step of the start failing and a signal at any moment: consistency of the table, no closed descriptor registered, armed files current, the listener given up only when all is used, each ready descriptor served, a signal stops the server, the log closed before its selector |
| `logger` | Every order of lines, partial writes, failed writes and refused memory up to the largest buffer: is the file what was logged, in order, until the last flush; does what waits get written; are lines cut only when there is no room? |
| `registry` | Three mails in any order of times, around the end of a leap February, and every listing after each: do the lists agree, are the listings the mails asked for, when does a listing overrun its array? |
| `parser` | Reads of every cut, for the three parsers: requests by the grammar, indices within the arrays, nothing left unread, bodies ended by their terminator, agreement with the token parsers |
| `buffer` | `buffer.c` with 4 bytes: invariant, refinement of `Fifo` |
| `split_terminator`, `two_mails`, `log_at_close` | the [findings](#findings): one property each, violated |

Every property of a passing run has a mutant in `PROJECT.json`: an operator next to
the original in its module (comment `Mutant:`), which breaks that property. The
mutant operators are used nowhere else.

Each type invariant is a part of another one (`IInv`, `TableConsistent`,
`RoomForTerminator`, `ListsAgree`, `WaitsWithNothingUnread`), which says more of the same
variables: which bounds arrays and tables keep, and between which positions.

An update outside a function's domain changes nothing in TLA+, so that the parsers' arrays
alone could not show a store outside of them. `StoresInside`, a part of
`WaitsWithNothingUnread`, therefore speaks of the indices before each byte: in every state
of the parser, those its handler may store at are in the array's domain. Every parser
between two bytes of a read is covered, since a recv may bring less (`ShorterReads`). One
store is excepted by name: `data[i - 3]` of a terminator with only two bytes before it
(`request_data.c:106`), which the code does make outside of `data`. Hence the property's
second mutant, of the bound: `verb_long` lets a verb take the byte of its NUL.

`CHECK_DEADLOCK FALSE` in the configurations but `buffer`'s: when clients have sent all
and hung up, the process ended, the last mail is registered or a parser has died,
nothing more happens.

## Bounds

* Two connections wherever connections interact (the global state is the registry,
  the counters, `transform` and `listening`); one in `dialogue`, where the
  scripts are all 4-line dialogues over eight lines and all 3-command administrations
  over seven. Connections are symmetric; the
  symmetry set is used in `faults` and `monitor`, which check no liveness.
* Two local users, mails with one and two recipients, bodies of one and two lines, one
  of which looks like a command.
* `SentModulus`, 2, 4 or 16, stands for the width of `sent_bytes`; a reply counts as
  one byte.
* `WholeSend = TRUE` is the client that sends all it has at once, `FALSE` the one
  that sends line by line; `WholeRecv = TRUE` makes `recv` return all that arrived,
  `FALSE` any prefix of it.
* Queries of `monitor`: CONC and HIST without flaws (the client of the repository), and
  BYTES with two flaws, of which the first checked decides; one query at a time, any
  number of them.
* Descriptors: the listener, the monitor socket, and four to hand out, the log's among
  them; the selector takes one less than the process may open, so that `accept` succeeds
  and `selector_register` fails in one state and `accept` fails in another. One
  recipient leaks one or two descriptors; more are the same twice. `InitialItems` is as
  many as there are items, as main's 1024 are all a descriptor set has.
* Log: a buffer of 3 bytes at the start that grows by 3 up to 8, lines of 1 and 3 bytes
  where 2 are made room for: one line fits, the other may be cut, and two growths lead to
  the largest size. Nine byte numbers are one more than a buffer holds, so no two bytes
  of the buffer have the same.
* Registry: one mock mail and two deliveries in four readings of the clock, two a day, from
  29/02/2000 on; entries of one or two bytes in a reply of three, so that two entries fit
  or not; ten arguments, dates and others, among them two that are no dates and that
  `is_valid_time` accepts.
* Parser: texts of at most five tokens (`TextMax`), which is a line, the terminator and
  its LF; `verb` and `arg` of two bytes, and a `data` of one byte more than the read
  buffer's seven, as in the program; reads of up to three bytes of six kinds for commands,
  and of up to seven of five kinds for a body: a line, the terminator and two bytes behind
  it. An alphabet of a verb that needs no argument, another letter, the separators and NUL
  (which ends a C string wherever it is read) is all the parsers tell apart.
* Buffer: 4 bytes, three byte values.

## Fairness

`SmtpSession!FairSpec` assumes weak fairness of the server's handlers only: `main`
loops without end, `pselect` is level-triggered, and `handle_iteration` visits every
reported item, so a descriptor that stays ready and of interest is dispatched.
Clients are never obliged to do anything.

In `Lifecycle` this is not assumed of each descriptor: `pselect` returns, after its
timeout of ten seconds at the latest (`WF_all(Return)`), and main goes on wherever else
it is, since handlers return. That each descriptor is served (`EveryReadyServed`) and
that a signal stops the server (`SigtermStops`) is what is checked; the mutant
`Return_untimed`, without the timeout, loses the second. Arrivals and signals are never
obliged to happen.

`Logger!FairSpec` assumes that a flush that stays possible takes something some time: a
regular file is always writable, so `pselect` reports it while it is of interest.
A disk that is full for ever is excluded, a write that fails any number of times is not.

Where TLC would be slow on `ENABLED` of whole handlers, weak fairness is written with
what enables a handler and what it changes.

## Proofs

Each component's theorems are in a module named after it: `<Component>Proofs`, which
extends the component. The only assumptions are the components' `ASSUME`s; of these the
ones the code has to justify are named below.

`SmtpSessionProofs` proves, for any set of connections, users, scripts, failures
and mocks, `Spec => []IInv`, and from it `TypeOK`, `InterestMatchesState`,
`AbortNeedsWriteError`, `ArmedOutputHasSession`, `OneReplyPending`,
`NothingLeftBehind` and `EnvelopeComplete`. The invariants are not inductive one by one:
that interests match states needs to know what the handlers find (an abort is
possible from a state with the wrong interest), that a reply is single needs the interest,
that `request_data_init` finds `rcpt_to[0]` needs the envelope, and the
type of the file it writes the envelope too. `IInv` is their conjunction with
three parts that only the induction needs (`BodyHasFile`,
`ErrorNeedsWriteError`, `FreshUntilAccepted`); run `faults` checks it in TLC. The
proof goes by one connection: lemmas on the command handlers and parsers give
types, then each building block of the handlers (`ReadCommandInv`,
`SentAndReadInv`, `FinishedInv` ...) keeps the record of one connection
in the invariant, and `NextInv` has one step per action.

The same module goes on to what a step may do. First what a read, a send and a finished
store make of a session (`ReadOutcome`, `SentOutcome`), then, from these: the counters
(`ConnectionsCounted`; inductive with the total, and only with the set of served
connections finite, which it is although `Conn` need not be); `AdminByPassword` and
`TransformByAdmin`, where the work is that no other handler comes near the
administration's states; `RegisteredWithReply`, by induction along the recipients of a
mail; and the refinement `TakesTurns`. The refinement needs one more invariant, `GoAheads`:
a reply that waits is the 354 exactly if the dialogue has come to BODY, and an armed read
outside a body finds another state. Each action is then one of `SmtpTurns`, or a stutter.

`SmtpMailProofs` proves `Pipelined => (Spec => []DeliveredAsSent)`, for any connections,
users, mails, scripts and mocks. `Pipelined` is what the property needs of the environment:
each client sends one mail in one go, with anything behind it but another MAIL or an
XTRAN; what was sent arrives in one `recv`; no copy fails. (Without the first two the code
loses mail, see the [findings](#findings); every other failure may happen.) Run
`pipelined` is such an environment, as `PipelinedAssumption` has TLC confirm. Which file a
registered mail is in depends on everything its session went through, so the invariant
(`MailsInv`) follows each session along its script: nothing read yet (`Unread`); the
reply to line `j` owed, the envelope so far in the session's data and the rest of the script
in its read buffer (`Telling`); the body in memory and the header in the first recipient's
file (`Keeping`); or past the mail, where what is left in buffer, parser and dialogue
leads to no further mail (`Ended`) and so no file is written again. The lemmas go line by
line: what a script that begins with a mail has at each place (`ScriptPlaces`), what
the parsers take of it (`TakesLine`, `TakesBody`), what the handlers make of each line
(`HeardNext`), and that the last one copies header and text to every recipient
(`Delivers`). `transform` stays off because only an administrator's XTRAN sets it.

`SmtpMonitorProofs` composes the sessions with the monitor: what is told for HIST and CONC was
the counter at a moment since it was asked, since an answer under way is in `seen` (`MInv`)
and `seen` is emptied only when a new process asks; a stale answer is on no wire.

`DescriptorsProofs` proves `TableConsistent`, `RegisteredIsOpen`, `ArmedIsCurrent`,
`LogClosedFirst` and `DeafOnlyWhenExhausted` of `Lifecycle`, from the first socket to the
exit. Its three layers: each selector function takes a clean table to the one that its
name says (`CleanTable`, `Becomes`); each handler keeps `Running`, the invariant of the
iteration, whatever is left to dispatch; each step of `main` keeps `Inv`, which adds
what has been done wherever `main` is (`Progress`). The invariants need each other: an
armed file is the session's current one only because the session's socket waits for it,
so whose turn it is is part of the invariant; a descriptor that is registered is open only
because the log's free one, after a failed start, is the lowest there is and no
client has come between. Two assumptions are the program's: the items `selector_new`
makes are all a descriptor set has (`main` asks for 1024 of `FD_SETSIZE` 1024), and the
servers' descriptors are some of those the kernel hands out.

`LoggerProofs` proves for any sizes, granularity and lines that the open log's buffer is
within its array, holds the bytes the file lacks, in order, and is registered for writing
exactly while it holds some (`IInv`); hence `RoomForTerminator`, `PendingContinuesFile`,
`PendingIsAwaited`, `ShortLinesAreWhole` and `GarbledOnlyAtClose`. That a line finds room
rests on a buffer larger than a line when empty, and on an emptied one starting at 0.

`AccessRegistryProofs` proves all that the run `registry` checks. `ListsAgree` is itself
inductive, for any times and order of registration: where a sorted list takes the new mail
(`PlaceByTime`) it is sorted again, and nobody is twice among the users. The listings are
functions of a state in which the lists agree, so their theorems rest on it and on three
groups of lemmas: `Select` is the increasing enumeration of the places it selects, and its
bytes (`Length`) are the same whether a listing follows the list by time or that by
arrival (`TotalsAgree`); ten characters are read as the same date by `is_valid_time`'s
arithmetic and by `sscanf` whenever they spell one, and spell at most one; `mktime` of a
valid date and `localtime` of a time agree with a calendar that counts the days one after
the other, from which two days never have the same date. `CalendarAssumption` says that
the clock starts on a date and stays in the years `is_valid_time` takes, 1900 to 2100; of
the arguments it only says that they are sequences of integers, dates or not.

`RequestParserProofs` proves of the parsers byte by byte, for any sizes of the arrays, any
reads and any cuts, `RequestsByGrammar`, `WaitsWithNothingUnread` and `BodyByTerminator`.
The grammar speaks of the whole line the parser has seen; the proof needs it one byte after
the other. `Line` says the line is what a fold of its bytes makes of it (`LineStep`), and
`Fed` relates a parser to the line it was fed: index and arrays against its parts in
each state, `error` exactly where no request can begin so. `feed` keeps `Fed`, and
`BodyFed` for a body; `consume`, a recursive function of its rest, keeps any relation that
`feed` keeps (`ConsumeRun`, by induction on the set of lengths). That a store is within its array (`Inside`) needs no
more than the range of the index in each state, which is kept also where `Fed` is not
(`InVerb`: once a verb was too long for the administrator's parser, its index stays where
the NUL fits). Its assumptions: the read
buffer is no larger than `data` (4096 against 4097), no verb array is larger than `arg`
(16 and 256), no verb has a NUL. A verb too long for the administrator's parser is left out
of `Fed` (`TooLong`), as it is of the property: its outcome is undefined.

The same module proves `TokensAgree`, for texts of any length, any cuts and any spelling that
`SpellingAssumption` allows: verbs are words and told apart by their spelling, an argument
has no line end and fits in `arg`, only the dot is spelled as one, and the lists of verbs
without an argument are the same in both. No byte is compared with a token. Both parsers are
compared with what is read in the spelled text: where each token begins and what bytes are
there (`NextAt`, `HeadParts`, from `SpelledSplits`), so that the first CR is the end of the
first head and the line up to it is that head's verb and argument (`Commanded`), and so that
the dots that end a body are the terminators among the tokens, in the same order (`EndsAt`).
What the byte parser made of the line or the body is then `Fed` or `BodyFed`, and what is left
of the bytes spells what is left of the tokens.

`ByteBufferProofs` proves for any array size and byte set that `IInv` holds
(read and write positions in order, an emptied buffer back at its start), that an
empty buffer has all its room, and that the buffer implements `Fifo`.

Where a component's operator is a recursive function (the selector's growth, `consume`,
the registry's `Select`, `Length`, `Number` and `Calendar`), the proofs
show that some function satisfies its equation (`RecursionExists`), and use induction by the least element of a set of counterexamples, as the library's induction
theorems cannot be instantiated.

Only model-checked, out of the prover's reach: the liveness properties (`InputConsumed`,
`SentMailStored`, `CloseReleases`, `EveryReadyServed`, `SigtermStops`, `Drained`), whose
fairness needs ENABLED. Every invariant and every action property of a passing run is the
subject of a theorem.

## Findings

Each is a run in which TLC finds a property violated that the code's own comments,
replies or assertions state; `PROJECT.json` quotes them.

* `split_terminator`: a `<CRLF>.<CRLF>` that arrives in two reads is not recognised;
  the mail is never stored.
* `two_mails`: the second mail of a session to another first recipient delivers the
  first mail's file.
* `log_at_close`: after a write that took part of the log's buffer, the flush at the end
  writes the wrong bytes (`logger.c:144` starts at `buffer`).

Seen as well, in the modules but not in a run of their own:

* a body that arrives in two reads is stored with only its last part, each part
  being written from offset 0 (`smtp.c:549`; `DeliveredAsSent` under `FaultScripts`);
* a failed `write` of a mail file makes `stm.c` abort the server (`smtp.c:626`);
* no session ever closes its socket (`smtp.c:234`), each copy leaks a descriptor, and
  failing to register a client unregisters the listening socket, for good;
* the monitor answers STATUS with the command's own code, which the client prints as
  "on" whatever is the case; T_ON and T_OFF likewise only echo (`monitor.c:99`);
* a read of a body that begins with LF, a dot and CR (a CRLF cut in the middle, then the
  terminator) writes 4 GiB outside its array (`request_data.c:106`);
* a verb too long for the administrator's parser leaves its state uninitialised
  (`request_admin.c:93`);
* the log's buffer is compacted only when `malloc` refuses a new one: the test for
  compaction (`logger.c:74`) is never true, and at the largest size nothing is
  compacted, so lines are cut while there is room in front of the unwritten ones;
* when `malloc` refuses the log's first buffer its file is closed and stays registered:
  the next client gets the same descriptor, cannot be registered, and takes the
  listening socket down (the second disjunct of `DeafOnlyWhenExhausted`);
* the server's exit status is 1 when it is stopped by a signal, as `finally` takes
  `err_msg` for an error; and the closes of `finally` read descriptors that an early
  `goto` left unset;
* arguments that are no dates, as `01/03/1::0`, are accepted by `is_valid_time`; and a day
  with more mails than a reply holds writes outside `temp_buf`
  (`OverrunNeedsFullDay` says exactly when);
* administration commands sent in one go wait, after the first, until more arrives
  (`smtp.c:196`); the buffer of each monitor query is leaked; RSET keeps the recipients of
  the abandoned mail; a failed copy is acknowledged; the transformation program is
  never run, as `main.c:76` assigns the comparison's result to `c` and `init_status`
  gets `NULL` (so, with `XTRAN ON`, mails are written to a pipe nobody reads).

## Left out

* Texts of replies, paths and the log: an entry of a listing and a line of the log are
  their length.
* Partial and blocking sends: replies are shorter than socket buffers, and sockets
  are blocking, so `send` is complete or fails.
* Of the monitor's client, its arguments, and an answer that comes so late that
  another process has the port; that the number of BYTES is the truth (a failed
  `send` adds -1).
* The blocking jobs of `selector.c` and `print_mails_by_time`, which nothing calls; the
  log's console stream, which main does not pass.
* Argument parsing of the two programs; what `free_access_registry` releases.
* Code nothing calls.

## Plan

Done, in this order: commands, parsers, sessions with their abstract
specification and inductive invariant, selector and descriptors, buffer, monitor
and its client; then the parsers byte by byte, the registry, the logger, the start and
the end of the program; then the proofs about each of them, the agreement of the two
models of the parsers and the delivery of mails last. What is left is the liveness, for
which the runs have to do.
