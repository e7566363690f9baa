--------------------------- MODULE AccessRegistry ---------------------------
(***************************************************************************)
(* The registry of src/src/lib/access_registry.c: every mail in a list by  *)
(* arrival and in one by time, the users that appear in them, and the      *)
(* listings the administrator asks for with XGET.                          *)
(*                                                                         *)
(* A time is a number of clock readings, DayLength of them a day, the      *)
(* first one at midnight of FirstDay.  An entry's text is its length.  The *)
(* argument of XGET is the sequence of its characters, each given by its   *)
(* distance from the character 0, as is_valid_time computes with it.       *)
(***************************************************************************)
EXTENDS Integers, SequencesExt

CONSTANTS User,        \* mail addresses
          Size,        \* the lengths of a mail's entry in a listing
          Room,        \* sizeof temp_buf, which is RESPONSE_SIZE
          Mocks,       \* how many mails generate_mock_emails makes up
          MaxMails,    \* bound: mails registered
          MaxTime,     \* bound: readings of the clock
          DayLength,
          FirstDay,    \* the date of time 0: [day, month, year]
          DateArg      \* arguments of XGET that are not ALL

ASSUME RegistryAssumption ==
  /\ Size \subseteq Nat \ {0} /\ Room \in Nat \ {0} /\ DayLength \in Nat \ {0}
  /\ MaxTime \in Nat /\ Mocks \in Nat /\ MaxMails \in Nat

VARIABLES now,         \* what time() returns
          by_name,     \* the mails in order of registration (first_by_name, next_by_name)
          by_time,     \* their places in by_name, in the order of first_by_time
          users        \* the list of users, the last added first

vars == <<now, by_name, by_time, users>>

Mail == [from : User, to : User, time : 0..MaxTime, size : Size]

-----------------------------------------------------------------------------
(* Dates.                                                                  *)

Slash == -1

\* The years is_valid_time takes.
Years == 1900..2100

is_leap_year(year) == (year % 4 = 0 /\ year % 100 # 0) \/ year % 400 = 0

\* The number the C code makes of n characters from a place on, whatever they are.
Number(arg, first, n) ==
  LET read[k \in 0..n] == IF k = 0 THEN 0 ELSE 10 * read[k - 1] + arg[first + k - 1]
  IN  read[n]

\* Mutant: every month has 31 days.
is_valid_time_loose(arg) ==
  /\ Len(arg) = 10 /\ arg[3] = Slash /\ arg[6] = Slash
  /\ Number(arg, 7, 4) \in Years
  /\ Number(arg, 4, 2) \in 1..12
  /\ Number(arg, 1, 2) \in 1..31

is_valid_time(arg) ==
  /\ Len(arg) = 10 /\ arg[3] = Slash /\ arg[6] = Slash
  /\ LET day   == Number(arg, 1, 2)
         month == Number(arg, 4, 2)
         year  == Number(arg, 7, 4)
     IN  /\ year \in Years /\ month \in 1..12 /\ day \in 1..31
         /\ month = 2 => day <= (IF is_leap_year(year) THEN 29 ELSE 28)
         /\ month \in {4, 6, 9, 11} => day <= 30

\* sscanf's %d from a place on: the digits up to the first other character.
Digits(arg, first) ==
  LET end == CHOOSE e \in first..Len(arg) + 1 :
               /\ \A i \in first..e - 1 : arg[i] \in 0..9
               /\ e = Len(arg) + 1 \/ arg[e] \notin 0..9
  IN  [count |-> end - first, value |-> Number(arg, first, end - first)]

\* sscanf("%d/%d/%d") of an argument is_valid_time accepted: no sign or blank passes it.
Scanned(arg) ==
  /\ Digits(arg, 1).count = 2 /\ Digits(arg, 4).count = 2
  /\ Digits(arg, 7).count > 0

\* mktime and localtime, up to the hour: the number of the day of a date.
mktime(date) ==
  LET years  == date.year - 1
      months == <<0, 31, 59, 90, 120, 151, 181, 212, 243, 273, 304, 334>>
  IN  365 * years + years \div 4 - years \div 100 + years \div 400
        + months[date.month] + (IF date.month > 2 /\ is_leap_year(date.year) THEN 1 ELSE 0)
        + date.day

\* The day of a time.
localtime(time) == mktime(FirstDay) + time \div DayLength

\* The days convert_and_validate_date answers: one, or none.
convert_and_validate_date(arg) ==
  IF is_valid_time(arg) /\ Scanned(arg)
  THEN {mktime([day |-> Digits(arg, 1).value, month |-> Digits(arg, 4).value,
                year |-> Digits(arg, 7).value])}
  ELSE {}

-----------------------------------------------------------------------------
(* Registration.                                                           *)

is_user_present(list, user) == \E i \in DOMAIN list : list[i] = user

add_user(list, user) == IF is_user_present(list, user) THEN list ELSE <<user>> \o list

\* Mutant: the mail goes after the first one that is no earlier.
PlaceByTime_after(mail) ==
  LET later == SelectInSeq(by_time, LAMBDA i : by_name[i].time >= mail.time)
  IN  IF later = 0 THEN Len(by_time) + 1 ELSE later + 1

\* Where the list by time gets the mail: before the first one that is no earlier.
PlaceByTime(mail) ==
  LET later == SelectInSeq(by_time, LAMBDA i : by_name[i].time >= mail.time)
  IN  IF later = 0 THEN Len(by_time) + 1 ELSE later

register_mail(mail) ==
  /\ by_name' = Append(by_name, mail)
  /\ by_time' = InsertAt(by_time, PlaceByTime(mail), Len(by_name) + 1)
  /\ users' = add_user(add_user(users, mail.from), mail.to)

-----------------------------------------------------------------------------
(* Listings: a reply is a listing of the entries shown whole, in their     *)
(* order; an uninitialised buffer; or the program wrote outside temp_buf.  *)

Listing(places) == [kind |-> "listing", shown |-> places]
Uninitialised   == [kind |-> "uninitialised", shown |-> <<>>]
Overrun         == [kind |-> "overrun", shown |-> <<>>]

\* The bytes of the first k entries.
Length(places, k) ==
  LET bytes[j \in 0..k] == IF j = 0 THEN 0 ELSE bytes[j - 1] + by_name[places[j]].size
  IN  bytes[k]

\* Those of the places, in their order, that are in S.
Select(places, S) ==
  LET chosen[k \in 0..Len(places)] ==
        CASE k = 0 -> <<>>
          [] k > 0 /\ places[k] \in S -> Append(chosen[k - 1], places[k])
          [] OTHER -> chosen[k - 1]
  IN  chosen[Len(places)]

ByArrival  == [i \in DOMAIN by_name |-> i]
From(user) == {i \in DOMAIN by_name : by_name[i].from = user}
Of(user)   == {i \in DOMAIN by_name : user \in {by_name[i].from, by_name[i].to}}

\* Mutant: room is left for no terminator.
print_mails_full(user) ==
  LET sent == Select(ByArrival, From(user))
      fit  == CHOOSE k \in 0..Len(sent) :
                /\ Length(sent, k) <= Room
                /\ k < Len(sent) => Length(sent, k + 1) > Room
  IN  Listing(SubSeq(sent, 1, fit))

\* How many entries there is room for, with a terminator.
Fitting(places) ==
  CHOOSE k \in 0..Len(places) :
    /\ Length(places, k) < Room
    /\ k < Len(places) => Length(places, k + 1) >= Room

\* Entries are added until the next one does not fit with its terminator.
print_mails(user) ==
  LET sent == Select(ByArrival, From(user)) IN Listing(SubSeq(sent, 1, Fitting(sent)))

\* Entries are added to temp_buf with no look at the room: snprintf cuts the one that
\* reaches its end, with or without another behind it, and an entry after one that goes
\* beyond it is written outside.
Unbounded(places) ==
  CASE places = <<>> -> Uninitialised
    [] places # <<>> /\ Length(places, Len(places) - 1) > Room -> Overrun
    [] OTHER -> Listing(SubSeq(places, 1, Fitting(places)))

\* Mutant: the fields of localtime's one static record are not copied before the next
\* call, so that every mail is of the day asked for.
print_mails_by_day_static(day, user) ==
  Unbounded(Select(by_time, Of(user)))

print_mails_by_day(day, user) ==
  Unbounded(Select(by_time, {i \in Of(user) : localtime(by_name[i].time) = day}))

\* The listings of handle_xget for an argument that is not ALL: none for a bad one.
xget(arg, user) == {print_mails_by_day(day, user) : day \in convert_and_validate_date(arg)}

-----------------------------------------------------------------------------
\* init_access_registry, before generate_mock_emails.
Init ==
  /\ now \in 0..MaxTime
  /\ by_name = <<>> /\ by_time = <<>> /\ users = <<>>

\* generate_mock_emails: mails of any two users, of any time up to now.
MockMail ==
  /\ Len(by_name) < Mocks
  /\ \E mail \in Mail : mail.time <= now /\ register_mail(mail)
  /\ UNCHANGED now

\* smtp.c's write_file_handler, for one recipient of a finished mail.
Deliver ==
  /\ Len(by_name) \in Mocks..MaxMails - 1
  /\ \E mail \in Mail : mail.time = now /\ register_mail(mail)
  /\ UNCHANGED now

\* The clock goes on, or is set.
Tick ==
  /\ Len(by_name) >= Mocks
  /\ now' \in 0..MaxTime
  /\ UNCHANGED <<by_name, by_time, users>>

Next == MockMail \/ Deliver \/ Tick

Spec == Init /\ [][Next]_vars

-----------------------------------------------------------------------------
TypeOK ==
  /\ now \in 0..MaxTime /\ by_name \in Seq(Mail)
  /\ by_time \in Seq(DOMAIN by_name) /\ users \in Seq(User)

\* The list by time has every mail once, in order of time, whatever the order they
\* were registered in: the two lists never disagree on which mails there are.
SortedByTime ==
  /\ Len(by_time) = Len(by_name)
  /\ {by_time[k] : k \in DOMAIN by_time} = DOMAIN by_name
  /\ \A j, k \in DOMAIN by_time : j < k => by_name[by_time[j]].time <= by_name[by_time[k]].time

\* The users XFROM accepts are the senders and recipients of the registered mails,
\* each once in the list.
UsersAreCorrespondents ==
  /\ {users[i] : i \in DOMAIN users}
       = UNION {{by_name[i].from, by_name[i].to} : i \in DOMAIN by_name}
  /\ \A i, j \in DOMAIN users : users[i] = users[j] => i = j

\* The three lists of the registry tell one story, whatever the order mails come in.
ListsAgree == TypeOK /\ SortedByTime /\ UsersAreCorrespondents

\* XGET ALL answers the oldest mails of a sender, whole, within the response buffer,
\* and leaves out only what does not fit.
ListingOfSender ==
  \A user \in User :
    LET shown == print_mails(user).shown
        sent  == From(user)
    IN  /\ {shown[k] : k \in DOMAIN shown} \subseteq sent
        /\ \A i, j \in sent : i < j /\ Contains(shown, j) => Contains(shown, i)
        /\ Length(shown, Len(shown)) < Room
        /\ \A i \in sent : (\A j \in sent : j < i => Contains(shown, j)) /\ ~Contains(shown, i)
                             => Length(shown, Len(shown)) + by_name[i].size >= Room

\* The calendar, one day after the other.
DaysOf(month, year) ==
  CASE month = 2 -> IF year % 400 = 0 \/ (year % 4 = 0 /\ year % 100 # 0) THEN 29 ELSE 28
    [] month \in {4, 6, 9, 11} -> 30
    [] OTHER -> 31

Tomorrow(d) ==
  CASE d.day < DaysOf(d.month, d.year) -> [d EXCEPT !.day = @ + 1]
    [] d.day >= DaysOf(d.month, d.year) /\ d.month < 12 -> [d EXCEPT !.day = 1, !.month = @ + 1]
    [] OTHER -> [day |-> 1, month |-> 1, year |-> d.year + 1]

\* The date of each day the clock can show.
Calendar ==
  LET date[n \in 0..MaxTime \div DayLength] == IF n = 0 THEN FirstDay ELSE Tomorrow(date[n - 1])
  IN  date

Dates == {d \in [day : 1..31, month : 1..12, year : Years] : d.day <= DaysOf(d.month, d.year)}

\* The clock shows only days of those years.
ASSUME CalendarAssumption ==
  /\ FirstDay \in Dates
  /\ \A n \in DOMAIN Calendar : Calendar[n].year \in Years
  /\ DateArg \subseteq Seq(Int)

\* dd/mm/yyyy of a date.
Written(d) ==
  <<d.day \div 10, d.day % 10, Slash, d.month \div 10, d.month % 10, Slash,
    d.year \div 1000, (d.year \div 100) % 10, (d.year \div 10) % 10, d.year % 10>>

\* XGET with a date is answered for every day of the calendar with the mails of that
\* day and user, in order of time, all that there is room for; with anything else
\* it lists no mail, though some arguments that are no date are accepted.
ListingOfDay ==
  \A user \in User, arg \in DateArg :
    LET days  == {n \in DOMAIN Calendar : Written(Calendar[n]) = arg}
        mails == Select(by_time, {i \in Of(user) : by_name[i].time \div DayLength \in days})
    IN  /\ days # {} => xget(arg, user) # {}
        /\ \A reply \in xget(arg, user) :
             /\ IsPrefix(reply.shown, mails)
             /\ reply.kind = "uninitialised" <=> mails = <<>>
             /\ reply.kind = "listing" =>
                  \A k \in 0..Len(mails) : k <= Len(reply.shown) <=> Length(mails, k) < Room

\* Nothing is written outside temp_buf unless a day's mails need more than it has: how
\* many mails a user has on a day is all that decides (50 mock mails are enough).
OverrunNeedsFullDay ==
  \A user \in User, arg \in DateArg : \A reply \in xget(arg, user) :
    reply.kind = "overrun" =>
      \E n \in DOMAIN Calendar :
        LET mails == Select(ByArrival, {i \in Of(user) : by_name[i].time \div DayLength = n})
        IN  Length(mails, Len(mails)) > Room
=============================================================================
