---------------------------- MODULE SmtpMailProofs ----------------------------
(***************************************************************************)
(* Mails sent in one go are delivered as sent, for every set of clients,   *)
(* mails and users, and whatever calls but the copy fail.                  *)
(*                                                                         *)
(* The invariant, MailsInv, follows the one mail of a session through its  *)
(* script: which lines the server has taken, what of the mail they are,    *)
(* and what is still in read_buffer.  A session is before its mail's       *)
(* delivery (Sending: Unread, then Telling line by line, then Keeping), or *)
(* past it; what a registered mail's files hold is never written again.    *)
(***************************************************************************)
EXTENDS SmtpSessionProofs, SmtpMails

-----------------------------------------------------------------------------
(* The invariant.                                                          *)

\* What is left of a script behind its first j lines, as it travels.
Left(w, j) == Wire(SubSeq(w, j + 1, Len(w)))

\* No file of the session has been written.
NoFile    == [u \in User |-> <<>>]
NoMail(s) == s.temp_path = NoUser /\ s.tmp = NoFile /\ s.new = NoFile /\ s.output = "none"

Silent(k) == k.todo = <<>> /\ k.net = <<>>

\* Nothing was read: the script is the client's, on its way, or lost with the client.
Unread(s, k, w) ==
  /\ NoMail(s) /\ s.stm \in {"NULL", "READ"} /\ s.rbuf = <<>> /\ s.data = InitData
  /\ s.par = request_parser_init
  /\ \/ k.todo = w /\ k.net = <<>>
     \/ k.todo = <<>> /\ k.net \in {<<>>, Wire(w)}

\* The dialogue after the sender and i recipients of m, and after the go-ahead.
Named(m, i) == [state |-> IF i = 0 THEN "TO" ELSE "DATA", mail_from |-> m.from,
                rcpt_to |-> SubSeq(m.rcpts, 1, i), user |-> NoUser]
Complete(m) == [state |-> "BODY", mail_from |-> m.from, rcpt_to |-> m.rcpts, user |-> NoUser]

\* The server's data after the first j lines of an envelope.
Heard(d, m, j) ==
  \/ j = 1 /\ d = [InitData EXCEPT !.state = "FROM"]
  \/ \E i \in 0..Len(m.rcpts) : j = 2 + i /\ d = Named(m, i)
  \/ j = 3 + Len(m.rcpts) /\ d = Complete(m)

\* The reply to the j-th line of an envelope waits to be sent.
Telling(s, k, w, m) ==
  /\ Silent(k) /\ NoMail(s) /\ s.stm = "WRITE"
  /\ \E j \in 1..3 + Len(m.rcpts) : Heard(s.data, m, j) /\ s.rbuf = Left(w, j)

\* The body was read, and is in the session's memory.
TextOf(m)  == SubSeq(Wire(m.body), 1, 2 * Len(m.body) - 1)
HeadOf(m)  == [from |-> m.from, rcpts |-> m.rcpts]
Keeping(s, k, w, m) ==
  /\ Silent(k) /\ s.stm \in {"DATA_WRITE", "ERROR"} /\ s.data = Complete(m)
  /\ s.par.st = "done" /\ s.par.data = TextOf(m) /\ s.rbuf = Left(w, Len(MailScript(m)))
  /\ s.temp_path = m.rcpts[1] /\ s.tmp = [NoFile EXCEPT ![m.rcpts[1]] = <<HeadOf(m)>>]
  /\ s.new = NoFile /\ ~s.pipe

Sending(s, k) ==
  \E w \in Scripts, m \in Mails :
    OneMail(w, m) /\ (Unread(s, k, w) \/ Telling(s, k, w, m) \/ Keeping(s, k, w, m))

\* Nothing that follows starts a mail or switches the transformation.
Mild(verb)  == verb \notin {"MAIL", "XTRAN"}
Ended(s, k) ==
  /\ Silent(k) /\ s.stm \in {"READ", "WRITE", "ADMIN"}
  /\ s.data.state \in {"EHLO", "FROM", "XFROM", "XGET"}
  /\ Mild(s.par.req.verb) /\ \A i \in 1..Len(s.rbuf) : Mild(s.rbuf[i].verb)

\* A session whose mail is delivered, or that is over.
Past(s, k) == s.phase \in {"closed", "lost"} \/ Ended(s, k)

\* The mail of a registry's entry is in the file of a session.
InFile(e, s) == \E m \in Mails : m.from = e.from /\ e.to \in Range(m.rcpts) /\ s.new[e.to] = FileOf(m)

\* Every mail is on its way or past it, and what the registry names is in its file.
MailsInv ==
  /\ ~transform
  /\ \A c \in Conn : Past(sess[c], client[c]) \/ Sending(sess[c], client[c])
  /\ \A i \in DOMAIN registry : registry[i].path \in Conn =>
       /\ Past(sess[registry[i].path], client[registry[i].path])
       /\ InFile(registry[i], sess[registry[i].path])

-----------------------------------------------------------------------------
(* Lines as they travel.                                                   *)

\* Lines as they travel, head by head.
LEMMA WireIs ==
  ASSUME NEW w \in Seq(Line)
  PROVE  /\ Wire(w) \in Seq(Token) /\ Len(Wire(w)) = 2 * Len(w)
         /\ \A a \in 1..Len(w) : Wire(w)[2 * a - 1] = w[a] /\ Wire(w)[2 * a] = LF
<1> DEFINE n == 2 * Len(w)
<1>1. Len(w) \in Nat /\ n \in Nat
  BY LenProperties
<1>2. Wire(w) \in Seq(Token)
  BY WireType
<1>3. DOMAIN Wire(w) = 1..n
  BY DEF Wire
<1>4. Len(Wire(w)) = n
  BY <1>1, <1>2, <1>3, LenProperties
<1>5. ASSUME NEW a \in 1..Len(w) PROVE Wire(w)[2 * a - 1] = w[a] /\ Wire(w)[2 * a] = LF
  <2>1. /\ 2 * a - 1 \in 1..n /\ 2 * a \in 1..n /\ (2 * a - 1) % 2 = 1 /\ (2 * a) % 2 # 1
        /\ ((2 * a - 1) + 1) \div 2 = a
    BY <1>1
  <2>2. QED
    BY <2>1 DEF Wire
<1>6. QED
  BY <1>2, <1>4, <1>5

\* A place among lines that travel is a head's or an LF's.
LEMMA OddOrEven ==
  ASSUME NEW n \in Nat, NEW i \in 1..2 * n
  PROVE  \E a \in 1..n : i = 2 * a - 1 \/ i = 2 * a
<1> DEFINE a == (i + 1) \div 2
<1>1. a \in 1..n /\ (i = 2 * a - 1 \/ i = 2 * a)
  OBVIOUS
<1>2. QED
  BY <1>1

\* What follows the first lines of a script, place by place.
LEMMA LeftIs ==
  ASSUME NEW w \in Seq(Line), NEW j \in 0..Len(w)
  PROVE  /\ Left(w, j) \in Seq(Token) /\ Len(Left(w, j)) = 2 * (Len(w) - j)
         /\ \A a \in 1..Len(w) - j : Left(w, j)[2 * a - 1] = w[j + a] /\ Left(w, j)[2 * a] = LF
<1> DEFINE x == SubSeq(w, j + 1, Len(w))
<1>1. Len(w) \in Nat
  BY LenProperties
<1>2. \A i \in j + 1..Len(w) : w[i] \in Line
  BY <1>1, ElementOfSeq
<1>3. /\ x \in Seq(Line) /\ Len(x) = Len(w) - j
      /\ \A a \in 1..Len(w) - j : x[a] = w[j + a]
  BY <1>1, <1>2, SubSeqProperties
<1> HIDE DEF x
<1>4. QED
  BY <1>3, WireIs DEF Left, x

\* Nothing of a script is left of nothing.
LEMMA LeftWhole ==
  ASSUME NEW w \in Seq(Line)
  PROVE  Left(w, 0) = Wire(w)
<1>1. SubSeq(w, 1, Len(w)) = w /\ 0 + 1 = 1
  BY SubSeqFull
<1>2. QED
  BY <1>1 DEF Left

\* Lines taken from what is left.
LEMMA LeftNext ==
  ASSUME NEW w \in Seq(Line), NEW j \in Nat, NEW k \in Nat, j + k <= Len(w)
  PROVE  After(Left(w, j), 2 * k) = Left(w, j + k)
<1> DEFINE x == Left(w, j)
           y == Left(w, j + k)
           n == Len(w) - j
           m == n - k
<1>1. /\ Len(w) \in Nat /\ n \in Nat /\ m \in Nat /\ j \in 0..Len(w) /\ j + k \in 0..Len(w)
      /\ Len(w) - (j + k) = m /\ n = m + k
  BY LenProperties
<1>2. /\ x \in Seq(Token) /\ Len(x) = 2 * n
      /\ \A a \in 1..n : x[2 * a - 1] = w[j + a] /\ x[2 * a] = LF
  BY <1>1, LeftIs
<1>3. /\ y \in Seq(Token) /\ Len(y) = 2 * m
      /\ \A a \in 1..m : y[2 * a - 1] = w[j + k + a] /\ y[2 * a] = LF
  BY <1>1, LeftIs
<1> HIDE DEF x, y, n, m
<1>4. /\ After(x, 2 * k) \in Seq(Token) /\ Len(After(x, 2 * k)) = 2 * m
      /\ \A i \in 1..2 * m : After(x, 2 * k)[i] = x[2 * k + i]
  <2> DEFINE e == 2 * k + 1
  <2>1. \A i \in e..Len(x) : x[i] \in Token
    BY <1>2, ElementOfSeq
  <2>2. e \in Int /\ Len(x) \in Int /\ Len(x) - e + 1 = 2 * m /\ (e <= Len(x) \/ m = 0)
    BY <1>1, <1>2
  <2> HIDE DEF e
  <2>3. /\ SubSeq(x, e, Len(x)) \in Seq(Token)
        /\ Len(SubSeq(x, e, Len(x))) = IF e <= Len(x) THEN Len(x) - e + 1 ELSE 0
        /\ \A i \in 1..Len(x) - e + 1 : SubSeq(x, e, Len(x))[i] = x[e + i - 1]
    BY <2>1, <2>2, SubSeqProperties
  <2>4. After(x, 2 * k) = SubSeq(x, e, Len(x))
    BY DEF After, e
  <2>5. \A i \in 1..2 * m : e + i - 1 = 2 * k + i
    BY <1>1 DEF e
  <2>6. Len(SubSeq(x, e, Len(x))) = 2 * m
    BY <1>1, <2>2, <2>3
  <2>7. QED
    BY <2>2, <2>3, <2>4, <2>5, <2>6
<1>5. ASSUME NEW i \in 1..2 * m PROVE After(x, 2 * k)[i] = y[i]
  <2>1. PICK a \in 1..m : i = 2 * a - 1 \/ i = 2 * a
    BY <1>1, OddOrEven
  <2>2. After(x, 2 * k)[i] = x[2 * k + i]
    BY <1>4
  <2>3. /\ a + k \in 1..n /\ j + (a + k) = j + k + a
        /\ 2 * k + (2 * a - 1) = 2 * (a + k) - 1 /\ 2 * k + 2 * a = 2 * (a + k)
    BY <1>1, <2>1
  <2>4. x[2 * (a + k) - 1] = w[j + k + a] /\ x[2 * (a + k)] = LF
    BY <1>2, <2>3
  <2>5. y[2 * a - 1] = w[j + k + a] /\ y[2 * a] = LF
    BY <1>3, <2>1
  <2>6. QED
    BY <2>1, <2>2, <2>3, <2>4, <2>5
<1>6. After(x, 2 * k) = y
  BY <1>3, <1>4, <1>5, SeqEqual
<1>7. QED
  BY <1>6 DEF x, y

-----------------------------------------------------------------------------
(* A script that is one mail, place by place.                              *)

\* The lines of a script that begins with a mail.
ScriptIs(w, m, R, B) ==
  /\ w \in Seq(Line) /\ m.from \in User /\ m.rcpts \in Seq(User) /\ m.body \in Seq(Line)
  /\ R = Len(m.rcpts) /\ B = Len(m.body) /\ R \in Nat /\ B \in Nat /\ R >= 1 /\ B >= 1
  /\ \A i \in 1..B : m.body[i] # Dot
  /\ Len(w) \in Nat /\ Len(MailScript(m)) = 4 + R + B /\ 4 + R + B <= Len(w)
  /\ w[1] = Cmd("HELO", "host") /\ w[2] = Cmd("MAIL", m.from)
  /\ \A i \in 1..R : w[2 + i] = Cmd("RCPT", m.rcpts[i])
  /\ w[3 + R] = Cmd("DATA", NoArg)
  /\ \A i \in 1..B : w[3 + R + i] = m.body[i]
  /\ w[4 + R + B] = Dot
  /\ \A i \in 5 + R + B..Len(w) : Mild(w[i].verb)

\* The places of two sequences joined.
LEMMA Joined ==
  ASSUME NEW x \in Seq(Line), NEW y \in Seq(Line)
  PROVE  /\ x \o y \in Seq(Line) /\ Len(x \o y) = Len(x) + Len(y)
         /\ \A i \in 1..Len(x) : (x \o y)[i] = x[i]
         /\ \A i \in 1..Len(y) : (x \o y)[Len(x) + i] = y[i]
<1> DEFINE a == Len(x)
           b == Len(y)
<1>1. x \o y \in Seq(Line) /\ Len(x \o y) = a + b /\ a \in Nat /\ b \in Nat
  BY ConcatProperties, LenProperties
<1>2. \A i \in 1..a + b : (x \o y)[i] = IF i <= a THEN x[i] ELSE y[i - a]
  BY ConcatProperties
<1> HIDE DEF a, b
<1>3. ASSUME NEW i \in 1..b PROVE (x \o y)[a + i] = y[i]
  <2> DEFINE k == a + i
  <2>1. k \in 1..a + b /\ ~(k <= a) /\ k - a = i
    BY <1>1
  <2> HIDE DEF k
  <2>2. (x \o y)[k] = y[i]
    BY <1>2, <2>1
  <2>3. QED
    BY <2>2 DEF k
<1>4. ASSUME NEW i \in 1..a PROVE (x \o y)[i] = x[i]
  <2>1. i \in 1..a + b /\ i <= a
    BY <1>1
  <2>2. QED
    BY <1>2, <2>1
<1>5. QED
  BY <1>1, <1>3, <1>4 DEF a, b

\* The places of a sequence and one more line.
LEMMA JoinedOne ==
  ASSUME NEW x \in Seq(Line), NEW t \in Line, NEW n, n = Len(x) + 1
  PROVE  /\ x \o <<t>> \in Seq(Line) /\ Len(x \o <<t>>) = n /\ (x \o <<t>>)[n] = t
         /\ \A i \in 1..Len(x) : (x \o <<t>>)[i] = x[i]
<1> DEFINE y == <<t>>
<1>1. y \in Seq(Line) /\ Len(y) = 1 /\ y[1] = t
  OBVIOUS
<1> HIDE DEF y
<1>2. 1 \in 1..Len(y)
  BY <1>1
<1>3. x \o y \in Seq(Line) /\ Len(x \o y) = n /\ (x \o y)[n] = t
  <2>1. (x \o y)[Len(x) + 1] = y[1] /\ x \o y \in Seq(Line) /\ Len(x \o y) = Len(x) + Len(y)
    BY <1>1, <1>2, Joined
  <2>2. QED
    BY <1>1, <2>1
<1>4. \A i \in 1..Len(x) : (x \o y)[i] = x[i]
  BY <1>1, Joined
<1>5. QED
  BY <1>3, <1>4 DEF y

\* Every line of a mail and of what follows it has its place in a client's script.
LEMMA ScriptPlaces ==
  ASSUME NEW w \in Scripts, NEW m \in Mails, OneMail(w, m)
  PROVE  ScriptIs(w, m, Len(m.rcpts), Len(m.body))
<1> DEFINE R == Len(m.rcpts)
           B == Len(m.body)
           x == <<Cmd("HELO", "host"), Cmd("MAIL", m.from)>>
           y == [i \in DOMAIN m.rcpts |-> Cmd("RCPT", m.rcpts[i])]
           q == Cmd("DATA", NoArg)
           b == m.body
           n == Len(MailScript(m))
<1>1. w \in Seq(Line) /\ Len(w) \in Nat
  BY ScriptAssumption, LenProperties
<1>2. /\ m.from \in User /\ m.rcpts \in Seq(User) /\ m.rcpts # <<>>
      /\ b \in Seq(Line \ {Dot}) /\ b # <<>>
  BY MailAssumption
<1>3. R \in Nat /\ R >= 1 /\ B \in Nat /\ B >= 1 /\ DOMAIN m.rcpts = 1..R
  BY <1>2, EmptySeq, LenProperties
<1>4. b \in Seq(Line) /\ \A i \in 1..B : b[i] # Dot
  BY <1>2, SeqMonotonic, ElementOfSeq
<1> HIDE DEF R, B
<1>5. /\ Cmd("HELO", "host") \in Line /\ Cmd("DATA", NoArg) \in Line /\ Dot \in Line
      /\ \A u \in User : Cmd("MAIL", u) \in Line /\ Cmd("RCPT", u) \in Line
  BY DEF Cmd, Line, Verb, ValidCommands, Arg, OtherArg, Dot
<1>6. x \in Seq(Line) /\ Len(x) = 2 /\ x[1] = Cmd("HELO", "host") /\ x[2] = Cmd("MAIL", m.from)
  BY <1>2, <1>5
<1> HIDE DEF x
<1>7. y \in Seq(Line) /\ Len(y) = R /\ \A i \in 1..R : y[i] = Cmd("RCPT", m.rcpts[i])
  <2>1. \A i \in 1..R : m.rcpts[i] \in User
    BY <1>2, ElementOfSeq DEF R
  <2>2. y \in [1..R -> Line]
    BY <1>3, <1>5, <2>1
  <2>3. y \in Seq(Line)
    BY <1>3, <2>2, SeqDef
  <2>4. QED
    BY <1>3, <2>2, <2>3, LenProperties
<1>8. q \in Line /\ Dot \in Line
  BY <1>5
<1>9. MailScript(m) = (((x \o y) \o <<q>>) \o b) \o <<Dot>>
  BY DEF MailScript, Envelope, x
<1> HIDE DEF y, q, b
<1> DEFINE v == x \o y
<1>10. v \in Seq(Line) /\ Len(v) = 2 + R /\ v[1] = x[1] /\ v[2] = x[2] /\ \A i \in 1..R : v[2 + i] = y[i]
  <2>1. /\ v \in Seq(Line) /\ Len(v) = Len(x) + Len(y)
        /\ \A i \in 1..Len(x) : v[i] = x[i]
        /\ \A i \in 1..Len(y) : v[Len(x) + i] = y[i]
    BY <1>6, <1>7, Joined
  <2> HIDE DEF v
  <2>2. 1 \in 1..2 /\ 2 \in 1..2
    OBVIOUS
  <2>3. QED
    BY <1>6, <1>7, <2>1, <2>2
<1> HIDE DEF v
<1> DEFINE e == v \o <<q>>
<1>11. /\ e \in Seq(Line) /\ Len(e) = 3 + R /\ e[1] = x[1] /\ e[2] = x[2]
       /\ \A i \in 1..R : e[2 + i] = y[i]
       /\ e[3 + R] = q
  <2> DEFINE k == 3 + R
  <2>1. k = Len(v) + 1 /\ 1 \in 1..Len(v) /\ 2 \in 1..Len(v) /\ \A i \in 1..R : 2 + i \in 1..Len(v)
    BY <1>3, <1>10
  <2> HIDE DEF k
  <2>2. e \in Seq(Line) /\ Len(e) = k /\ e[k] = q /\ \A i \in 1..Len(v) : e[i] = v[i]
    BY <1>8, <1>10, <2>1, JoinedOne
  <2> HIDE DEF e
  <2>3. \A i \in 1..R : e[2 + i] = v[2 + i]
    BY <2>1, <2>2
  <2>4. QED
    BY <1>10, <2>1, <2>2, <2>3 DEF k
<1> HIDE DEF e
<1> DEFINE f == e \o b
<1>12. /\ f \in Seq(Line) /\ Len(f) = 3 + R + B /\ \A i \in 1..3 + R : f[i] = e[i]
       /\ \A i \in 1..B : f[3 + R + i] = b[i]
  <2>1. Len(b) = B
    BY DEF b, B
  <2>2. /\ f \in Seq(Line) /\ Len(f) = Len(e) + Len(b)
        /\ \A i \in 1..Len(e) : f[i] = e[i]
        /\ \A i \in 1..Len(b) : f[Len(e) + i] = b[i]
    BY <1>4, <1>11, Joined DEF b
  <2> HIDE DEF f
  <2> DEFINE k == 3 + R
  <2>3. k = Len(e)
    BY <1>11
  <2> HIDE DEF k
  <2>4. (\A i \in 1..k : f[i] = e[i]) /\ (\A i \in 1..B : f[k + i] = b[i])
    BY <2>1, <2>2, <2>3
  <2>5. Len(f) = k + B
    BY <2>1, <2>2, <2>3
  <2>6. QED
    BY <2>2, <2>4, <2>5 DEF k
<1> HIDE DEF f
<1> DEFINE g == f \o <<Dot>>
<1>13. g \in Seq(Line) /\ Len(g) = 4 + R + B /\ g[4 + R + B] = Dot /\ \A i \in 1..3 + R + B : g[i] = f[i]
  <2> DEFINE k == 4 + R + B
  <2>1. k = Len(f) + 1
    BY <1>3, <1>12
  <2> HIDE DEF k
  <2>2. g \in Seq(Line) /\ Len(g) = k /\ g[k] = Dot /\ \A i \in 1..Len(f) : g[i] = f[i]
    BY <1>8, <1>12, <2>1, JoinedOne
  <2> HIDE DEF g
  <2>3. QED
    BY <1>12, <2>2 DEF k
<1> HIDE DEF g
<1> DEFINE s == MailScript(m)
<1>14. s = g
  BY <1>9 DEF g, f, e, v
<1> HIDE DEF s
<1>15. n = 4 + R + B /\ n <= Len(w) /\ SubSeq(w, 1, n) = s
  <2>1. n = Len(s)
    BY DEF s
  <2>2. n <= Len(w) /\ SubSeq(w, 1, n) = s
    BY DEF OneMail, s
  <2>3. QED
    BY <1>3, <1>13, <1>14, <2>1, <2>2
<1> HIDE DEF n
<1>16. \A i \in 1..n : w[i] = s[i]
  <2>1. n \in 0..Len(w)
    BY <1>1, <1>3, <1>15
  <2>2. \A i \in 1..n : w[i] \in Line
    BY <1>1, <2>1, ElementOfSeq
  <2>3. n - 1 + 1 = n /\ \A i \in 1..n : 1 + i - 1 = i
    BY <2>1
  <2>4. \A i \in 1..n - 1 + 1 : SubSeq(w, 1, n)[i] = w[1 + i - 1]
    BY <2>1, <2>2, SubSeqProperties
  <2>5. QED
    BY <1>15, <2>3, <2>4
<1>17. \A i \in 1..3 + R + B : w[i] = f[i]
  <2>1. \A i \in 1..3 + R + B : i \in 1..n
    BY <1>3, <1>15
  <2>2. QED
    BY <1>13, <1>14, <1>16, <2>1
<1>18. \A i \in 1..3 + R : w[i] = e[i]
  <2>1. \A i \in 1..3 + R : i \in 1..3 + R + B
    BY <1>3
  <2>2. QED
    BY <1>12, <1>17, <2>1
<1>19. w[1] = Cmd("HELO", "host") /\ w[2] = Cmd("MAIL", m.from) /\ w[3 + R] = Cmd("DATA", NoArg)
  <2>1. 1 \in 1..3 + R /\ 2 \in 1..3 + R /\ 3 + R \in 1..3 + R
    BY <1>3
  <2>2. w[1] = e[1] /\ w[2] = e[2] /\ w[3 + R] = e[3 + R]
    BY <1>18, <2>1
  <2>3. QED
    BY <1>6, <1>11, <2>2 DEF q
<1>20. \A i \in 1..R : w[2 + i] = Cmd("RCPT", m.rcpts[i])
  <2>1. \A i \in 1..R : 2 + i \in 1..3 + R
    BY <1>3
  <2>2. QED
    BY <1>7, <1>11, <1>18, <2>1
<1>21. \A i \in 1..B : w[3 + R + i] = b[i]
  <2>1. \A i \in 1..B : 3 + R + i \in 1..3 + R + B
    BY <1>3
  <2>2. QED
    BY <1>12, <1>17, <2>1
<1>22. w[4 + R + B] = Dot
  <2>1. 4 + R + B \in 1..n
    BY <1>3, <1>15
  <2>2. QED
    BY <1>13, <1>14, <1>16, <2>1
<1>23. \A i \in 5 + R + B..Len(w) : Mild(w[i].verb)
  <2>1. n + 1 = 5 + R + B
    BY <1>3, <1>15
  <2>2. \A i \in n + 1..Len(w) : w[i].verb \notin {"MAIL", "XTRAN"}
    BY DEF OneMail, n
  <2>3. QED
    BY <2>1, <2>2 DEF Mild
<1>24. Len(MailScript(m)) = 4 + R + B /\ 4 + R + B <= Len(w)
  BY <1>15 DEF n
<1>25. ScriptIs(w, m, R, B)
  BY <1>1, <1>2, <1>3, <1>4, <1>19, <1>20, <1>21, <1>22, <1>23, <1>24 DEF ScriptIs, b, R, B
<1>26. QED
  BY <1>25 DEF R, B

-----------------------------------------------------------------------------
(* The parsers on what is left of a script.                                *)

\* The parser takes a line that ends as its client ended it.
LEMMA TakesLine ==
  ASSUME NEW b \in Seq(Token), Len(b) >= 2, NEW t \in Line, b[1] = t, b[2] = LF,
         NEW argless, t.arg # NoArg \/ t.verb \in argless
  PROVE  request_consume(request_parser_init, b, argless)
           = [p |-> [st |-> "done", req |-> t, data |-> <<>>], rest |-> After(b, 2)]
<1> DEFINE p0 == request_parser_init
           S == {i \in 1..Len(b) : b[i] # LF} \cup {Len(b) + 1}
           p2 == ReadHead(p0, t, argless)
<1>1. Len(b) \in Nat /\ Len(b) >= 2
  BY LenProperties
<1>2. t # LF
  BY DEF Line, LF, Verb, ValidCommands, Unknown
<1>3. FirstHead(b) = 1
  <2>1. S \in SUBSET Nat /\ 1 \in S /\ \A i \in S : i >= 1
    BY <1>1, <1>2
  <2>2. Min(S) \in S /\ Min(S) <= 1
    BY <2>1, MinOfNats
  <2>3. Min(S) = 1
    BY <2>1, <2>2
  <2>4. QED
    BY <2>3 DEF FirstHead
<1>4. p0 = [st |-> "verb", req |-> [verb |-> "", arg |-> NoArg], data |-> <<>>]
  BY DEF request_parser_init, EmptyRequest
<1>5. t = [verb |-> t.verb, arg |-> t.arg]
  BY DEF Line
<1>6. p2 = [st |-> "cr", req |-> t, data |-> <<>>]
  <2>1. (IF p0.req.verb = "" THEN t.verb ELSE Unknown) = t.verb
    BY <1>4
  <2>2. (IF t.arg # NoArg \/ t.verb \in argless THEN "cr" ELSE "error") = "cr"
    OBVIOUS
  <2> HIDE DEF p0
  <2>3. p2 = [p0 EXCEPT !.st = "cr", !.req = [verb |-> t.verb, arg |-> t.arg]]
    BY <2>1, <2>2 DEF ReadHead
  <2>4. QED
    BY <1>4, <1>5, <2>3
<1>7. ReadLF(p2, LF) = [st |-> "done", req |-> t, data |-> <<>>]
  BY <1>6 DEF ReadLF
<1>k. b[1] = t
  OBVIOUS
<1> HIDE DEF p0, p2
<1>8. request_consume(p0, b, argless) = [p |-> ReadLF(p2, b[1 + 1]), rest |-> After(b, 1 + 1)]
  <2>1. p0.st # "cr" /\ p2.st # "error"
    BY <1>4, <1>6
  <2>0. 1 <= Len(b) /\ 1 # Len(b) /\ ~(1 > Len(b))
    BY <1>1
  <2> DEFINE h == FirstHead(b)
             p1 == IF h = 1 THEN p0 ELSE [p0 EXCEPT !.req.verb = Unknown]
             x == ReadHead(p1, b[h], argless)
  <2>2. h = 1 /\ p1 = p0 /\ x = p2
    BY <1>3, <1>k DEF p2
  <2>3. request_consume(p0, b, argless) =
          CASE p0.st = "cr" -> [p |-> ReadLF(p0, b[1]), rest |-> After(b, 1)]
            [] p0.st # "cr" /\ h > Len(b) -> [p |-> p1, rest |-> <<>>]
            [] p0.st # "cr" /\ h <= Len(b) /\ (x.st = "error" \/ h = Len(b)) ->
                 [p |-> x, rest |-> After(b, h)]
            [] OTHER -> [p |-> ReadLF(x, b[h + 1]), rest |-> After(b, h + 1)]
    BY DEF request_consume
  <2> HIDE DEF h, p1, x, p0
  <2>4. ~(h > Len(b)) /\ ~(x.st = "error" \/ h = Len(b)) /\ p0.st # "cr"
    BY <2>0, <2>1, <2>2
  <2>5. request_consume(p0, b, argless) = [p |-> ReadLF(x, b[h + 1]), rest |-> After(b, h + 1)]
    BY <2>3, <2>4
  <2>6. QED
    BY <2>2, <2>5
<1>9. request_consume(p0, b, argless) = [p |-> [st |-> "done", req |-> t, data |-> <<>>], rest |-> After(b, 2)]
  <2>1. 1 + 1 = 2 /\ b[2] = LF
    OBVIOUS
  <2>2. QED
    BY <1>7, <1>8, <2>1
<1>10. QED
  BY <1>9 DEF p0

\* What a mail's body is on the wire.
LEMMA TextIs ==
  ASSUME NEW w, NEW m, NEW R, NEW B, ScriptIs(w, m, R, B), NEW x, x = Left(w, 3 + R)
  PROVE  /\ x \in Seq(Token) /\ Len(x) \in Nat /\ Len(x) >= 2 * B + 2
         /\ SubSeq(x, 1, 2 * B - 1) = TextOf(m)
         /\ \A a \in 1..B + 1 : x[2 * a - 1] = w[3 + R + a] /\ x[2 * a] = LF
<1> DEFINE n == Len(w) - (3 + R)
           y == Wire(m.body)
           e == 2 * B - 1
<1>1. /\ w \in Seq(Line) /\ m.body \in Seq(Line) /\ R \in Nat /\ B \in Nat /\ B >= 1 /\ B = Len(m.body)
      /\ Len(w) \in Nat /\ 4 + R + B <= Len(w) /\ \A i \in 1..B : w[3 + R + i] = m.body[i]
  BY DEF ScriptIs
<1>2. n \in Nat /\ n >= B + 1 /\ 3 + R \in 0..Len(w) /\ e \in Nat /\ e < 2 * B
  <2> DEFINE l == Len(w)
  <2>1. R \in Nat /\ B \in Nat /\ B >= 1 /\ l \in Nat /\ 4 + R + B <= l /\ n = l - (3 + R) /\ e = 2 * B - 1
    BY <1>1
  <2> HIDE DEF l, n, e
  <2>2. n \in Nat /\ n >= B + 1 /\ 3 + R \in 0..l /\ e \in Nat /\ e < 2 * B
    BY <2>1
  <2>3. QED
    BY <2>2 DEF l
<1>3. /\ x \in Seq(Token) /\ Len(x) = 2 * n
      /\ \A a \in 1..n : x[2 * a - 1] = w[3 + R + a] /\ x[2 * a] = LF
  BY <1>1, <1>2, LeftIs
<1>4. /\ y \in Seq(Token) /\ Len(y) = 2 * B
      /\ \A a \in 1..B : y[2 * a - 1] = m.body[a] /\ y[2 * a] = LF
  BY <1>1, WireIs
<1> HIDE DEF n, y
<1>5. ASSUME NEW i \in 1..2 * B PROVE x[i] = y[i]
  <2>1. PICK a \in 1..B : i = 2 * a - 1 \/ i = 2 * a
    BY <1>1, OddOrEven
  <2>2. a \in 1..n
    BY <1>1, <1>2, <2>1
  <2>3. QED
    BY <1>1, <1>3, <1>4, <2>1, <2>2
<1> HIDE DEF e
<1>6. Len(x) \in Nat /\ Len(x) >= 2 * B + 2 /\ e \in 0..Len(x) /\ e \in 0..Len(y)
  <2> DEFINE p == Len(x)
             q == Len(y)
  <2>1. B \in Nat /\ n \in Nat /\ n >= B + 1 /\ e \in Nat /\ e < 2 * B /\ p = 2 * n /\ q = 2 * B
    BY <1>1, <1>2, <1>3, <1>4
  <2> HIDE DEF p, q
  <2>2. p \in Nat /\ p >= 2 * B + 2 /\ e \in 0..p /\ e \in 0..q
    BY <2>1
  <2>3. QED
    BY <2>2 DEF p, q
<1>7. SubSeq(x, 1, e) = SubSeq(y, 1, e)
  <2>1. /\ \A i \in 1..e : x[i] \in Token /\ y[i] \in Token /\ x[i] = y[i]
        /\ e \in Nat
    <3>1. \A i \in 1..e : i \in 1..Len(x) /\ i \in 1..Len(y) /\ i \in 1..2 * B
      BY <1>2, <1>4, <1>6
    <3>2. QED
      BY <1>2, <1>3, <1>4, <1>5, <3>1, ElementOfSeq
  <2>2. /\ SubSeq(x, 1, e) \in Seq(Token) /\ SubSeq(y, 1, e) \in Seq(Token)
        /\ Len(SubSeq(x, 1, e)) = e /\ Len(SubSeq(y, 1, e)) = e
        /\ \A i \in 1..e : SubSeq(x, 1, e)[i] = x[i]
        /\ \A i \in 1..e : SubSeq(y, 1, e)[i] = y[i]
    <3>1. e - 1 + 1 = e /\ \A i \in 1..e : 1 + i - 1 = i
      BY <2>1
    <3>2. (IF 1 <= e THEN e - 1 + 1 ELSE 0) = e
      BY <2>1
    <3>3. /\ SubSeq(x, 1, e) \in Seq(Token) /\ Len(SubSeq(x, 1, e)) = IF 1 <= e THEN e - 1 + 1 ELSE 0
          /\ \A i \in 1..e - 1 + 1 : SubSeq(x, 1, e)[i] = x[1 + i - 1]
      BY <2>1, SubSeqProperties
    <3>4. /\ SubSeq(y, 1, e) \in Seq(Token) /\ Len(SubSeq(y, 1, e)) = IF 1 <= e THEN e - 1 + 1 ELSE 0
          /\ \A i \in 1..e - 1 + 1 : SubSeq(y, 1, e)[i] = y[1 + i - 1]
      BY <2>1, SubSeqProperties
    <3>5. QED
      BY <3>1, <3>2, <3>3, <3>4
  <2>3. QED
    BY <2>1, <2>2, SeqEqual
<1>8. SubSeq(y, 1, e) = TextOf(m)
  BY <1>1 DEF TextOf, y, e
<1>9. \A a \in 1..B + 1 : a \in 1..n
  BY <1>1, <1>2
<1>10. QED
  BY <1>3, <1>6, <1>7, <1>8, <1>9 DEF e

\* A parser that ends with its data.
LEMMA DoneParser ==
  ASSUME NEW p \in Parser, NEW x
  PROVE  [p EXCEPT !.data = x, !.st = "done"] = [st |-> "done", req |-> p.req, data |-> x]
<1> DEFINE q == [st |-> p.st, req |-> p.req, data |-> x]
<1>1. [p EXCEPT !.data = x] = q
  BY DEF Parser
<1>2. [q EXCEPT !.st = "done"] = [st |-> "done", req |-> p.req, data |-> x]
  OBVIOUS
<1> HIDE DEF q
<1>3. [p EXCEPT !.data = x, !.st = "done"] = [[p EXCEPT !.data = x] EXCEPT !.st = "done"]
  OBVIOUS
<1>4. QED
  BY <1>1, <1>2, <1>3, Zenon

\* The parser takes the whole body of a mail, up to its terminator and no further.
LEMMA TakesBody ==
  ASSUME NEW w, NEW m, NEW R, NEW B, ScriptIs(w, m, R, B)
  PROVE  request_consume_data(request_parser_data_init, Left(w, 3 + R))
           = [p |-> [st |-> "done", req |-> EmptyRequest, data |-> TextOf(m)], rest |-> Left(w, 4 + R + B)]
<1> DEFINE b == Left(w, 3 + R)
           i == 2 * B + 1
           p0 == request_parser_data_init
           D == Terminators(b)
<1>1. /\ w \in Seq(Line) /\ R \in Nat /\ B \in Nat /\ B >= 1 /\ Len(w) \in Nat /\ 4 + R + B <= Len(w)
      /\ \A k \in 1..B : w[3 + R + k] = m.body[k] /\ m.body[k] # Dot
      /\ w[4 + R + B] = Dot
  BY DEF ScriptIs
<1>2. /\ b \in Seq(Token) /\ Len(b) \in Nat /\ Len(b) >= 2 * B + 2
      /\ SubSeq(b, 1, 2 * B - 1) = TextOf(m)
      /\ \A a \in 1..B + 1 : b[2 * a - 1] = w[3 + R + a] /\ b[2 * a] = LF
  BY TextIs
<1>3. After(b, 2 * (B + 1)) = Left(w, 4 + R + B)
  <2>1. 3 + R \in Nat /\ B + 1 \in Nat /\ (3 + R) + (B + 1) = 4 + R + B
    BY <1>1
  <2>2. QED
    BY <1>1, <2>1, LeftNext
<1> HIDE DEF b
<1>4. b[i] = Dot /\ b[i - 1] = LF /\ b[i + 1] = LF
  <2>1. /\ B + 1 \in 1..B + 1 /\ B \in 1..B + 1 /\ 2 * (B + 1) - 1 = i /\ 2 * B = i - 1 /\ 2 * (B + 1) = i + 1
        /\ 3 + R + (B + 1) = 4 + R + B
    BY <1>1
  <2>2. b[2 * (B + 1) - 1] = w[3 + R + (B + 1)] /\ b[2 * (B + 1)] = LF /\ b[2 * B] = LF
    BY <1>2, <2>1
  <2>3. QED
    BY <1>1, <2>1, <2>2
<1>5. i \in Nat /\ i >= 3 /\ i < Len(b) /\ i - 2 = 2 * B - 1 /\ i + 1 = 2 * (B + 1) /\ i \in 2..Len(b)
  BY <1>1, <1>2
<1>6. i \in D
  BY <1>4, <1>5 DEF Terminators
<1>7. ASSUME NEW k \in D PROVE ~(k < i)
  <2>1. SUFFICES ASSUME k < i PROVE FALSE
    OBVIOUS
  <2>2. k \in 2..Len(b) /\ b[k] = Dot
    BY DEF Terminators
  <2>3. B \in Nat /\ k \in 1..2 * B
    BY <1>1, <2>1, <2>2
  <2>4. PICK a \in 1..B : k = 2 * a - 1 \/ k = 2 * a
    BY <2>3, OddOrEven
  <2>5. a \in 1..B + 1
    BY <1>1, <2>4
  <2>6. b[2 * a - 1] # Dot /\ b[2 * a] = LF
    BY <1>1, <1>2, <2>4, <2>5
  <2>7. LF # Dot
    BY DEF LF, Dot
  <2>8. QED
    BY <2>2, <2>4, <2>6, <2>7
<1>8. Min(D) = i
  <2>1. D \in SUBSET Nat
    BY <1>2 DEF Terminators
  <2>2. Min(D) \in D /\ Min(D) <= i
    BY <1>6, <2>1, MinOfNats
  <2>3. ~(Min(D) < i)
    BY <1>7, <2>2
  <2>4. QED
    BY <1>5, <2>1, <2>2, <2>3
<1> HIDE DEF i, D
<1>9. request_consume_data(p0, b) = [p |-> [p0 EXCEPT !.data = SubSeq(b, 1, i - 2), !.st = "done"],
                                     rest |-> After(b, i + 1)]
  <2>1. D # {} /\ i # 2 /\ i # Len(b) /\ i < Len(b) /\ b[i + 1] = LF
    BY <1>2, <1>4, <1>5, <1>6
  <2>2. request_consume_data(p0, b) =
          [p |-> [p0 EXCEPT !.data = SubSeq(b, 1, IF i = 2 THEN 2 ELSE i - 2),
                            !.st = CASE i = Len(b) -> "cr"
                                     [] i < Len(b) /\ b[i + 1] = LF -> "done"
                                     [] OTHER -> "error"],
           rest |-> After(b, i + 1)]
    BY <1>8, <2>1 DEF request_consume_data, D
  <2>3. (IF i = 2 THEN 2 ELSE i - 2) = i - 2
        /\ (CASE i = Len(b) -> "cr" [] i < Len(b) /\ b[i + 1] = LF -> "done" [] OTHER -> "error") = "done"
    BY <2>1
  <2>4. QED
    BY <2>2, <2>3
<1>10. p0 = [st |-> "body", req |-> EmptyRequest, data |-> <<>>]
  BY DEF request_parser_data_init
<1> HIDE DEF p0
<1>11. request_consume_data(p0, b) = [p |-> [st |-> "done", req |-> EmptyRequest, data |-> TextOf(m)],
                                      rest |-> Left(w, 4 + R + B)]
  <2>1. SubSeq(b, 1, i - 2) = TextOf(m) /\ After(b, i + 1) = Left(w, 4 + R + B)
    <3>1. i - 2 = 2 * B - 1 /\ i + 1 = 2 * (B + 1)
      BY <1>5
    <3>2. After(b, 2 * (B + 1)) = Left(w, 4 + R + B)
      BY <1>3 DEF b
    <3>3. SubSeq(b, 1, 2 * B - 1) = TextOf(m)
      BY <1>2
    <3>4. QED
      BY <3>1, <3>2, <3>3
  <2> DEFINE x == SubSeq(b, 1, i - 2)
             y == After(b, i + 1)
  <2>2. request_consume_data(p0, b) = [p |-> [p0 EXCEPT !.data = x, !.st = "done"], rest |-> y]
    BY <1>9
  <2> HIDE DEF x, y
  <2>3. [p0 EXCEPT !.data = x, !.st = "done"] = [st |-> "done", req |-> EmptyRequest, data |-> x]
    <3> DEFINE e == EmptyRequest
    <3>1. p0 = [st |-> "body", req |-> e, data |-> <<>>]
      BY <1>10
    <3>2. p0 \in Parser
      BY EmptySeq DEF p0, request_parser_data_init, EmptyRequest, Parser, Request, Arg, OtherArg
    <3>4. p0.st = "body" /\ p0.req = e /\ p0.data = <<>>
      BY <3>1
    <3> HIDE DEF e
    <3>5. [p0 EXCEPT !.data = x, !.st = "done"] = [st |-> "done", req |-> e, data |-> x]
      BY <3>2, <3>4, DoneParser
    <3>3. QED
      BY <3>5 DEF e
  <2>4. x = TextOf(m) /\ y = Left(w, 4 + R + B)
    BY <2>1 DEF x, y
  <2>5. QED
    BY <2>2, <2>3, <2>4
<1>12. QED
  BY <1>11 DEF b, p0

-----------------------------------------------------------------------------
(* The dialogue, line by line.                                             *)

\* A session in READ takes one whole line of its script, and answers it.
LEMMA ReadsLine ==
  ASSUME NEW s \in Session, NEW w \in Seq(Line), NEW j \in Nat, j + 1 <= Len(w),
         s.stm = "READ", s.par = request_parser_init, s.rbuf = Left(w, j),
         w[j + 1].arg # NoArg \/ w[j + 1].verb \in Argless("READ"), w[j + 1].verb # "QUIT"
  PROVE  LET u == request_actual_read(s)
         IN  /\ u.stm = "WRITE" /\ u.data = Process(s.data, w[j + 1], registry).data
             /\ u.rbuf = Left(w, j + 1) /\ u.temp_path = s.temp_path /\ u.tmp = s.tmp
             /\ u.new = s.new /\ u.output = s.output
<1> DEFINE t == w[j + 1]
           b == Left(w, j)
           q == [st |-> "done", req |-> t, data |-> <<>>]
           x == Left(w, j + 1)
           v == [[s EXCEPT !.par = q, !.rbuf = x] EXCEPT !.interest = "WRITE"]
           a == Process(s.data, t, registry)
<1>1. Len(w) \in Nat /\ j \in 0..Len(w) /\ 1 \in 1..Len(w) - j /\ Len(w) - j >= 1
  BY LenProperties
<1>2. t \in Line
  <2>1. j + 1 \in 1..Len(w)
    BY <1>1
  <2>2. QED
    BY <2>1, ElementOfSeq
<1>3. b \in Seq(Token) /\ Len(b) >= 2 /\ b[1] = t /\ b[2] = LF /\ After(b, 2) = x
  <2>1. /\ Left(w, j) \in Seq(Token) /\ Len(Left(w, j)) = 2 * (Len(w) - j)
        /\ \A i \in 1..Len(w) - j : Left(w, j)[2 * i - 1] = w[j + i] /\ Left(w, j)[2 * i] = LF
    BY <1>1, LeftIs
  <2>2. 2 * 1 - 1 = 1 /\ 2 * 1 = 2 /\ 2 * (Len(w) - j) >= 2
    BY <1>1
  <2>3. After(Left(w, j), 2 * 1) = Left(w, j + 1)
    BY LeftNext
  <2>4. QED
    BY <1>1, <2>1, <2>2, <2>3
<1> HIDE DEF t, b, x
<1>4. request_consume(s.par, s.rbuf, Argless(s.stm)) = [p |-> q, rest |-> x]
  <2>1. t.arg # NoArg \/ t.verb \in Argless("READ")
    BY DEF t
  <2>2. request_consume(request_parser_init, b, Argless("READ")) = [p |-> q, rest |-> After(b, 2)]
    BY <1>2, <1>3, <2>1, TakesLine
  <2>3. s.rbuf = b
    BY DEF b
  <2>4. QED
    BY <1>3, <2>2, <2>3
<1>5. q \in Parser /\ q.req = t /\ request_is_done(q) /\ x \in Seq(Token)
  <2>1. x \in Seq(Token)
    BY <1>3, AfterType
  <2>2. t \in Request
    BY <1>2 DEF Line, Request
  <2>3. QED
    BY <2>1, <2>2, EmptySeq DEF Parser, request_is_done
<1> HIDE DEF q
<1>6. /\ v.par = q /\ v.rbuf = x /\ v.data = s.data /\ v.temp_path = s.temp_path
      /\ v.tmp = s.tmp /\ v.new = s.new /\ v.output = s.output /\ v \in Session
  BY <1>5 DEF Session
<1>7. request_actual_read(s) = request_process(v)
  <2> HIDE DEF v
  <2>1. request_actual_read(s) = ReadCommand(s)
    BY DEF request_actual_read
  <2> DEFINE r == request_consume(s.par, s.rbuf, Argless(s.stm))
  <2>2. r.p = q /\ r.rest = x
    BY <1>4
  <2>4. ReadCommand(s) = LET y == [s EXCEPT !.par = r.p, !.rbuf = r.rest]
                         IN  IF request_is_done(r.p) THEN request_process([y EXCEPT !.interest = "WRITE"]) ELSE y
    BY DEF ReadCommand
  <2> HIDE DEF r
  <2>5. ReadCommand(s) = request_process(v)
    BY <1>5, <2>2, <2>4, Zenon DEF v
  <2>3. QED
    BY <2>1, <2>5
<1> HIDE DEF v
<1>8. request_process(v) = [v EXCEPT !.data = a.data, !.wbuf = Append(@, a.msg), !.stm = "WRITE"]
  <2>1. ~handle_quit(v.par.req)
    BY <1>5, <1>6 DEF handle_quit, t
  <2>2. Process(v.data, v.par.req, registry) = a
    BY <1>5, <1>6
  <2>3. QED
    BY <2>1, <2>2 DEF request_process
<1> HIDE DEF a
<1> DEFINE u == request_actual_read(s)
<1>9. /\ u.stm = "WRITE" /\ u.data = a.data /\ u.rbuf = x /\ u.temp_path = s.temp_path
      /\ u.tmp = s.tmp /\ u.new = s.new /\ u.output = s.output
  <2>1. u = [v EXCEPT !.data = a.data, !.wbuf = Append(@, a.msg), !.stm = "WRITE"]
    BY <1>7, <1>8
  <2> HIDE DEF u
  <2>2. a.data \in SmtpData /\ Append(v.wbuf, a.msg) \in Seq(Reply)
    <3>1. s.data \in SmtpData /\ t \in Request /\ v.wbuf \in Seq(Reply)
      BY <1>2, <1>6 DEF Session, Line, Request
    <3>2. a.data \in SmtpData /\ a.msg \in Reply
      BY <3>1, ProcessType DEF a
    <3>3. QED
      BY <3>1, <3>2, AppendProperties
  <2> DEFINE y == Append(v.wbuf, a.msg)
             e == a.data
  <2>3. u = [v EXCEPT !.data = e, !.wbuf = y, !.stm = "WRITE"] /\ e \in SmtpData /\ y \in Seq(Reply)
    BY <2>1, <2>2, Zenon
  <2> HIDE DEF e, y
  <2>4. /\ u.stm = "WRITE" /\ u.data = e /\ u.rbuf = v.rbuf /\ u.temp_path = v.temp_path
        /\ u.tmp = v.tmp /\ u.new = v.new /\ u.output = v.output
    BY <1>6, <2>3 DEF Session
  <2>5. QED
    BY <1>6, <2>4 DEF e
<1>10. QED
  BY <1>9 DEF a, t, x

\* One more recipient named.
LEMMA OneMoreNamed ==
  ASSUME NEW x \in Seq(User), NEW i \in 0..Len(x) - 1
  PROVE  /\ SubSeq(x, 1, i) \in Seq(User)
         /\ Append(SubSeq(x, 1, i), x[i + 1]) = SubSeq(x, 1, i + 1)
<1> DEFINE n == i + 1
           y == SubSeq(x, 1, i)
<1>1. Len(x) \in Nat /\ i \in 0..Len(x) /\ n \in 1..Len(x) /\ n - 1 = i /\ 1 \in 1..Len(x)
  BY LenProperties
<1>2. y \in Seq(User) /\ x[n] \in User
  BY <1>1, PrefixType, ElementOfSeq
<1>3. SubSeq(x, 1, n) = SubSeq(x, 1, n - 1) \o <<x[n]>>
  BY <1>1, SubSeqRecursiveSecond
<1>4. Append(y, x[n]) = y \o <<x[n]>>
  BY <1>2, AppendIsConcat
<1>5. QED
  BY <1>1, <1>2, <1>3, <1>4

\* The data of a dialogue, field by field.
Told(d, state, from, rcpts) ==
  d \in SmtpData /\ d.state = state /\ d.mail_from = from /\ d.rcpt_to = rcpts /\ d.user = NoUser

\* Data are told by their fields.
LEMMA ToldIs ==
  ASSUME NEW d, NEW state, NEW from, NEW rcpts, Told(d, state, from, rcpts)
  PROVE  d = [state |-> state, mail_from |-> from, rcpt_to |-> rcpts, user |-> NoUser]
BY DEF Told, SmtpData

\* An answer changes where the dialogue is, and no more.
LEMMA ToldNext ==
  ASSUME NEW d, NEW state, NEW from, NEW rcpts, Told(d, state, from, rcpts),
         NEW next \in SmtpState, NEW msg
  PROVE  Told(Answer(d, next, msg).data, next, from, rcpts)
<1>1. d \in SmtpData /\ d.mail_from = from /\ d.rcpt_to = rcpts /\ d.user = NoUser
  BY DEF Told
<1>2. Answer(d, next, msg).data = [d EXCEPT !.state = next]
  BY DEF Answer
<1>3. QED
  BY <1>1, <1>2 DEF Told, SmtpData

\* The greeting.
LEMMA AnswersHelo ==
  ASSUME NEW d, NEW rcpts, NEW from, Told(d, "EHLO", from, rcpts), NEW r \in Request,
         r.verb = "HELO", r.arg # NoArg
  PROVE  Told(Process(d, r, registry).data, "FROM", from, rcpts)
<1>1. Process(d, r, registry) = handlers_table(d, r, registry) /\ handlers_table(d, r, registry) = handle_helo(d, r)
  <2>1. d.state = "EHLO"
    BY DEF Told
  <2>2. QED
    BY <2>1 DEF Process, handlers_table
<1>2. handle_helo(d, r) = Answer(d, "FROM", "250 helo") /\ "FROM" \in SmtpState
  BY DEF handle_helo, SmtpState
<1>3. QED
  BY <1>1, <1>2, ToldNext

\* The sender.
LEMMA AnswersMail ==
  ASSUME NEW d, NEW rcpts, NEW from, Told(d, "FROM", from, rcpts), NEW r \in Request,
         r.verb = "MAIL", r.arg \in User
  PROVE  Told(Process(d, r, registry).data, "TO", r.arg, rcpts)
<1> DEFINE e == [d EXCEPT !.mail_from = r.arg]
           x == Answer(e, "TO", "250")
           v == handle_xauth(d, r)
           y == Answer(d, "FROM", Refusal(r))
           z == Answer(d, "FROM", "550")
           o == Answer(d, "FROM", "501")
<1>1. Process(d, r, registry) = handlers_table(d, r, registry) /\ handlers_table(d, r, registry) = handle_from(d, r)
  <2>1. d.state = "FROM"
    BY DEF Told
  <2>2. QED
    BY <2>1 DEF Process, handlers_table
<1>2. Told(e, "FROM", r.arg, rcpts) /\ "TO" \in SmtpState
  <2>1. d \in SmtpData
    BY DEF Told
  <2>2. e \in SmtpData /\ e.state = d.state /\ e.mail_from = r.arg /\ e.rcpt_to = d.rcpt_to /\ e.user = d.user
    BY <2>1 DEF SmtpData
  <2> HIDE DEF e
  <2>3. QED
    BY <2>2 DEF Told, SmtpState
<1>3. handle_from(d, r) = CASE r.verb = "XAUTH" -> v
                            [] r.verb \notin {"XAUTH", "MAIL"} -> y
                            [] r.verb = "MAIL" /\ r.arg \in User -> x
                            [] r.verb = "MAIL" /\ r.arg = "remote" -> z
                            [] OTHER -> o
  BY DEF handle_from
<1> HIDE DEF e, x, v, y, z, o
<1>4. "remote" \notin User
  BY UserAssumption DEF OtherArg
<1>5. handle_from(d, r) = x
  BY <1>3, <1>4
<1>6. QED
  BY <1>1, <1>2, <1>5, ToldNext DEF x

\* A recipient, the first or another.
LEMMA AnswersRcpt ==
  ASSUME NEW d, NEW rcpts \in Seq(User), NEW from, NEW st \in {"TO", "DATA"}, Told(d, st, from, rcpts),
         NEW r \in Request, r.verb = "RCPT", r.arg \in User
  PROVE  Told(Process(d, r, registry).data, "DATA", from, Append(rcpts, r.arg))
<1> DEFINE a == Append(rcpts, r.arg)
           e == [d EXCEPT !.rcpt_to = Append(@, r.arg)]
           x == Answer(e, "DATA", "250")
           y == Answer(d, "TO", Refusal(r))
           z == Answer(d, "TO", "553")
           o == Answer(d, "TO", "501")
<1>1. a \in Seq(User)
  BY AppendProperties
<1>2. Told(e, st, from, a) /\ "DATA" \in SmtpState
  <2>1. d \in SmtpData /\ d.rcpt_to = rcpts
    BY DEF Told
  <2>2. e = [d EXCEPT !.rcpt_to = a]
    BY <2>1
  <2> HIDE DEF a, e
  <2>3. e \in SmtpData /\ e.state = d.state /\ e.mail_from = d.mail_from /\ e.rcpt_to = a /\ e.user = d.user
    BY <1>1, <2>1, <2>2 DEF SmtpData
  <2>4. QED
    BY <2>3 DEF Told, SmtpState
<1>3. handle_to(d, r) = CASE r.verb # "RCPT" -> y
                          [] r.verb = "RCPT" /\ r.arg \in User -> x
                          [] r.verb = "RCPT" /\ r.arg = "remote" -> z
                          [] OTHER -> o
  BY DEF handle_to
<1> HIDE DEF a, e, x, y, z, o
<1>4. "remote" \notin User
  BY UserAssumption DEF OtherArg
<1>5. handle_to(d, r) = x
  BY <1>3, <1>4
<1>6. Told(x.data, "DATA", from, a)
  BY <1>2, ToldNext DEF x
<1>7. handle_to(d, r).data.state = "DATA"
  BY <1>5, <1>6 DEF Told
<1>8. Process(d, r, registry) = handlers_table(d, r, registry) /\ handlers_table(d, r, registry) = handle_to(d, r)
  <2>1. d.state \in {"TO", "DATA"}
    BY DEF Told
  <2>2. handle_data(d, r) = handle_to(d, r)
    <3> DEFINE h == handle_to(d, r)
               g == Answer(d, "BODY", "354")
               f == Answer(d, "DATA", "502")
    <3>1. handle_data(d, r) = CASE r.verb = "RCPT" /\ h.data.state = "DATA" -> h
                                [] r.verb = "DATA" -> g
                                [] OTHER -> f
      BY DEF handle_data
    <3>2. h.data.state = "DATA"
      BY <1>7
    <3> HIDE DEF h, g, f
    <3>3. handle_data(d, r) = h
      BY <3>1, <3>2
    <3>4. QED
      BY <3>3 DEF h
  <2>3. Process(d, r, registry) = handlers_table(d, r, registry)
    BY DEF Process
  <2> DEFINE h == handle_to(d, r)
             g == handle_data(d, r)
  <2>4. d.state = "TO" => handlers_table(d, r, registry) = h
    BY DEF handlers_table
  <2>5. d.state = "DATA" => handlers_table(d, r, registry) = g
    BY DEF handlers_table
  <2>6. QED
    BY <2>1, <2>2, <2>3, <2>4, <2>5
<1>9. QED
  BY <1>5, <1>6, <1>8 DEF a

\* The go-ahead for the body.
LEMMA AnswersData ==
  ASSUME NEW d, NEW rcpts, NEW from, Told(d, "DATA", from, rcpts), NEW r \in Request, r.verb = "DATA"
  PROVE  Told(Process(d, r, registry).data, "BODY", from, rcpts)
<1>1. Process(d, r, registry) = handlers_table(d, r, registry) /\ handlers_table(d, r, registry) = handle_data(d, r)
  <2>1. d.state = "DATA"
    BY DEF Told
  <2>2. QED
    BY <2>1 DEF Process, handlers_table
<1>2. handle_data(d, r) = Answer(d, "BODY", "354") /\ "BODY" \in SmtpState
  <2> DEFINE h == handle_to(d, r)
             g == Answer(d, "BODY", "354")
             f == Answer(d, "DATA", "502")
  <2>1. handle_data(d, r) = CASE r.verb = "RCPT" /\ h.data.state = "DATA" -> h
                              [] r.verb = "DATA" -> g
                              [] OTHER -> f
    BY DEF handle_data
  <2> HIDE DEF h, g, f
  <2>2. handle_data(d, r) = g
    BY <2>1
  <2>3. QED
    BY <2>2 DEF g, SmtpState
<1>3. QED
  BY <1>1, <1>2, ToldNext

\* The dialogue before the first reply, or after the j-th of an envelope.
HeardOf(d, m, j) == (j = 0 /\ d = InitData) \/ Heard(d, m, j)

\* Each reply of an envelope, by the fields of the data behind it.
LEMMA HeardFields ==
  ASSUME NEW w, NEW m, NEW R, NEW B, ScriptIs(w, m, R, B), NEW d, NEW j \in Nat
  PROVE  /\ j = 0 => (HeardOf(d, m, j) <=> Told(d, "EHLO", NoUser, <<>>))
         /\ j = 1 => (HeardOf(d, m, j) <=> Told(d, "FROM", NoUser, <<>>))
         /\ \A i \in 0..R : j = 2 + i =>
              (HeardOf(d, m, j) <=> Told(d, IF i = 0 THEN "TO" ELSE "DATA", m.from, SubSeq(m.rcpts, 1, i)))
         /\ j = 3 + R => (HeardOf(d, m, j) <=> Told(d, "BODY", m.from, m.rcpts))
         /\ HeardOf(d, m, j) => j <= 3 + R
<1>1. m.from \in User /\ m.rcpts \in Seq(User) /\ R = Len(m.rcpts) /\ R \in Nat
  BY DEF ScriptIs
<1>2. \A i \in 0..R : SubSeq(m.rcpts, 1, i) \in Seq(User)
  BY <1>1, PrefixType
<1>3. <<>> \in Seq(User)
  BY EmptySeq
<1>4. Told(d, "EHLO", NoUser, <<>>) <=> d = InitData
  <2> DEFINE e == <<>>
  <2>1. InitData = [state |-> "EHLO", mail_from |-> NoUser, rcpt_to |-> e, user |-> NoUser] /\ e \in Seq(User)
    BY <1>3 DEF InitData
  <2> HIDE DEF e
  <2>2. Told(d, "EHLO", NoUser, e) <=> d = InitData
    BY <2>1, ToldIs DEF Told, SmtpData, SmtpState
  <2>3. QED
    BY <2>2 DEF e
<1>5. Told(d, "FROM", NoUser, <<>>) <=> d = [InitData EXCEPT !.state = "FROM"]
  <2>1. [InitData EXCEPT !.state = "FROM"] = [state |-> "FROM", mail_from |-> NoUser, rcpt_to |-> <<>>, user |-> NoUser]
    BY DEF InitData
  <2>2. QED
    BY <1>3, <2>1, ToldIs DEF Told, SmtpData, SmtpState
<1>6. ASSUME NEW i \in 0..R
      PROVE  Told(d, IF i = 0 THEN "TO" ELSE "DATA", m.from, SubSeq(m.rcpts, 1, i)) <=> d = Named(m, i)
  <2> DEFINE x == SubSeq(m.rcpts, 1, i)
             st == IF i = 0 THEN "TO" ELSE "DATA"
  <2>1. x \in Seq(User) /\ st \in SmtpState /\ Named(m, i) = [state |-> st, mail_from |-> m.from, rcpt_to |-> x, user |-> NoUser]
    BY <1>2 DEF SmtpState, Named
  <2> HIDE DEF x, st
  <2>2. Told(d, st, m.from, x) <=> d = Named(m, i)
    BY <1>1, <2>1, ToldIs DEF Told, SmtpData
  <2>3. QED
    BY <2>2 DEF x, st
<1>7. Told(d, "BODY", m.from, m.rcpts) <=> d = Complete(m)
  BY <1>1, ToldIs DEF Told, SmtpData, SmtpState, Complete
<1>8. /\ j = 0 => (HeardOf(d, m, j) <=> d = InitData)
      /\ j = 1 => (HeardOf(d, m, j) <=> d = [InitData EXCEPT !.state = "FROM"])
      /\ \A i \in 0..R : j = 2 + i => (HeardOf(d, m, j) <=> d = Named(m, i))
      /\ j = 3 + R => (HeardOf(d, m, j) <=> d = Complete(m))
      /\ HeardOf(d, m, j) => j <= 3 + R
  <2> DEFINE e == [InitData EXCEPT !.state = "FROM"]
             n(i) == Named(m, i)
             z == Complete(m)
             h == HeardOf(d, m, j)
  <2>1. h <=> \/ j = 0 /\ d = InitData
              \/ j = 1 /\ d = e
              \/ \E i \in 0..R : j = 2 + i /\ d = n(i)
              \/ j = 3 + R /\ d = z
    BY <1>1, Zenon DEF HeardOf, Heard
  <2> HIDE DEF e, n, z, h
  <2>2. /\ j = 0 => (h <=> d = InitData)
        /\ j = 1 => (h <=> d = e)
        /\ j = 3 + R => (h <=> d = z)
        /\ h => j <= 3 + R
    BY <1>1, <2>1
  <2>3. ASSUME NEW i \in 0..R, j = 2 + i
        PROVE  h <=> d = n(i)
    <3>1. j # 0 /\ j # 1 /\ j # 3 + R /\ \A k \in 0..R : j = 2 + k => k = i
      BY <1>1, <2>3
    <3>2. QED
      BY <2>1, <2>3, <3>1, Zenon
  <2>4. QED
    BY <2>2, <2>3 DEF e, n, z, h
<1>9. QED
  BY <1>4, <1>5, <1>6, <1>7, <1>8

\* An envelope's next line is answered as the client expects, and none of its replies
\* but the last begins a body.
LEMMA HeardNext ==
  ASSUME NEW w, NEW m, NEW R, NEW B, ScriptIs(w, m, R, B), NEW d, NEW j \in 0..2 + R,
         HeardOf(d, m, j)
  PROVE  /\ w[j + 1].arg # NoArg \/ w[j + 1].verb \in Argless("READ")
         /\ w[j + 1].verb # "QUIT"
         /\ HeardOf(Process(d, w[j + 1], registry).data, m, j + 1)
         /\ d.state # "BODY" /\ d.state \notin AdminState
<1>1. /\ m.from \in User /\ m.rcpts \in Seq(User) /\ R = Len(m.rcpts) /\ R \in Nat /\ R >= 1
      /\ w[1] = Cmd("HELO", "host") /\ w[2] = Cmd("MAIL", m.from)
      /\ \A i \in 1..R : w[2 + i] = Cmd("RCPT", m.rcpts[i])
      /\ w[3 + R] = Cmd("DATA", NoArg)
  BY DEF ScriptIs
<1>2. \A u \in User : u # NoArg
  BY UserAssumption DEF OtherArg
<1>3. j \in Nat /\ j + 1 \in Nat
  BY <1>1
<1>4. /\ Cmd("HELO", "host") \in Request /\ Cmd("DATA", NoArg) \in Request
      /\ \A u \in User : Cmd("MAIL", u) \in Request /\ Cmd("RCPT", u) \in Request
  BY DEF Cmd, Request, Verb, ValidCommands, Arg, OtherArg
<1> DEFINE t == w[j + 1]
           p == Process(d, t, registry).data
           G == /\ t.arg # NoArg \/ t.verb \in Argless("READ")
                /\ t.verb # "QUIT"
                /\ HeardOf(p, m, j + 1)
                /\ d.state # "BODY" /\ d.state \notin AdminState
<1>5. CASE j = 0
  <2>1. t \in Request /\ t.verb = "HELO" /\ t.arg # NoArg /\ Told(d, "EHLO", NoUser, <<>>) /\ j + 1 = 1
    <3>1. j + 1 = 1 /\ "host" # NoArg
      BY <1>5 DEF NoArg
    <3>2. t = Cmd("HELO", "host")
      BY <1>1, <3>1
    <3>3. HeardOf(d, m, j) => Told(d, "EHLO", NoUser, <<>>)
      BY <1>3, <1>5, HeardFields
    <3> HIDE DEF t
    <3>4. t \in Request
      BY <1>4, <3>2
    <3>5. QED
      BY <3>1, <3>2, <3>3, <3>4 DEF Cmd
  <2> HIDE DEF t
  <2>2. Told(p, "FROM", NoUser, <<>>)
    BY <2>1, AnswersHelo
  <2> HIDE DEF p
  <2>3. HeardOf(p, m, j + 1)
    BY <1>3, <2>1, <2>2, HeardFields
  <2>4. d.state = "EHLO"
    BY <2>1 DEF Told
  <2>5. QED
    BY <2>1, <2>3, <2>4 DEF AdminState, t, p
<1>6. CASE j = 1
  <2>1. t \in Request /\ t.verb = "MAIL" /\ t.arg = m.from /\ Told(d, "FROM", NoUser, <<>>) /\ j + 1 = 2 + 0
    <3>1. j + 1 = 2 /\ j + 1 = 2 + 0
      BY <1>6
    <3>2. t = Cmd("MAIL", m.from)
      BY <1>1, <3>1
    <3>3. HeardOf(d, m, j) => Told(d, "FROM", NoUser, <<>>)
      BY <1>3, <1>6, HeardFields
    <3> HIDE DEF t
    <3>4. t \in Request
      BY <1>1, <1>4, <3>2
    <3>5. QED
      BY <3>1, <3>2, <3>3, <3>4 DEF Cmd
  <2> HIDE DEF t
  <2>2. Told(p, "TO", m.from, <<>>)
    BY <1>1, <2>1, AnswersMail
  <2> HIDE DEF p
  <2>3. HeardOf(p, m, j + 1)
    <3>1. SubSeq(m.rcpts, 1, 0) = <<>> /\ 0 \in 0..R
      BY <1>1, SubSeqEmpty
    <3>2. QED
      BY <1>3, <2>1, <2>2, <3>1, HeardFields
  <2>4. d.state = "FROM"
    BY <2>1 DEF Told
  <2>5. QED
    BY <1>1, <1>2, <2>1, <2>3, <2>4 DEF AdminState, t, p
<1>7. ASSUME NEW i \in 0..R - 1, j = 2 + i
      PROVE  G
  <2> DEFINE k == i + 1
             x == SubSeq(m.rcpts, 1, i)
             st == IF i = 0 THEN "TO" ELSE "DATA"
  <2>1. k \in 1..R /\ k \in 0..R /\ j + 1 = 2 + k /\ k # 0 /\ i \in 0..R
    BY <1>1, <1>7
  <2>2. m.rcpts[k] \in User /\ x \in Seq(User) /\ Append(x, m.rcpts[k]) = SubSeq(m.rcpts, 1, k)
    <3>1. i \in 0..Len(m.rcpts) - 1
      BY <1>1
    <3>2. QED
      BY <1>1, <2>1, <3>1, OneMoreNamed, ElementOfSeq
  <2>3. Told(d, st, m.from, x) /\ st \in {"TO", "DATA"}
    BY <1>3, <1>7, <2>1, HeardFields
  <2> HIDE DEF k, x, st
  <2>4. t \in Request /\ t.verb = "RCPT" /\ t.arg = m.rcpts[k]
    <3>1. t = Cmd("RCPT", m.rcpts[k])
      BY <1>1, <2>1
    <3> HIDE DEF t
    <3>2. t \in Request
      BY <1>4, <2>2, <3>1
    <3>3. QED
      BY <3>1, <3>2 DEF Cmd
  <2> HIDE DEF t
  <2>5. Told(p, "DATA", m.from, SubSeq(m.rcpts, 1, k))
    BY <2>2, <2>3, <2>4, AnswersRcpt
  <2> HIDE DEF p
  <2>6. HeardOf(p, m, j + 1)
    BY <1>3, <2>1, <2>5, HeardFields
  <2>7. QED
    <3>1. d.state \in {"TO", "DATA"}
      BY <2>3 DEF Told
    <3>2. QED
      BY <1>2, <2>2, <2>4, <2>6, <3>1 DEF AdminState, t, p
<1>8. CASE j = 2 + R
  <2>1. R \in 0..R /\ R # 0 /\ SubSeq(m.rcpts, 1, R) = m.rcpts /\ j + 1 = 3 + R
    BY <1>1, <1>8, SubSeqFull
  <2>2. t \in Request /\ t.verb = "DATA" /\ Told(d, "DATA", m.from, m.rcpts)
    <3>1. t = Cmd("DATA", NoArg)
      BY <1>1, <2>1
    <3>2. HeardOf(d, m, j) => Told(d, IF R = 0 THEN "TO" ELSE "DATA", m.from, SubSeq(m.rcpts, 1, R))
      BY <1>3, <1>8, <2>1, HeardFields
    <3> HIDE DEF t
    <3>3. t \in Request
      BY <1>4, <3>1
    <3>4. QED
      BY <2>1, <3>1, <3>2, <3>3 DEF Cmd
  <2> HIDE DEF t
  <2>3. Told(p, "BODY", m.from, m.rcpts)
    BY <2>2, AnswersData
  <2> HIDE DEF p
  <2>4. HeardOf(p, m, j + 1)
    BY <1>3, <2>1, <2>3, HeardFields
  <2>5. QED
    <3>1. d.state = "DATA"
      BY <2>2 DEF Told
    <3>2. QED
      BY <2>2, <2>4, <3>1 DEF AdminState, Argless, t, p
<1>9. j = 0 \/ j = 1 \/ j = 2 + R \/ \E i \in 0..R - 1 : j = 2 + i
  <2>1. SUFFICES ASSUME j # 0, j # 1, j # 2 + R PROVE \E i \in 0..R - 1 : j = 2 + i
    OBVIOUS
  <2> DEFINE i == j - 2
  <2>2. i \in 0..R - 1 /\ j = 2 + i
    BY <1>1, <2>1
  <2>3. QED
    BY <2>2
<1>10. QED
  BY <1>5, <1>6, <1>7, <1>8, <1>9

-----------------------------------------------------------------------------
(* From the first line to the body.                                        *)

\* What a handler leaves of a session's files and of what it has in its memory of them.
SameFiles(u, s) ==
  u.temp_path = s.temp_path /\ u.tmp = s.tmp /\ u.new = s.new /\ u.output = s.output

\* The first line of a script starts the telling.
LEMMA FirstLine ==
  ASSUME NEW s \in Session, NEW k, Silent(k), NEW w \in Scripts, NEW m \in Mails, OneMail(w, m),
         NoMail(s), s.stm = "READ", s.par = request_parser_init, s.data = InitData, s.rbuf = Wire(w)
  PROVE  Telling(request_actual_read(s), k, w, m)
<1> DEFINE R == Len(m.rcpts)
           B == Len(m.body)
           u == request_actual_read(s)
<1>1. ScriptIs(w, m, R, B)
  BY ScriptPlaces
<1> HIDE DEF R, B, u
<1>2. w \in Seq(Line) /\ Len(w) \in Nat /\ R \in Nat /\ 4 + R + B <= Len(w) /\ B \in Nat /\ R = Len(m.rcpts)
  BY <1>1 DEF ScriptIs
<1>3. 0 \in Nat /\ 0 + 1 <= Len(w) /\ 0 \in 0..2 + R /\ 0 + 1 = 1
  BY <1>2
<1>4. s.rbuf = Left(w, 0)
  BY <1>2, LeftWhole
<1>5. HeardOf(s.data, m, 0)
  BY DEF HeardOf
<1>6. /\ w[0 + 1].arg # NoArg \/ w[0 + 1].verb \in Argless("READ")
      /\ w[0 + 1].verb # "QUIT"
      /\ HeardOf(Process(s.data, w[0 + 1], registry).data, m, 0 + 1)
  BY <1>1, <1>3, <1>5, HeardNext
<1>7. /\ u.stm = "WRITE" /\ u.data = Process(s.data, w[0 + 1], registry).data
      /\ u.rbuf = Left(w, 0 + 1) /\ u.temp_path = s.temp_path /\ u.tmp = s.tmp
      /\ u.new = s.new /\ u.output = s.output
  BY <1>2, <1>3, <1>4, <1>6, ReadsLine DEF u
<1>8. HeardOf(u.data, m, 1) /\ u.rbuf = Left(w, 1) /\ 1 \in 1..3 + R
  BY <1>2, <1>3, <1>6, <1>7
<1>9. Heard(u.data, m, 1)
  BY <1>8 DEF HeardOf
<1>10. NoMail(u)
  BY <1>7 DEF NoMail
<1>11. Telling(u, k, w, m)
  BY <1>2, <1>7, <1>8, <1>9, <1>10 DEF Telling
<1>12. QED
  BY <1>11 DEF u

\* A reply within the envelope was sent, and the next line of the script is read.
LEMMA NextLine ==
  ASSUME NEW s \in Session, NEW k, Silent(k), NEW w \in Scripts, NEW m \in Mails, OneMail(w, m),
         NoMail(s), NEW j \in 1..2 + Len(m.rcpts), Heard(s.data, m, j), s.rbuf = Left(w, j),
         NEW opened
  PROVE  Telling(SentAndRead(s, opened), k, w, m)
<1> DEFINE R == Len(m.rcpts)
           B == Len(m.body)
           t == [[s EXCEPT !.wbuf = <<>>, !.interest = "READ"] EXCEPT !.stm = "READ", !.par = request_parser_init]
           u == request_actual_read(t)
<1>1. ScriptIs(w, m, R, B)
  BY ScriptPlaces
<1> HIDE DEF R, B
<1>2. w \in Seq(Line) /\ Len(w) \in Nat /\ R \in Nat /\ 4 + R + B <= Len(w) /\ B \in Nat /\ R = Len(m.rcpts)
  BY <1>1 DEF ScriptIs
<1>3. j \in Nat /\ j + 1 <= Len(w) /\ j \in 0..2 + R /\ j + 1 \in 1..3 + R /\ j \in 0..Len(w) /\ j + 1 # 0
      /\ Len(w) - j >= 1
  BY <1>2
<1>4. HeardOf(s.data, m, j)
  BY DEF HeardOf
<1>5. /\ w[j + 1].arg # NoArg \/ w[j + 1].verb \in Argless("READ")
      /\ w[j + 1].verb # "QUIT"
      /\ HeardOf(Process(s.data, w[j + 1], registry).data, m, j + 1)
      /\ s.data.state # "BODY" /\ s.data.state \notin AdminState
  BY <1>1, <1>3, <1>4, HeardNext
<1>6. request_parser_init \in Parser
  BY EmptySeq DEF request_parser_init, EmptyRequest, Parser, Request, Arg, OtherArg
<1>7. /\ t \in Session /\ t.stm = "READ" /\ t.par = request_parser_init /\ t.rbuf = s.rbuf
      /\ t.data = s.data /\ SameFiles(t, s)
  <2> DEFINE p == request_parser_init
             e == <<>>
  <2>1. p \in Parser /\ e \in Seq(Reply)
    BY <1>6, EmptySeq
  <2> HIDE DEF p, e
  <2>2. /\ t \in Session /\ t.stm = "READ" /\ t.par = p /\ t.rbuf = s.rbuf
        /\ t.data = s.data /\ t.temp_path = s.temp_path /\ t.tmp = s.tmp /\ t.new = s.new
        /\ t.output = s.output
    BY <2>1 DEF Session, StmState, p, e
  <2>3. QED
    BY <2>2 DEF SameFiles, p
<1>8. Sent(s, opened) = t
  BY <1>5 DEF Sent
<1>9. SentAndRead(s, opened) = u
  <2>1. s.rbuf # <<>>
    <3>1. Len(Left(w, j)) = 2 * (Len(w) - j)
      BY <1>2, <1>3, LeftIs
    <3>2. Len(s.rbuf) # 0
      BY <1>2, <1>3, <3>1
    <3>3. QED
      BY <3>2
  <2> HIDE DEF t
  <2>2. QED
    BY <1>7, <1>8, <2>1 DEF SentAndRead
<1> HIDE DEF t
<1>10. /\ u.stm = "WRITE" /\ u.data = Process(s.data, w[j + 1], registry).data
       /\ u.rbuf = Left(w, j + 1) /\ SameFiles(u, s)
  BY <1>2, <1>3, <1>5, <1>7, ReadsLine DEF SameFiles
<1> HIDE DEF u
<1>11. Heard(u.data, m, j + 1)
  BY <1>3, <1>5, <1>10 DEF HeardOf
<1>12. NoMail(u)
  BY <1>10 DEF NoMail, SameFiles
<1>13. Telling(u, k, w, m)
  BY <1>2, <1>3, <1>10, <1>11, <1>12 DEF Telling
<1>14. QED
  BY <1>9, <1>13

\* What is written over less is all there is.
LEMMA OverwriteAll ==
  ASSUME NEW S, NEW old \in Seq(S), NEW new \in Seq(S), Len(old) <= Len(new)
  PROVE  Overwrite(old, new) = new
<1>1. Len(old) \in Nat /\ Len(new) \in Nat /\ Len(old) < Len(new) + 1
  BY LenProperties
<1>2. SubSeq(old, Len(new) + 1, Len(old)) = <<>>
  BY <1>1, SubSeqEmpty
<1>3. QED
  BY <1>2, ConcatEmptySeq DEF Overwrite

\* Arriving at DATA for the first time: the file of the first recipient is opened, and
\* begins with the header.
LEMMA DataInitFirst ==
  ASSUME NEW s \in Session, s.data.rcpt_to # <<>>, s.temp_path = NoUser, s.output = "none",
         NEW opened \in BOOLEAN, ~transform, transform \in BOOLEAN
  PROVE  LET t == request_data_init(s, opened)
             u == s.data.rcpt_to[1]
         IN  /\ t \in Session /\ t.stm = "DATA" /\ t.par = request_parser_data_init /\ t.temp_path = u
             /\ t.tmp = [s.tmp EXCEPT ![u] = IF opened THEN Overwrite(@, <<Header(s.data)>>) ELSE @]
             /\ t.new = s.new /\ t.output = (IF opened THEN "NOOP" ELSE "none") /\ ~t.pipe
             /\ t.data = s.data /\ t.rbuf = s.rbuf
<1> DEFINE u == s.data.rcpt_to[1]
           f == IF opened /\ ~transform THEN Overwrite(s.tmp[u], <<Header(s.data)>>) ELSE s.tmp[u]
           p == IF s.temp_path = NoUser THEN u ELSE s.temp_path
           o == IF opened \/ transform THEN "NOOP" ELSE "none"
           n == IF s.output = "none" THEN s.stale ELSE s.stale + 1
           t == request_data_init(s, opened)
<1>1. u \in User
  <2>1. s.data.rcpt_to # <<>> /\ s.data.rcpt_to \in Seq(User)
    BY DEF Session, SmtpData
  <2>2. QED
    BY <2>1, EmptySeq, ElementOfSeq
<1>2. s.tmp[u] \in File /\ f \in File
  BY <1>1, HeaderType, OverwriteType DEF Session, File
<1>3. p = u /\ o = (IF opened THEN "NOOP" ELSE "none") /\ n \in Nat /\ o \in {"none", "NOOP"}
  BY DEF Session
<1>4. f = IF opened THEN Overwrite(s.tmp[u], <<Header(s.data)>>) ELSE s.tmp[u]
  OBVIOUS
<1>5. request_parser_data_init \in Parser
  BY EmptySeq DEF request_parser_data_init, EmptyRequest, Parser, Request, Arg, OtherArg
<1>6. t = [s EXCEPT !.stm = "DATA", !.par = request_parser_data_init, !.temp_path = p,
                    !.tmp[u] = f, !.stale = n, !.output = o, !.pipe = transform]
  BY DEF request_data_init
<1>7. /\ t \in Session /\ t.stm = "DATA" /\ t.par = request_parser_data_init /\ t.temp_path = u
      /\ t.tmp = [s.tmp EXCEPT ![u] = f]
      /\ t.new = s.new /\ t.output = o /\ ~t.pipe /\ t.data = s.data /\ t.rbuf = s.rbuf
  <2> HIDE DEF u, f, p, o, n, t
  <2>1. [s.tmp EXCEPT ![u] = f] \in [User -> File]
    BY <1>1, <1>2 DEF Session
  <2>2. QED
    BY <1>1, <1>2, <1>3, <1>5, <1>6, <2>1 DEF Session, StmState
<1>8. t.tmp = [s.tmp EXCEPT ![u] = IF opened THEN Overwrite(@, <<Header(s.data)>>) ELSE @]
  <2> HIDE DEF t
  <2>1. QED
    BY <1>4, <1>7
<1>9. QED
  BY <1>3, <1>7, <1>8

\* The reply to DATA was sent: the file is opened, and the whole body read, or there
\* is no file and the session ends.
LEMMA WholeBody ==
  ASSUME NEW s \in Session, NEW k, Silent(k), NEW w \in Scripts, NEW m \in Mails, OneMail(w, m),
         NoMail(s), s.data = Complete(m), s.rbuf = Left(w, 3 + Len(m.rcpts)),
         NEW opened \in BOOLEAN, ~transform, transform \in BOOLEAN
  PROVE  \/ SentAndRead(s, opened).phase = "closed"
         \/ Keeping(SentAndRead(s, opened), k, w, m)
<1> DEFINE R == Len(m.rcpts)
           B == Len(m.body)
           v == [s EXCEPT !.wbuf = <<>>, !.interest = "READ"]
           t == request_data_init(v, opened)
           b == Left(w, 3 + R)
           z == Left(w, 4 + R + B)
           q == [st |-> "done", req |-> EmptyRequest, data |-> TextOf(m)]
           x == [t EXCEPT !.par = q, !.rbuf = z]
           y == [x EXCEPT !.interest = "NOOP", !.output = "WRITE", !.stm = "DATA_WRITE"]
           u == SentAndRead(s, opened)
           f == m.rcpts[1]
<1>1. ScriptIs(w, m, R, B)
  BY ScriptPlaces
<1>2. /\ w \in Seq(Line) /\ Len(w) \in Nat /\ R \in Nat /\ R >= 1 /\ 4 + R + B <= Len(w) /\ B \in Nat
      /\ m.rcpts \in Seq(User) /\ m.from \in User /\ Len(MailScript(m)) = 4 + R + B
  BY <1>1 DEF ScriptIs
<1>3. v \in Session /\ SameFiles(v, s) /\ v.data = Complete(m) /\ v.rbuf = b
  BY EmptySeq DEF Session, SameFiles
<1>4. f \in User /\ m.rcpts # <<>>
  <2>1. 1 \in 1..Len(m.rcpts) /\ Len(m.rcpts) # 0
    BY <1>2
  <2>2. QED
    BY <1>2, <2>1, ElementOfSeq, EmptySeq
<1> HIDE DEF R, B, b, v
<1>5. /\ v.tmp = NoFile /\ v.new = NoFile /\ v.temp_path = NoUser /\ v.output = "none"
      /\ v.data.state = "BODY" /\ v.data.rcpt_to = m.rcpts /\ Header(v.data) = HeadOf(m)
  BY <1>3 DEF NoMail, SameFiles, Complete, Header, HeadOf
<1>6. Overwrite(<<>>, <<HeadOf(m)>>) = <<HeadOf(m)>>
  <2>1. HeadOf(m) \in Cell
    BY <1>2 DEF HeadOf, Cell
  <2> DEFINE h == HeadOf(m)
             n == <<h>>
             e == <<>>
  <2>2. h \in Cell
    BY <2>1
  <2> HIDE DEF h
  <2>3. n \in Seq(Cell) /\ e \in Seq(Cell) /\ Len(e) <= Len(n)
    BY <2>2, EmptySeq
  <2> HIDE DEF n, e
  <2>4. Overwrite(e, n) = n
    BY <2>3, OverwriteAll
  <2>5. QED
    BY <2>4 DEF e, n, h
<1>7. /\ t \in Session /\ t.stm = "DATA" /\ t.par = request_parser_data_init /\ t.temp_path = f
      /\ opened => t.tmp = [NoFile EXCEPT ![f] = <<HeadOf(m)>>]
      /\ t.new = NoFile /\ t.output = (IF opened THEN "NOOP" ELSE "none") /\ ~t.pipe
      /\ t.data = Complete(m) /\ t.rbuf = b
  <2> HIDE DEF t
  <2>1. /\ t \in Session /\ t.stm = "DATA" /\ t.par = request_parser_data_init /\ t.temp_path = v.data.rcpt_to[1]
        /\ t.tmp = [v.tmp EXCEPT ![v.data.rcpt_to[1]] = IF opened THEN Overwrite(@, <<Header(v.data)>>) ELSE @]
        /\ t.new = v.new /\ t.output = (IF opened THEN "NOOP" ELSE "none") /\ ~t.pipe
        /\ t.data = v.data /\ t.rbuf = v.rbuf
    BY <1>3, <1>4, <1>5, DataInitFirst DEF t
  <2> HIDE DEF f
  <2>2. NoFile[f] = <<>>
    BY <1>4 DEF NoFile
  <2>3. v.data.rcpt_to[1] = f
    BY <1>5 DEF f
  <2> DEFINE h == <<HeadOf(m)>>
  <2>4. opened => t.tmp = [NoFile EXCEPT ![f] = h]
    <3>1. Overwrite(NoFile[f], <<Header(v.data)>>) = h
      BY <1>5, <1>6, <2>2
    <3>2. opened => t.tmp = [NoFile EXCEPT ![f] = Overwrite(NoFile[f], <<Header(v.data)>>)]
      BY <1>5, <2>1, <2>3
    <3> HIDE DEF h
    <3>3. QED
      BY <3>1, <3>2
  <2>5. QED
    BY <1>3, <1>5, <2>1, <2>3, <2>4
<1>8. Sent(s, opened) = t
  <2>1. s.data.state = "BODY"
    BY DEF Complete
  <2> DEFINE a == [v EXCEPT !.stm = "ADMIN", !.par = request_parser_init]
             c == [v EXCEPT !.stm = "READ", !.par = request_parser_init]
  <2>2. Sent(s, opened) = CASE s.data.state = "BODY" -> t
                            [] s.data.state \in AdminState -> a
                            [] OTHER -> c
    BY DEF Sent, v
  <2> HIDE DEF t, a, c
  <2>3. "BODY" \notin AdminState
    BY DEF AdminState
  <2>4. QED
    BY <2>1, <2>2, <2>3
<1>9. u = request_actual_read(t) /\ request_actual_read(t) = ReadBody(t)
  <2>1. b # <<>>
    <3>1. 3 + R \in 0..Len(w) /\ Len(w) - (3 + R) >= 1
      BY <1>1, <1>2
    <3>2. Len(Left(w, 3 + R)) = 2 * (Len(w) - (3 + R))
      BY <1>2, <3>1, LeftIs
    <3>3. Len(b) # 0
      BY <1>2, <3>1, <3>2 DEF b
    <3>4. QED
      BY <3>3
  <2> HIDE DEF t
  <2>2. QED
    BY <1>7, <1>8, <2>1 DEF SentAndRead, request_actual_read
<1> HIDE DEF t, u, z, q
<1>10. request_consume_data(t.par, t.rbuf) = [p |-> q, rest |-> z]
  BY <1>1, <1>7, TakesBody DEF b, q, z
<1>11. ReadBody(t) = IF t.output = "none" THEN smtp_done(x) ELSE y
  <2> DEFINE r == request_consume_data(t.par, t.rbuf)
  <2>1. ReadBody(t) = LET a == [t EXCEPT !.par = r.p, !.rbuf = r.rest]
                      IN  IF t.output = "none" THEN smtp_done(a)
                          ELSE [a EXCEPT !.interest = "NOOP", !.output = "WRITE", !.stm = "DATA_WRITE"]
    BY DEF ReadBody
  <2>2. r.p = q /\ r.rest = z
    BY <1>10
  <2> HIDE DEF r
  <2>3. QED
    BY <2>1, <2>2, Zenon
<1>12. q \in Parser /\ z \in Seq(Token)
  <2>1. request_consume_data(t.par, t.rbuf).p \in Parser /\ request_consume_data(t.par, t.rbuf).rest \in Seq(Token)
    BY <1>7, ConsumeDataType DEF Session
  <2>2. QED
    BY <1>10, <2>1
<1>13. x \in Session /\ x.par = q /\ x.rbuf = z /\ x.temp_path = t.temp_path /\ x.tmp = t.tmp
       /\ x.new = t.new /\ x.pipe = t.pipe /\ x.data = t.data
  BY <1>7, <1>12 DEF Session
<1> HIDE DEF x
<1>14. CASE t.output = "none"
  BY <1>9, <1>11, <1>13, <1>14 DEF smtp_done, Session, u
<1>15. CASE t.output # "none"
  <2>1. /\ y.par = q /\ y.rbuf = z /\ y.temp_path = t.temp_path /\ y.tmp = t.tmp
        /\ y.new = t.new /\ y.pipe = t.pipe /\ y.data = t.data /\ y.stm = "DATA_WRITE"
    BY <1>13 DEF Session
  <2>2. opened
    BY <1>7, <1>15
  <2> HIDE DEF y
  <2>3. q.st = "done" /\ q.data = TextOf(m)
    BY DEF q
  <2>4. z = Left(w, Len(MailScript(m)))
    BY <1>2 DEF z
  <2>5. Keeping(y, k, w, m)
    BY <1>7, <2>1, <2>2, <2>3, <2>4 DEF Keeping
  <2>6. QED
    BY <1>9, <1>11, <1>15, <2>5 DEF u
<1>16. QED
  BY <1>14, <1>15 DEF u

-----------------------------------------------------------------------------
(* The end of the body.                                                    *)

\* What a script sends behind its mail is mild.
LEMMA MildBehind ==
  ASSUME NEW w \in Scripts, NEW m \in Mails, OneMail(w, m),
         NEW b, b = Left(w, Len(MailScript(m)))
  PROVE  \A i \in 1..Len(b) : Mild(b[i].verb)
<1> DEFINE R == Len(m.rcpts)
           B == Len(m.body)
           n == 4 + R + B
           l == Len(w) - n
<1>1. ScriptIs(w, m, R, B)
  BY ScriptPlaces
<1> HIDE DEF R, B
<1>2. /\ w \in Seq(Line) /\ Len(w) \in Nat /\ n \in 0..Len(w) /\ l \in Nat /\ Len(MailScript(m)) = n
      /\ \A i \in n + 1..Len(w) : Mild(w[i].verb)
  <2>1. /\ w \in Seq(Line) /\ Len(w) \in Nat /\ 4 + R + B <= Len(w) /\ Len(MailScript(m)) = 4 + R + B
        /\ \A i \in 5 + R + B..Len(w) : Mild(w[i].verb)
        /\ R \in Nat /\ B \in Nat
    BY <1>1, Zenon DEF ScriptIs
  <2>2. n + 1 = 5 + R + B /\ n \in 0..Len(w) /\ l \in Nat
    BY <2>1
  <2>3. QED
    BY <2>1, <2>2
<1> HIDE DEF n
<1>3. /\ Len(b) = 2 * l
      /\ \A a \in 1..l : b[2 * a - 1] = w[n + a] /\ b[2 * a] = LF
  BY <1>2, LeftIs
<1> HIDE DEF l
<1>4. ASSUME NEW i \in 1..Len(b) PROVE Mild(b[i].verb)
  <2>1. PICK a \in 1..l : i = 2 * a - 1 \/ i = 2 * a
    BY <1>2, <1>3, OddOrEven
  <2>2. n + a \in n + 1..Len(w)
    BY <1>2 DEF l
  <2>3. Mild(w[n + a].verb) /\ Mild(LF.verb)
    BY <1>2, <2>2 DEF Mild, LF
  <2>4. QED
    BY <1>3, <2>1, <2>3
<1>5. QED
  BY <1>4

\* The fields a finished body leaves alone, and its copies.
LEMMA FinishedFiles ==
  ASSUME NEW s, Storing(s), NEW failed
  PROVE  LET u == Finished(s, failed)
         IN  u.new = Delivered(s, failed) /\ u.rbuf = s.rbuf /\ u.par.req = EmptyRequest
<1> DEFINE n == Delivered(s, failed)
           v == [s EXCEPT !.new = n, !.interest = "WRITE", !.output = "none"]
           w == clean_request(v)
           a == Process(w.data, w.par.req, registry)
           y == Append(w.wbuf, a.msg)
           t == [w EXCEPT !.data = a.data, !.wbuf = y, !.stm = "WRITE"]
<1>1. s \in Session /\ s.data.state = "BODY" /\ s.wbuf = <<>> /\ s.temp_path \in User
  BY WrittenStoring DEF Storing, SessionInv, BodyOK
<1>2. n \in [User -> File]
  BY <1>1, DeliveredType
<1>3. v \in Session /\ v.new = n /\ v.rbuf = s.rbuf
  <2> HIDE DEF n
  <2>1. QED
    BY <1>1, <1>2 DEF Session
<1>4. w \in Session /\ w.par.req = EmptyRequest /\ w.wbuf = <<>> /\ w = Cleaned(s, failed)
  <2>1. w = Cleaned(s, failed)
    BY DEF Cleaned
  <2>2. QED
    BY <1>1, <2>1, CleanedType
<1>5. w.new = n /\ w.rbuf = s.rbuf
  <2> DEFINE p == [v.par EXCEPT !.req = EmptyRequest]
             d == [v.data EXCEPT !.mail_from = NoUser, !.rcpt_to = <<>>]
  <2>1. v.par \in Parser /\ v.data \in SmtpData
    BY <1>3 DEF Session
  <2> HIDE DEF v, n, w
  <2>2. w = [v EXCEPT !.par = p, !.data = d]
    BY <1>3, <2>1 DEF clean_request, Session, SmtpData, Parser, w
  <2>3. p \in Parser /\ d \in SmtpData
    <3>1. EmptyRequest \in Request
      BY DEF EmptyRequest, Request, Arg, OtherArg
    <3>2. QED
      BY <2>1, <3>1, EmptySeq DEF Parser, SmtpData
  <2> HIDE DEF p, d
  <2>4. QED
    BY <1>3, <2>2, <2>3 DEF Session
<1>6. Finished(s, failed) = request_process(w)
  BY DEF Finished
<1> HIDE DEF v, n, w
<1>7. a.data \in SmtpData /\ y \in Seq(Reply)
  <2>1. w.data \in SmtpData /\ w.par.req \in Request /\ w.wbuf \in Seq(Reply)
    BY <1>4 DEF Session, Parser
  <2>2. a.data \in SmtpData /\ a.msg \in Reply
    BY <2>1, ProcessType
  <2>3. QED
    BY <2>1, <2>2, AppendProperties
<1>8. request_process(w) = t
  <2>1. ~handle_quit(w.par.req)
    <3>1. EmptyRequest.verb = ""
      BY DEF EmptyRequest
    <3>2. QED
      BY <1>4, <3>1 DEF handle_quit
  <2>2. QED
    BY <2>1 DEF request_process
<1> DEFINE e == a.data
<1>9. t = [w EXCEPT !.data = e, !.wbuf = y, !.stm = "WRITE"] /\ e \in SmtpData
  BY <1>7
<1> HIDE DEF a, y, e, t
<1>10. t.new = w.new /\ t.rbuf = w.rbuf /\ t.par = w.par
  BY <1>4, <1>7, <1>9 DEF Session
<1>11. QED
  BY <1>4, <1>5, <1>6, <1>8, <1>10 DEF n

\* The end of a mail: its file is in new/ of every recipient, and what follows is mild.
LEMMA Delivers ==
  ASSUME NEW s, Storing(s), NEW k, NEW w \in Scripts, NEW m \in Mails, OneMail(w, m),
         Keeping(s, k, w, m)
  PROVE  LET u == Finished(Written(s), {})
         IN  Ended(u, k) /\ \A v \in Range(m.rcpts) : u.new[v] = FileOf(m)
<1> DEFINE f == m.rcpts[1]
           h == HeadOf(m)
           y == TextOf(m)
           F == FileOf(m)
           x == Written(s)
           u == Finished(x, {})
<1>1. /\ s \in Session /\ s.data = Complete(m) /\ s.par.data = y /\ s.temp_path = f /\ s.new = NoFile
      /\ s.tmp = [NoFile EXCEPT ![f] = <<h>>] /\ ~s.pipe /\ s.rbuf = Left(w, Len(MailScript(m)))
      /\ Silent(k)
  BY DEF Storing, Keeping
<1>2. m.rcpts \in Seq(User) /\ m.rcpts # <<>> /\ m.from \in User
  BY MailAssumption
<1>3. f \in User /\ \A v \in Range(m.rcpts) : v \in User
  <2>1. 1 \in 1..Len(m.rcpts)
    BY <1>2, EmptySeq, LenProperties
  <2>2. QED
    BY <1>2, <2>1, ElementOfSeq, RangeOfSeq
<1>4. s.data.rcpt_to = m.rcpts /\ Header(s.data) = h
  BY <1>1 DEF Complete, Header, HeadOf
<1>5. F = <<h>> \o y
  BY DEF FileOf, HeadOf, TextOf
<1>6. h \in Cell /\ y \in Seq(Cell)
  <2>1. s.par.data \in Seq(Token) /\ Token \subseteq Cell
    BY <1>1 DEF Session, Parser, Cell
  <2>2. y \in Seq(Cell)
    BY <1>1, <2>1, SeqMonotonic
  <2>3. QED
    BY <1>2, <2>2 DEF HeadOf, Cell
<1> HIDE DEF f, h, y, F
<1>7. F \in Seq(Cell) /\ Overwrite(<<h>>, F) = F /\ Overwrite(<<>>, F) = F
  <2> DEFINE g == <<h>>
             e == <<>>
  <2>1. g \in Seq(Cell) /\ Len(g) = 1 /\ e \in Seq(Cell) /\ Len(e) = 0
    BY <1>6, EmptySeq
  <2> HIDE DEF g, e
  <2>2. F = g \o y
    BY <1>5 DEF g
  <2>3. F \in Seq(Cell) /\ Len(F) = Len(g) + Len(y) /\ Len(y) \in Nat
    BY <1>6, <2>1, <2>2, ConcatProperties, LenProperties
  <2>4. Len(g) <= Len(F) /\ Len(e) <= Len(F)
    BY <2>1, <2>3
  <2>5. Overwrite(g, F) = F /\ Overwrite(e, F) = F
    BY <2>1, <2>3, <2>4, OverwriteAll
  <2>6. QED
    BY <2>3, <2>5 DEF g, e
<1>8. Written(s) = [s EXCEPT !.tmp[f] = F]
  <2>1. s.tmp[f] = <<h>>
    BY <1>1, <1>3 DEF NoFile
  <2>2. s.data.rcpt_to[1] = f
    BY <1>4 DEF f
  <2>3. Written(s) = [s EXCEPT !.tmp[s.data.rcpt_to[1]] = Overwrite(@, <<Header(s.data)>> \o s.par.data)]
    BY <1>1 DEF Written
  <2>4. Overwrite(s.tmp[f], <<Header(s.data)>> \o s.par.data) = F
    BY <1>1, <1>4, <1>5, <1>7, <2>1
  <2>5. QED
    BY <2>2, <2>3, <2>4, Zenon
<1>9. Storing(x) /\ x.data = s.data
  BY WrittenStoring
<1>10. x.tmp[f] = F /\ x.new = NoFile /\ x.temp_path = f /\ x.rbuf = s.rbuf /\ x.data.rcpt_to = m.rcpts
  <2>1. x = [s EXCEPT !.tmp[f] = F]
    BY <1>8
  <2> HIDE DEF x
  <2>2. F \in File
    BY <1>7 DEF File
  <2>3. QED
    BY <1>1, <1>3, <1>4, <1>9, <2>1, <2>2 DEF Session
<1> HIDE DEF x
<1>11. u.new = Delivered(x, {}) /\ u.rbuf = x.rbuf /\ u.par.req = EmptyRequest
  BY <1>9, FinishedFiles
<1>12. u.stm = "WRITE" /\ u.data.state = "EHLO"
  BY <1>9, FinishedOutcome
<1> HIDE DEF u
<1>13. Ended(u, k)
  <2>1. \A i \in 1..Len(u.rbuf) : Mild(u.rbuf[i].verb)
    <3> DEFINE b == Left(w, Len(MailScript(m)))
    <3>1. u.rbuf = b
      BY <1>1, <1>10, <1>11
    <3>2. \A i \in 1..Len(b) : Mild(b[i].verb)
      BY MildBehind
    <3> HIDE DEF b
    <3>3. QED
      BY <3>1, <3>2
  <2>2. Mild(u.par.req.verb)
    <3>1. EmptyRequest.verb = ""
      BY DEF EmptyRequest
    <3>2. QED
      BY <1>11, <3>1 DEF Mild
  <2>3. QED
    BY <1>1, <1>12, <2>1, <2>2 DEF Ended
<1>14. ASSUME NEW v \in Range(m.rcpts) PROVE u.new[v] = F
  <2>1. v \in User /\ v \in Range(x.data.rcpt_to) \ {}
    BY <1>3, <1>10
  <2>2. Delivered(x, {})[v] = Overwrite(x.new[v], x.tmp[x.temp_path])
    BY <2>1 DEF Delivered
  <2>3. x.new[v] = <<>>
    BY <1>10, <2>1 DEF NoFile
  <2>4. QED
    BY <1>7, <1>10, <1>11, <2>2, <2>3
<1>15. QED
  BY <1>13, <1>14 DEF F, u, x

-----------------------------------------------------------------------------
(* What follows a mail.                                                    *)

\* Buffers whose lines are mild.
Milds(b) == \A i \in 1..Len(b) : Mild(b[i].verb)

\* What follows in a mild buffer is mild.
LEMMA MildAfter ==
  ASSUME NEW b \in Seq(Token), Milds(b), NEW n \in Nat
  PROVE  Milds(After(b, n))
<1>1. Len(b) \in Nat /\ \A i \in n + 1..Len(b) : b[i] \in Token
  BY ElementOfSeq, LenProperties
<1>2. CASE n + 1 > Len(b)
  <2>1. After(b, n) = <<>>
    BY <1>1, <1>2, SubSeqEmpty DEF After
  <2>2. Len(After(b, n)) = 0
    BY <2>1
  <2>3. QED
    BY <2>2 DEF Milds
<1>3. CASE n + 1 <= Len(b)
  <2>1. /\ Len(After(b, n)) = Len(b) - n
        /\ \A i \in 1..Len(b) - n : After(b, n)[i] = b[n + i]
    BY <1>1, <1>3, SubSeqProperties DEF After
  <2>2. \A i \in 1..Len(b) - n : n + i \in 1..Len(b)
    BY <1>1
  <2>3. QED
    BY <2>1, <2>2 DEF Milds
<1>4. QED
  BY <1>1, <1>2, <1>3

\* A head that is mild leaves a mild request.
LEMMA HeadMild ==
  ASSUME NEW p \in Parser, Mild(p.req.verb), NEW t \in Line, Mild(t.verb), NEW argless
  PROVE  Mild(ReadHead(p, t, argless).req.verb)
<1> DEFINE v == IF p.req.verb = "" THEN t.verb ELSE Unknown
           x == IF t.arg # NoArg \/ v \in argless THEN "cr" ELSE "error"
           r == [verb |-> v, arg |-> t.arg]
<1>1. ReadHead(p, t, argless) = [p EXCEPT !.st = x, !.req = r]
  BY DEF ReadHead
<1>2. Mild(v) /\ r.verb = v
  BY DEF Mild, Unknown
<1> HIDE DEF v, x, r
<1>3. ReadHead(p, t, argless).req = r
  BY <1>1 DEF Parser
<1>4. QED
  BY <1>2, <1>3

\* The end of a line leaves the request alone.
LEMMA LFMild ==
  ASSUME NEW p \in Parser, NEW t
  PROVE  ReadLF(p, t).req = p.req
<1> DEFINE x == IF t = LF THEN "done" ELSE "error"
<1>1. ReadLF(p, t) = [p EXCEPT !.st = x]
  BY DEF ReadLF
<1> HIDE DEF x
<1>2. QED
  BY <1>1 DEF Parser

\* Reading from a mild buffer leaves a mild request and a mild buffer.
LEMMA ConsumeMild ==
  ASSUME NEW p \in Parser, Mild(p.req.verb), NEW b \in Seq(Token), Milds(b), NEW argless
  PROVE  LET r == request_consume(p, b, argless)
         IN  Mild(r.p.req.verb) /\ Milds(r.rest)
<1> DEFINE h  == FirstHead(b)
           p1 == IF h = 1 THEN p ELSE [p EXCEPT !.req.verb = Unknown]
           p2 == ReadHead(p1, b[h], argless)
           r  == request_consume(p, b, argless)
<1>1. h \in 1..Len(b) + 1 /\ (h <= Len(b) => b[h] \in Line) /\ Len(b) \in Nat
  BY FirstHeadRange, LenProperties
<1>2. p1 \in Parser /\ Mild(p1.req.verb)
  <2>1. p1 \in Parser /\ (h # 1 => p1.req.verb = Unknown)
    BY DEF Parser, Request, Unknown, Verb
  <2>2. QED
    BY <2>1 DEF Mild, Unknown
<1>3. h <= Len(b) => Mild(b[h].verb)
  BY <1>1 DEF Milds
<1>4. h <= Len(b) => p2 \in Parser /\ Mild(p2.req.verb)
  <2> HIDE DEF h, p1
  <2>1. QED
    BY <1>1, <1>2, <1>3, ReadHeadType, HeadMild
<1>5. CASE p.st = "cr"
  <2>1. r = [p |-> ReadLF(p, b[1]), rest |-> After(b, 1)]
    BY <1>5 DEF request_consume
  <2>2. Milds(After(b, 1)) /\ ReadLF(p, b[1]).req = p.req
    BY MildAfter, LFMild
  <2>3. QED
    BY <2>1, <2>2
<1>6. CASE p.st # "cr" /\ h > Len(b)
  <2>1. r = [p |-> p1, rest |-> <<>>]
    BY <1>6, <1>1 DEF request_consume
  <2>2. Milds(<<>>)
    BY DEF Milds
  <2>3. QED
    BY <2>1, <2>2, <1>2
<1>7. CASE p.st # "cr" /\ h <= Len(b) /\ (p2.st = "error" \/ h = Len(b))
  <2>1. r = [p |-> p2, rest |-> After(b, h)]
    BY <1>7, <1>1 DEF request_consume
  <2>2. Milds(After(b, h))
    BY <1>1, MildAfter
  <2>3. QED
    <3> HIDE DEF p2, h
    <3>1. QED
      BY <2>1, <2>2, <1>4, <1>7
<1>8. CASE p.st # "cr" /\ h <= Len(b) /\ ~(p2.st = "error" \/ h = Len(b))
  <2>1. r = [p |-> ReadLF(p2, b[h + 1]), rest |-> After(b, h + 1)]
    BY <1>8, <1>1 DEF request_consume
  <2>2. Milds(After(b, h + 1)) /\ ReadLF(p2, b[h + 1]).req = p2.req
    <3>1. h + 1 \in Nat
      BY <1>1
    <3>2. p2 \in Parser
      BY <1>4, <1>8
    <3> HIDE DEF p2, h
    <3>3. QED
      BY <3>1, <3>2, MildAfter, LFMild
  <2>3. QED
    <3> HIDE DEF p2, h
    <3>1. QED
      BY <2>1, <2>2, <1>4, <1>8
<1>9. QED
  BY <1>1, <1>5, <1>6, <1>7, <1>8

\* No mild request leads out of the states a mail ends in.
LEMMA ProcessMild ==
  ASSUME NEW d \in SmtpData, d.state \in {"EHLO", "FROM", "XFROM", "XGET"},
         NEW r \in Request, Mild(r.verb), NEW reg
  PROVE  Process(d, r, reg).data.state \in {"EHLO", "FROM", "XFROM", "XGET"}
<1> DEFINE S == {"EHLO", "FROM", "XFROM", "XGET"}
<1> USE DEF Answer, SmtpData
<1>1. handle_helo(d, r).data.state \in S
  BY DEF handle_helo
<1>2. handle_xauth(d, r).data.state \in S
  BY DEF handle_xauth
<1>3. handle_from(d, r).data.state \in S
  BY <1>2 DEF handle_from, Mild
<1>4. handle_xtran(d, r).data.state \in S
  BY DEF handle_xtran
<1>5. handle_xfrom(d, r, reg).data.state \in S
  BY <1>4 DEF handle_xfrom
<1>6. handle_xget(d, r, reg).data.state \in S
  BY <1>5 DEF handle_xget
<1>7. handlers_table(d, r, reg).data.state \in S
  BY <1>1, <1>3, <1>5, <1>6 DEF handlers_table
<1>8. QED
  BY <1>7 DEF Process, handle_reset, handle_xquit

\* A mild request leaves the transformation off.
LEMMA StatusMild ==
  ASSUME NEW d, NEW r, Mild(r.verb)
  PROVE  set_status(d, r, FALSE) = FALSE
BY DEF set_status, Mild

\* After its mail a session reads nothing but mild lines, or ends.
LEMMA EndedReads ==
  ASSUME NEW s \in Session, NEW k, Ended(s, k), s.stm # "WRITE"
  PROVE  LET u == request_actual_read(s)
         IN  (Ended(u, k) \/ u.phase = "closed") /\ u.new = s.new /\ Mild(u.par.req.verb)
<1> DEFINE r == request_consume(s.par, s.rbuf, Argless(s.stm))
           t == [s EXCEPT !.par = r.p, !.rbuf = r.rest]
           v == [t EXCEPT !.interest = "WRITE"]
           a == Process(v.data, v.par.req, registry)
           e == a.data
           y == Append(v.wbuf, a.msg)
           x == [v EXCEPT !.data = e, !.wbuf = y, !.stm = "WRITE"]
           u == request_actual_read(s)
<1>1. /\ Silent(k) /\ s.stm \in {"READ", "ADMIN"} /\ s.data.state \in {"EHLO", "FROM", "XFROM", "XGET"}
      /\ Mild(s.par.req.verb) /\ Milds(s.rbuf)
      /\ s.par \in Parser /\ s.rbuf \in Seq(Token) /\ s.data \in SmtpData
  BY DEF Ended, Milds, Session
<1>2. /\ r.p \in Parser /\ r.rest \in Seq(Token)
      /\ Mild(r.p.req.verb) /\ Milds(r.rest)
  BY <1>1, ConsumeType, ConsumeMild
<1>3. u = IF request_is_done(r.p) THEN request_process(v) ELSE t
  BY <1>1 DEF request_actual_read, ReadCommand
<1> HIDE DEF r, u
<1>4. t \in Session /\ t.par = r.p /\ t.rbuf = r.rest /\ t.data = s.data /\ t.stm = s.stm /\ t.new = s.new
  BY <1>2 DEF Session
<1> HIDE DEF t
<1>5. v \in Session /\ v.par = r.p /\ v.rbuf = r.rest /\ v.data = s.data /\ v.stm = s.stm /\ v.new = s.new
  BY <1>4 DEF Session
<1> HIDE DEF v
<1>6. request_process(v) = IF handle_quit(v.par.req) THEN smtp_done(v) ELSE x
  BY DEF request_process
<1>7. v.data \in SmtpData /\ v.par.req \in Request /\ v.wbuf \in Seq(Reply)
  BY <1>5 DEF Session, Parser
<1>8. e \in SmtpData /\ y \in Seq(Reply) /\ e.state \in {"EHLO", "FROM", "XFROM", "XGET"}
  <2>1. e \in SmtpData /\ a.msg \in Reply
    BY <1>7, ProcessType
  <2>2. y \in Seq(Reply)
    BY <1>7, <2>1, AppendProperties
  <2>3. e.state \in {"EHLO", "FROM", "XFROM", "XGET"}
    BY <1>1, <1>2, <1>5, <1>7, ProcessMild
  <2>4. QED
    BY <2>1, <2>2, <2>3
<1> HIDE DEF e, y
<1>9. x.data = e /\ x.stm = "WRITE" /\ x.par = r.p /\ x.rbuf = r.rest /\ x.new = s.new
  BY <1>5, <1>8 DEF Session, StmState
<1> HIDE DEF x
<1>10. smtp_done(v).phase = "closed" /\ smtp_done(v).new = s.new /\ smtp_done(v).par = r.p
  BY <1>5 DEF smtp_done, Session
<1>11. Ended(x, k)
  BY <1>1, <1>2, <1>8, <1>9 DEF Ended, Milds
<1>12. Ended(t, k)
  BY <1>1, <1>2, <1>4 DEF Ended, Milds
<1>13. (Ended(u, k) \/ u.phase = "closed") /\ u.new = s.new /\ Mild(u.par.req.verb)
  BY <1>2, <1>3, <1>4, <1>6, <1>9, <1>10, <1>11, <1>12
<1>14. QED
  BY <1>13 DEF u

\* What a session waits for after a reply outside a body.
LEMMA SentWaits ==
  ASSUME NEW s \in Session, s.data.state # "BODY", NEW opened
  PROVE  LET t == Sent(s, opened)
         IN  /\ t \in Session /\ t.stm = (IF s.data.state \in AdminState THEN "ADMIN" ELSE "READ")
             /\ t.par = request_parser_init /\ t.rbuf = s.rbuf /\ t.data = s.data /\ SameFiles(t, s)
<1> DEFINE z == IF s.data.state \in AdminState THEN "ADMIN" ELSE "READ"
           p == request_parser_init
           e == <<>>
           t == [s EXCEPT !.wbuf = e, !.interest = "READ", !.stm = z, !.par = p]
<1>1. p \in Parser /\ e \in Seq(Reply)
  BY EmptySeq DEF request_parser_init, EmptyRequest, Parser, Request, Arg, OtherArg
<1>2. z \in StmState
  BY DEF StmState
<1>3. Sent(s, opened) = t
  <2>1. s.data.state \in AdminState => Sent(s, opened) = t
    BY DEF Sent
  <2>2. s.data.state \notin AdminState => Sent(s, opened) = t
    BY DEF Sent
  <2>3. QED
    BY <2>1, <2>2
<1> HIDE DEF p, e, z
<1>4. t \in Session /\ t.stm = z /\ t.par = p /\ t.rbuf = s.rbuf /\ t.data = s.data /\ SameFiles(t, s)
  BY <1>1, <1>2 DEF Session, SameFiles
<1> HIDE DEF t
<1>5. QED
  BY <1>3, <1>4 DEF p, z

\* After its mail a session sends replies, and reads on.
LEMMA EndedWrites ==
  ASSUME NEW s \in Session, NEW k, Ended(s, k), NEW opened
  PROVE  LET u == SentAndRead(s, opened)
         IN  (Ended(u, k) \/ u.phase = "closed") /\ u.new = s.new
<1> DEFINE t == Sent(s, opened)
           u == SentAndRead(s, opened)
<1>1. /\ Silent(k) /\ s.data.state \in {"EHLO", "FROM", "XFROM", "XGET"}
      /\ \A i \in 1..Len(s.rbuf) : Mild(s.rbuf[i].verb)
  BY DEF Ended
<1>2. /\ t \in Session /\ t.stm \in {"READ", "ADMIN"} /\ t.par = request_parser_init
      /\ t.rbuf = s.rbuf /\ t.data = s.data /\ t.new = s.new
  BY <1>1, SentWaits DEF SameFiles
<1>3. u = IF t.stm \in {"READ", "DATA"} /\ t.rbuf # <<>> THEN request_actual_read(t) ELSE t
  BY DEF SentAndRead
<1> HIDE DEF t, u
<1>4. Mild(t.par.req.verb)
  <2>1. request_parser_init.req = EmptyRequest
    BY DEF request_parser_init
  <2>2. EmptyRequest.verb = ""
    BY DEF EmptyRequest
  <2>3. QED
    BY <1>2, <2>1, <2>2 DEF Mild
<1>5. Ended(t, k)
  BY <1>1, <1>2, <1>4 DEF Ended
<1>6. /\ Ended(request_actual_read(t), k) \/ request_actual_read(t).phase = "closed"
      /\ request_actual_read(t).new = t.new
  BY <1>2, <1>5, EndedReads
<1>7. (Ended(u, k) \/ u.phase = "closed") /\ u.new = s.new
  BY <1>2, <1>3, <1>5, <1>6
<1>8. QED
  BY <1>7 DEF u

\* What one connection may come to: nothing is lost on the way, and a mail that was
\* delivered stays.
Onward(s, k, u, l) ==
  /\ Past(u, l) \/ Sending(u, l)
  /\ Past(s, k) => Past(u, l) /\ u.new = s.new

\* What happens to the mails in a step about connection c.
MailStep(c) ==
  /\ ~transform'
  /\ \A d \in Conn \ {c} : sess'[d] = sess[d] /\ client'[d] = client[d]
  /\ Onward(sess[c], client[c], sess'[c], client'[c])
  /\ \/ registry' = registry
     \/ \E x \in Seq(Mail) :
          /\ registry' = registry \o x /\ Past(sess'[c], client'[c])
          /\ \A i \in DOMAIN x : InFile(x[i], sess'[c]) /\ x[i].path = c

\* Such a step keeps the invariant.
LEMMA MailFrame ==
  ASSUME MailsInv, IInv, NEW c \in Conn, MailStep(c)
  PROVE  MailsInv'
<1> DEFINE OK(e) == e.path \in Conn => /\ Past(sess'[e.path], client'[e.path])
                                       /\ InFile(e, sess'[e.path])
<1>1. ASSUME NEW d \in Conn PROVE Past(sess'[d], client'[d]) \/ Sending(sess'[d], client'[d])
  BY <1>1 DEF MailStep, MailsInv, Onward
<1>2. ASSUME NEW i \in DOMAIN registry PROVE OK(registry[i])
  <2> SUFFICES ASSUME registry[i].path \in Conn
               PROVE  /\ Past(sess'[registry[i].path], client'[registry[i].path])
                      /\ InFile(registry[i], sess'[registry[i].path])
    OBVIOUS
  <2>1. /\ Past(sess[registry[i].path], client[registry[i].path])
        /\ InFile(registry[i], sess[registry[i].path])
    BY DEF MailsInv
  <2>2. CASE registry[i].path = c
    <3>1. Past(sess'[c], client'[c]) /\ sess'[c].new = sess[c].new
      BY <2>1, <2>2 DEF MailStep, Onward
    <3>2. QED
      BY <2>1, <2>2, <3>1 DEF InFile
  <2>3. CASE registry[i].path # c
    BY <2>1, <2>3 DEF MailStep
  <2>4. QED
    BY <2>2, <2>3
<1>3. ASSUME NEW i \in DOMAIN registry' PROVE OK(registry'[i])
  <2>1. CASE registry' = registry
    BY <1>2, <2>1
  <2>2. CASE registry' # registry
    <3>1. PICK x \in Seq(Mail) :
            /\ registry' = registry \o x /\ Past(sess'[c], client'[c])
            /\ \A a \in DOMAIN x : InFile(x[a], sess'[c]) /\ x[a].path = c
      BY <2>2 DEF MailStep
    <3>2. registry \in Seq(Mail)
      BY DEF IInv, TypeOK
    <3>3. /\ Len(registry) \in Nat /\ Len(x) \in Nat /\ Len(registry') = Len(registry) + Len(x)
          /\ registry' \in Seq(Mail)
          /\ \A a \in 1..Len(registry) : registry'[a] = registry[a]
          /\ \A a \in 1..Len(x) : registry'[Len(registry) + a] = x[a]
      BY <3>1, <3>2, ConcatProperties, LenProperties
    <3>4. /\ DOMAIN registry = 1..Len(registry) /\ DOMAIN x = 1..Len(x)
          /\ DOMAIN registry' = 1..Len(registry')
      BY <3>2, <3>3, LenProperties
    <3>5. CASE i <= Len(registry)
      <4>1. i \in DOMAIN registry /\ registry'[i] = registry[i]
        BY <3>3, <3>4, <3>5
      <4> HIDE DEF OK
      <4>2. QED
        BY <4>1, <1>2
    <3>6. CASE i > Len(registry)
      <4> DEFINE a == i - Len(registry)
      <4>1. a \in 1..Len(x) /\ Len(registry) + a = i
        BY <3>3, <3>4, <3>6
      <4> HIDE DEF a
      <4>2. registry'[i] = x[a] /\ a \in DOMAIN x
        BY <3>3, <3>4, <4>1
      <4>3. QED
        BY <3>1, <4>2
    <3>7. QED
      BY <3>3, <3>4, <3>5, <3>6
  <2>3. QED
    BY <2>1, <2>2
<1>4. ~transform'
  BY DEF MailStep
<1>5. QED
  BY <1>1, <1>3, <1>4 DEF MailsInv, Past, Sending, InFile, Ended, Unread, Telling, Keeping, NoMail, NoFile

-----------------------------------------------------------------------------
(* The steps, one by one.                                                  *)

\* Nothing that matters to a mail.
SameMail(u, s) ==
  SameFiles(u, s) /\ u.stm = s.stm /\ u.rbuf = s.rbuf /\ u.par = s.par /\ u.data = s.data
  /\ u.pipe = s.pipe

\* What a mail does not depend on does not disturb it.
LEMMA SameOnward ==
  ASSUME NEW s, NEW u, NEW k, SameMail(u, s), s.phase \notin {"closed", "lost"},
         Past(s, k) \/ Sending(s, k)
  PROVE  Onward(s, k, u, k)
<1>1. Ended(s, k) => Ended(u, k)
  BY DEF Ended, SameMail
<1>2. \A w, m : Unread(s, k, w) => Unread(u, k, w)
  BY DEF Unread, NoMail, SameMail, SameFiles
<1>3. \A w, m : Telling(s, k, w, m) => Telling(u, k, w, m)
  BY DEF Telling, NoMail, SameMail, SameFiles
<1>4. \A w, m : Keeping(s, k, w, m) => Keeping(u, k, w, m)
  BY DEF Keeping, SameMail, SameFiles
<1>5. Sending(s, k) => Sending(u, k)
  BY <1>2, <1>3, <1>4 DEF Sending
<1>6. u.new = s.new
  BY DEF SameMail, SameFiles
<1>7. QED
  BY <1>1, <1>5, <1>6 DEF Onward, Past

\* The end of a session ends its mail where it is.
LEMMA OverOnward ==
  ASSUME NEW s, NEW u, NEW k, NEW l, u.phase \in {"closed", "lost"}, u.new = s.new
  PROVE  Onward(s, k, u, l)
BY DEF Onward, Past

\* A step that concerns one session, and no mail of the registry.
LEMMA OneSession ==
  ASSUME IInv, NEW c \in Conn, NEW u, sess' = [sess EXCEPT ![c] = u],
         client' = client, transform' = FALSE, registry' = registry,
         Onward(sess[c], client[c], u, client[c])
  PROVE  MailStep(c)
<1>1. sess \in [Conn -> Session]
  BY DEF IInv, TypeOK
<1>2. sess'[c] = u /\ \A d \in Conn \ {c} : sess'[d] = sess[d]
  BY <1>1
<1>3. QED
  BY <1>2 DEF MailStep

\* A step that concerns no session.
LEMMA NoSessionStep ==
  ASSUME MailsInv, NEW c \in Conn, UNCHANGED <<transform, registry, client, sess>>
  PROVE  MailStep(c)
<1>1. Onward(sess[c], client[c], sess[c], client[c])
  BY DEF MailsInv, Onward
<1>2. QED
  BY <1>1 DEF MailStep, MailsInv

\* Accepting a connection, or failing to.
LEMMA AcceptMails ==
  ASSUME IInv, MailsInv, NEW c \in Conn, OnListener(c)
  PROVE  MailStep(c)
<1> DEFINE s == sess[c]
           k == client[c]
<1>1. s \in Session /\ s.phase = "none" /\ (Past(s, k) \/ Sending(s, k)) /\ transform = FALSE
  <2>1. s \in Session /\ SessionInv(s) /\ transform \in BOOLEAN
    BY SessionOf DEF IInv, TypeOK, SessionInv
  <2>2. s.phase = "none"
    BY DEF OnListener, Accept, AcceptNoMemory, AcceptNoRegister, Pending
  <2>3. QED
    BY <2>1, <2>2 DEF MailsInv
<1>2. CASE Accept(c)
  <2> DEFINE y == <<"220">>
             u == [s EXCEPT !.phase = "open", !.interest = "WRITE", !.wbuf = y]
  <2>1. SameMail(u, s)
    <3>1. y \in Seq(Reply)
      BY DEF Reply
    <3> HIDE DEF y, s
    <3>2. QED
      BY <1>1, <3>1 DEF SameMail, SameFiles, Session
  <2>2. sess' = [sess EXCEPT ![c] = u]
    BY <1>2 DEF Accept
  <2> HIDE DEF u, s, k
  <2>3. Onward(s, k, u, k)
    BY <1>1, <2>1, SameOnward
  <2>4. QED
    BY <1>1, <1>2, <2>2, <2>3, OneSession DEF Accept, s, k
<1>3. CASE AcceptNoMemory(c) \/ AcceptNoRegister(c)
  <2> DEFINE u == [s EXCEPT !.phase = "lost"]
  <2>1. u.phase = "lost" /\ u.new = s.new
    BY <1>1 DEF Session
  <2>2. sess' = [sess EXCEPT ![c] = u]
    BY <1>3 DEF AcceptNoMemory, AcceptNoRegister
  <2> HIDE DEF u, s, k
  <2>3. Onward(s, k, u, k)
    BY <2>1, OverOnward
  <2>4. QED
    BY <1>1, <1>3, <2>2, <2>3, OneSession DEF AcceptNoMemory, AcceptNoRegister, s, k
<1>4. QED
  BY <1>2, <1>3 DEF OnListener

\* A client sends its script, whole, or goes.
LEMMA ClientMails ==
  ASSUME IInv, MailsInv, WholeSend, NEW c \in Conn, ClientSend(c) \/ ClientClose(c)
  PROVE  MailStep(c)
<1> DEFINE s == sess[c]
           k == client[c]
           l == client'[c]
<1>1. (Past(s, k) \/ Sending(s, k)) /\ k \in Client /\ client \in [Conn -> Client] /\ transform = FALSE
  BY DEF MailsInv, IInv, TypeOK
<1>2. /\ UNCHANGED <<transform, registry, sess>>
      /\ \A d \in Conn \ {c} : client'[d] = client[d]
  <2>1. CASE ClientSend(c)
    BY <1>1, <2>1 DEF ClientSend, ServerUnchanged
  <2>2. CASE ClientClose(c)
    BY <1>1, <2>2 DEF ClientClose, ServerUnchanged
  <2>3. QED
    BY <2>1, <2>2
<1>3. Onward(s, k, s, l)
  <2>1. CASE ClientClose(c)
    <3>1. l.todo = <<>> /\ l.net = k.net
      BY <1>1, <2>1, EmptySeq DEF ClientClose, Client
    <3> HIDE DEF s, k, l
    <3>2. Silent(k) => Silent(l)
      BY <3>1 DEF Silent
    <3>3. \A w : Unread(s, k, w) => Unread(s, l, w)
      BY <3>1 DEF Unread
    <3>4. Sending(s, k) => Sending(s, l)
      BY <3>2, <3>3 DEF Sending, Telling, Keeping
    <3>5. Past(s, k) => Past(s, l)
      BY <3>2 DEF Past, Ended
    <3>6. QED
      BY <1>1, <3>4, <3>5 DEF Onward
  <2>2. CASE ClientSend(c)
    <3> DEFINE w == k.todo
               n == Len(w)
               x == Wire(SubSeq(w, 1, n))
               y == k.net \o x
               z == After(w, n)
    <3>1. w # <<>> /\ w \in Seq(Line) /\ n \in Nat /\ k.net \in Seq(Token)
      BY <1>1, <2>2, LenProperties DEF ClientSend, Client
    <3>2. SubSeq(w, 1, n) = w /\ z = <<>>
      BY <3>1, SubSeqFull, SubSeqEmpty DEF After
    <3>3. l = [k EXCEPT !.net = y, !.todo = z]
      BY <1>1, <2>2 DEF ClientSend
    <3>4. x = Wire(w) /\ x \in Seq(Token) /\ y \in Seq(Token) /\ z \in Seq(Line)
      <4>1. x = Wire(w) /\ x \in Seq(Token)
        BY <3>1, <3>2, WireType
      <4>2. QED
        BY <3>1, <3>2, <4>1, ConcatProperties, EmptySeq
    <3>5. l.net = y /\ l.todo = <<>>
      <4> HIDE DEF y, z, x, w, n, l
      <4>1. l.net = y /\ l.todo = z
        BY <1>1, <3>3, <3>4 DEF Client
      <4>2. QED
        BY <3>2, <4>1
    <3>6. ~Silent(k)
      BY <3>1 DEF Silent
    <3>7. CASE s.phase \in {"closed", "lost"}
      BY <3>7 DEF Onward, Past
    <3>8. CASE s.phase \notin {"closed", "lost"}
      <4>1. Sending(s, k) /\ ~Past(s, k)
        BY <1>1, <3>6, <3>8 DEF Past, Ended
      <4>2. PICK v \in Scripts, m \in Mails : OneMail(v, m) /\ Unread(s, k, v)
        BY <3>6, <4>1 DEF Sending, Telling, Keeping
      <4>3. w = v /\ k.net = <<>>
        BY <3>1, <4>2 DEF Unread
      <4>4. y = Wire(v)
        BY <3>4, <4>3, ConcatEmptySeq
      <4> HIDE DEF w, n, x, y, z, s, k, l
      <4>5. Unread(s, l, v)
        BY <3>5, <4>2, <4>4 DEF Unread
      <4>6. Sending(s, l)
        BY <4>2, <4>5 DEF Sending
      <4>7. QED
        BY <4>1, <4>6 DEF Onward
    <3>9. QED
      BY <3>7, <3>8
  <2>3. QED
    BY <2>1, <2>2
<1>4. QED
  BY <1>1, <1>2, <1>3 DEF MailStep

\* A failed send and the end of a stream end the session where it is.
LEMMA EndMails ==
  ASSUME IInv, MailsInv, NEW c \in Conn, WriteFails(c) \/ ReadEnd(c)
  PROVE  MailStep(c)
<1> DEFINE s == sess[c]
           u == smtp_done(s)
<1>1. s \in Session /\ transform = FALSE
  BY DEF IInv, TypeOK, MailsInv
<1>2. u.phase = "closed" /\ u.new = s.new
  BY <1>1 DEF smtp_done, Session
<1>3. sess' = [sess EXCEPT ![c] = u]
  BY DEF WriteFails, ReadEnd
<1> HIDE DEF u
<1>4. Onward(s, client[c], u, client[c])
  BY <1>2, OverOnward
<1>5. QED
  BY <1>1, <1>3, <1>4, OneSession DEF WriteFails, ReadEnd

\* The greeting was sent: the session reads.
LEMMA GreetingSent ==
  ASSUME NEW s \in Session, NEW k, NEW w, Unread(s, k, w), NEW opened
  PROVE  Unread(SentAndRead(s, opened), k, w)
<1> DEFINE t == Sent(s, opened)
           u == SentAndRead(s, opened)
<1>1. NoMail(s) /\ s.rbuf = <<>> /\ s.data = InitData
  BY DEF Unread
<1>2. s.data.state = "EHLO"
  BY <1>1 DEF InitData
<1>3. /\ t.stm = "READ" /\ t.par = request_parser_init /\ t.rbuf = s.rbuf /\ t.data = s.data
      /\ SameFiles(t, s)
  BY <1>2, SentWaits DEF AdminState
<1>4. u = t
  BY <1>1, <1>3 DEF SentAndRead
<1> HIDE DEF t, u
<1>5. Unread(u, k, w)
  BY <1>1, <1>3, <1>4 DEF Unread, NoMail, SameFiles
<1>6. QED
  BY <1>5 DEF u

\* A reply was sent: the next line of the script is read, or all of the body.
LEMMA WriteMails ==
  ASSUME IInv, MailsInv, NEW c \in Conn, Write(c)
  PROVE  MailStep(c)
<1> DEFINE s == sess[c]
           k == client[c]
<1>1. /\ s \in Session /\ transform = FALSE /\ transform \in BOOLEAN /\ ~transform
      /\ s.phase = "open" /\ s.stm \in {"NULL", "WRITE"}
      /\ Past(s, k) \/ Sending(s, k)
  BY DEF IInv, TypeOK, MailsInv, Write, Dispatched, Open
<1>2. PICK opened \in BOOLEAN : sess' = [sess EXCEPT ![c] = SentAndRead(s, opened)]
  BY DEF Write
<1> DEFINE u == SentAndRead(s, opened)
<1>3. UNCHANGED <<transform, registry, client>>
  BY DEF Write
<1> HIDE DEF s, k
<1>4. CASE Ended(s, k)
  <2>1. (Ended(u, k) \/ u.phase = "closed") /\ u.new = s.new
    BY <1>1, <1>4, EndedWrites
  <2> HIDE DEF u
  <2>2. Onward(s, k, u, k)
    BY <2>1 DEF Onward, Past
  <2>3. QED
    BY <2>2, <1>1, <1>2, <1>3, OneSession DEF u, s, k
<1>5. CASE ~Ended(s, k)
  <2>1. ~Past(s, k) /\ Sending(s, k)
    BY <1>1, <1>5 DEF Past
  <2>2. PICK w \in Scripts, m \in Mails :
          OneMail(w, m) /\ (Unread(s, k, w) \/ Telling(s, k, w, m) \/ Keeping(s, k, w, m))
    BY <2>1 DEF Sending
  <2>3. Past(u, k) \/ Sending(u, k)
    <3>1. CASE Unread(s, k, w)
      <4>1. Unread(u, k, w)
        BY <1>1, <3>1, GreetingSent
      <4> HIDE DEF u
      <4>2. QED
        BY <2>2, <4>1 DEF Sending
    <3>2. CASE Telling(s, k, w, m)
      <4>1. Silent(k) /\ NoMail(s)
        BY <3>2 DEF Telling
      <4>2. PICK j \in 1..3 + Len(m.rcpts) : Heard(s.data, m, j) /\ s.rbuf = Left(w, j)
        BY <3>2 DEF Telling
      <4>3. Len(m.rcpts) \in Nat
        BY MailAssumption, LenProperties
      <4>4. CASE j = 3 + Len(m.rcpts)
        <5>1. s.data = Complete(m)
          <6>1. j # 1 /\ \A i \in 0..Len(m.rcpts) : j # 2 + i
            BY <4>3, <4>4
          <6>2. QED
            BY <4>2, <6>1, Zenon DEF Heard
        <5>2. u.phase = "closed" \/ Keeping(u, k, w, m)
          BY <1>1, <2>2, <4>1, <4>2, <4>4, <5>1, WholeBody
        <5> HIDE DEF u
        <5>3. QED
          BY <2>2, <5>2 DEF Past, Sending
      <4>5. CASE j # 3 + Len(m.rcpts)
        <5>1. j \in 1..2 + Len(m.rcpts)
          BY <4>3, <4>5
        <5>2. Telling(u, k, w, m)
          BY <1>1, <2>2, <4>1, <4>2, <5>1, NextLine
        <5> HIDE DEF u
        <5>3. QED
          BY <2>2, <5>2 DEF Sending
      <4>6. QED
        BY <4>4, <4>5
    <3>3. CASE Keeping(s, k, w, m)
      BY <1>1, <3>3 DEF Keeping
    <3>4. QED
      BY <2>2, <3>1, <3>2, <3>3
  <2> HIDE DEF u
  <2>4. Onward(s, k, u, k)
    BY <2>1, <2>3 DEF Onward
  <2>5. QED
    BY <2>4, <1>1, <1>2, <1>3, OneSession DEF u, s, k
<1>6. QED
  BY <1>4, <1>5

\* A read takes the whole script, or a line that follows the mail.
LEMMA ReadMails ==
  ASSUME IInv, MailsInv, WholeRecv, NEW c \in Conn, Read(c)
  PROVE  MailStep(c)
<1> DEFINE s == sess[c]
           k == client[c]
           l == client'[c]
           b(n) == s.rbuf \o SubSeq(k.net, 1, n)
           t(n) == [s EXCEPT !.rbuf = b(n)]
           u(n) == request_actual_read(t(n))
<1>1. /\ s \in Session /\ transform = FALSE
      /\ s.phase = "open" /\ s.interest = "READ" /\ s.stm \in {"READ", "DATA", "ADMIN"}
      /\ s.rbuf # <<>> \/ k.net # <<>>
      /\ Past(s, k) \/ Sending(s, k)
      /\ k \in Client /\ k.net \in Seq(Token) /\ s.rbuf \in Seq(Token)
      /\ sess \in [Conn -> Session] /\ client \in [Conn -> Client]
  BY DEF IInv, TypeOK, MailsInv, Read, Dispatched, Open, Client, Session
<1>2. PICK n \in Received(c) :
        /\ sess' = [sess EXCEPT ![c] = u(n)]
        /\ client' = [client EXCEPT ![c].net = After(@, n)]
        /\ transform' = IF u(n).stm = "WRITE" THEN set_status(s.data, u(n).par.req, transform)
                        ELSE transform
  BY DEF Read
<1>3. registry' = registry
  BY DEF Read
<1>4. s.rbuf # <<>> => n = 0
  BY <1>2 DEF Received
<1>5. s.rbuf = <<>> => n = Len(k.net)
  BY <1>2 DEF Received
<1>6. n \in Nat
  BY <1>1, <1>4, <1>5, LenProperties
<1>7. l.todo = k.todo /\ l.net = After(k.net, n)
  <2> DEFINE z == After(k.net, n)
  <2>1. client' = [client EXCEPT ![c] = [k EXCEPT !.net = z]]
    BY <1>1, <1>2
  <2> HIDE DEF z
  <2>2. l = [k EXCEPT !.net = z]
    BY <1>1, <2>1
  <2> HIDE DEF k, l
  <2>3. l.todo = k.todo /\ l.net = z
    BY <1>1, <2>2 DEF Client
  <2>4. QED
    BY <2>3 DEF z
<1>8. /\ sess'[c] = u(n)
      /\ \A d \in Conn \ {c} : sess'[d] = sess[d] /\ client'[d] = client[d]
  <2> HIDE DEF u
  <2>1. QED
    BY <1>1, <1>2
<1> HIDE DEF s, k, l
<1>9. CASE Ended(s, k)
  <2>1. Silent(k) /\ s.rbuf # <<>> /\ n = 0
    BY <1>1, <1>4, <1>9 DEF Ended, Silent
  <2>2. l.todo = <<>> /\ l.net = <<>>
    <3>1. k.todo = <<>> /\ k.net = <<>> /\ Len(<<>>) = 0
      BY <2>1 DEF Silent
    <3>2. After(<<>>, 0) = <<>>
      BY DEF After
    <3>3. QED
      BY <1>7, <2>1, <3>1, <3>2
  <2>3. b(n) = s.rbuf
    <3>1. SubSeq(k.net, 1, n) = <<>>
      BY <1>1, <2>1, SubSeqEmpty
    <3>2. QED
      BY <1>1, <3>1, ConcatEmptySeq
  <2> HIDE DEF b
  <2>4. t(n) = s
    <3>1. t(n) = [s EXCEPT !.rbuf = s.rbuf]
      BY <2>3
    <3> HIDE DEF t
    <3>2. QED
      BY <1>1, <3>1 DEF Session
  <2> HIDE DEF t
  <2>5. (Ended(u(n), k) \/ u(n).phase = "closed") /\ u(n).new = s.new /\ Mild(u(n).par.req.verb)
    BY <1>1, <1>9, <2>4, EndedReads
  <2> HIDE DEF u
  <2>6. Ended(u(n), k) => Ended(u(n), l)
    BY <2>2 DEF Ended, Silent
  <2>7. Onward(s, k, u(n), l)
    BY <2>5, <2>6 DEF Onward, Past
  <2>8. ~transform'
    <3>1. set_status(s.data, u(n).par.req, FALSE) = FALSE
      BY <2>5, StatusMild
    <3>2. QED
      BY <1>1, <1>2, <3>1
  <2>9. QED
    BY <1>3, <1>8, <2>7, <2>8 DEF MailStep, s, k, l
<1>10. CASE ~Ended(s, k)
  <2>1. ~Past(s, k) /\ Sending(s, k)
    BY <1>1, <1>10 DEF Past
  <2>2. PICK w \in Scripts, m \in Mails : OneMail(w, m) /\ Unread(s, k, w)
    <3>1. PICK w \in Scripts, m \in Mails :
            OneMail(w, m) /\ (Unread(s, k, w) \/ Telling(s, k, w, m) \/ Keeping(s, k, w, m))
      BY <2>1 DEF Sending
    <3>2. ~Telling(s, k, w, m) /\ ~Keeping(s, k, w, m)
      BY <1>1 DEF Telling, Keeping
    <3>3. QED
      BY <3>1, <3>2
  <2>3. /\ s.rbuf = <<>> /\ k.net # <<>> /\ k.net = Wire(w) /\ k.todo = <<>> /\ n = Len(k.net)
        /\ NoMail(s) /\ s.stm = "READ" /\ s.par = request_parser_init /\ s.data = InitData
    BY <1>1, <1>5, <2>2 DEF Unread
  <2>4. Silent(l)
    <3>1. After(k.net, n) = <<>>
      BY <1>1, <2>3, SubSeqEmpty, LenProperties DEF After
    <3>2. QED
      BY <1>7, <2>3, <3>1 DEF Silent
  <2>5. b(n) = Wire(w) /\ b(n) \in Seq(Token)
    <3>1. SubSeq(k.net, 1, n) = k.net
      BY <1>1, <2>3, SubSeqFull
    <3>2. QED
      BY <1>1, <2>3, <3>1, ConcatEmptySeq
  <2> HIDE DEF b
  <2>6. t(n) \in Session /\ NoMail(t(n)) /\ t(n).stm = s.stm /\ t(n).par = s.par /\ t(n).data = s.data
        /\ t(n).rbuf = b(n)
    <3>1. /\ t(n) \in Session /\ SameFiles(t(n), s) /\ t(n).stm = s.stm /\ t(n).par = s.par
          /\ t(n).data = s.data /\ t(n).rbuf = b(n)
      BY <1>1, <2>5 DEF Session, SameFiles
    <3> HIDE DEF t
    <3>2. QED
      BY <2>3, <3>1 DEF NoMail, SameFiles
  <2> HIDE DEF t
  <2>7. Telling(u(n), l, w, m)
    <3>1. /\ t(n).stm = "READ" /\ t(n).par = request_parser_init /\ t(n).data = InitData
          /\ t(n).rbuf = Wire(w)
      BY <2>3, <2>5, <2>6
    <3>2. QED
      BY <2>2, <2>4, <2>6, <3>1, FirstLine
  <2> HIDE DEF u
  <2>8. Onward(s, k, u(n), l)
    BY <2>1, <2>2, <2>7 DEF Onward, Sending
  <2>9. ~transform'
    <3>1. s.data.state # "XFROM"
      BY <2>3 DEF InitData
    <3>2. set_status(s.data, u(n).par.req, transform) = transform
      BY <3>1 DEF set_status
    <3>3. QED
      BY <1>1, <1>2, <3>2
  <2>10. QED
    BY <1>3, <1>8, <2>8, <2>9 DEF MailStep, s, k, l
<1>11. QED
  BY <1>9, <1>10

\* The entries of a mail that is in new/ of its recipients name files that hold it.
LEMMA EntriesInFile ==
  ASSUME NEW c \in Conn, NEW m \in Mails, NEW u, \A v \in Range(m.rcpts) : u.new[v] = FileOf(m)
  PROVE  LET x == Entries(c, Complete(m))
         IN  \A i \in DOMAIN x : InFile(x[i], u) /\ x[i].path = c
<1> DEFINE x == Entries(c, Complete(m))
<1>1. x = [i \in DOMAIN m.rcpts |-> [from |-> m.from, to |-> m.rcpts[i], path |-> c, today |-> TRUE]]
  BY DEF Entries, Complete
<1>2. m.rcpts \in Seq(User)
  BY MailAssumption
<1> HIDE DEF x
<1>3. ASSUME NEW i \in DOMAIN x PROVE InFile(x[i], u) /\ x[i].path = c
  <2>1. i \in DOMAIN m.rcpts /\ x[i].from = m.from /\ x[i].to = m.rcpts[i] /\ x[i].path = c
    BY <1>1
  <2>2. m.rcpts[i] \in Range(m.rcpts)
    BY <2>1 DEF Range
  <2>3. QED
    BY <2>1, <2>2 DEF InFile
<1>4. QED
  BY <1>3 DEF x

\* The output file's handlers deliver the mail, or leave it in memory.
LEMMA OutputMails ==
  ASSUME IInv, MailsInv, "copy" \notin Faults, NEW c \in Conn, OnOutput(c)
  PROVE  MailStep(c)
<1> DEFINE s == sess[c]
           k == client[c]
<1>1. /\ Storing(s) /\ s \in Session /\ s.phase = "open" /\ s.stm = "DATA_WRITE" /\ transform = FALSE
      /\ Past(s, k) \/ Sending(s, k)
      /\ sess \in [Conn -> Session]
  BY OutputStoring DEF Storing, IInv, TypeOK, MailsInv
<1> HIDE DEF s, k
<1>2. ~Past(s, k) /\ Sending(s, k)
  BY <1>1 DEF Past, Ended
<1>3. PICK w \in Scripts, m \in Mails : OneMail(w, m) /\ Keeping(s, k, w, m)
  BY <1>1, <1>2 DEF Sending, Unread, Telling
<1>4. CASE StoreLast(c)
  <2> DEFINE u == Finished(Written(s), {})
             x == Entries(c, Complete(m))
  <2>1. /\ sess' = [sess EXCEPT ![c] = u] /\ registry' = registry \o x
        /\ UNCHANGED <<transform, client>>
    BY <1>3, <1>4 DEF StoreLast, Keeping, s
  <2>2. Ended(u, k) /\ \A v \in Range(m.rcpts) : u.new[v] = FileOf(m)
    BY <1>1, <1>3, Delivers
  <2> HIDE DEF u
  <2>3. \A i \in DOMAIN x : InFile(x[i], u) /\ x[i].path = c
    BY <2>2, EntriesInFile
  <2>4. x \in Seq(Mail)
    <3>1. s.data \in SmtpData /\ s.data = Complete(m)
      BY <1>1, <1>3 DEF Session, Keeping
    <3>2. QED
      BY <3>1, EntriesType
  <2> HIDE DEF x
  <2>5. sess'[c] = u /\ \A d \in Conn \ {c} : sess'[d] = sess[d]
    BY <1>1, <2>1
  <2>6. Past(u, k)
    BY <2>2 DEF Past
  <2>7. Onward(s, k, u, k)
    BY <1>2, <2>6 DEF Onward
  <2>8. QED
    BY <1>1, <2>1, <2>3, <2>4, <2>5, <2>6, <2>7 DEF MailStep, s, k
<1>5. CASE StoreChunk(c)
  BY <1>3, <1>5 DEF StoreChunk, Keeping, s
<1>6. CASE StoreFails(c)
  <2> DEFINE u == [s EXCEPT !.stm = "ERROR"]
  <2>1. /\ sess' = [sess EXCEPT ![c] = u] /\ UNCHANGED <<transform, registry, client>>
    BY <1>1, <1>6 DEF StoreFails, s
  <2>2. SameFiles(u, s) /\ u.stm = "ERROR" /\ u.rbuf = s.rbuf /\ u.par = s.par /\ u.data = s.data
        /\ u.pipe = s.pipe
    BY <1>1 DEF SameFiles, Session
  <2> HIDE DEF u
  <2>3. Keeping(u, k, w, m)
    BY <1>3, <2>2 DEF Keeping, SameFiles
  <2>4. Onward(s, k, u, k)
    BY <1>2, <1>3, <2>3 DEF Onward, Sending
  <2>5. QED
    BY <1>1, <2>1, <2>4, OneSession DEF s, k
<1>7. CASE StoreToDeadPipe(c)
  BY <1>1, <1>3, <1>7 DEF StoreToDeadPipe, Keeping, s
<1>8. QED
  BY <1>4, <1>5, <1>6, <1>7 DEF OnOutput

\* Every step keeps the invariant of the mails.
LEMMA MailsNext ==
  ASSUME Pipelined
  PROVE  IInv /\ MailsInv /\ [Next]_vars => MailsInv'
<1> SUFFICES ASSUME IInv, MailsInv, [Next]_vars PROVE MailsInv'
  OBVIOUS
<1>1. WholeSend /\ WholeRecv /\ "copy" \notin Faults
  BY DEF Pipelined
<1>2. ASSUME NEW c \in Conn,
             \/ ClientSend(c) \/ ClientClose(c)
             \/ OnListener(c) \/ OnSocket(c) \/ OnOutput(c) \/ Abort(c)
      PROVE  MailsInv'
  <2>1. CASE ClientSend(c) \/ ClientClose(c)
    BY <1>1, <2>1, ClientMails, MailFrame
  <2>2. CASE OnListener(c)
    BY <2>2, AcceptMails, MailFrame
  <2>3. CASE Write(c)
    BY <2>3, WriteMails, MailFrame
  <2>4. CASE Read(c)
    BY <1>1, <2>4, ReadMails, MailFrame
  <2>5. CASE WriteFails(c) \/ ReadEnd(c)
    BY <2>5, EndMails, MailFrame
  <2>6. CASE WriteToDeadPipe(c) \/ ReadOutside(c) \/ Abort(c)
    <3>1. UNCHANGED <<transform, registry, client, sess>>
      BY <2>6 DEF WriteToDeadPipe, ReadOutside, Abort
    <3>2. QED
      BY <3>1, NoSessionStep, MailFrame
  <2>7. CASE OnOutput(c)
    BY <1>1, <2>7, OutputMails, MailFrame
  <2>8. QED
    BY <1>2, <2>1, <2>2, <2>3, <2>4, <2>5, <2>6, <2>7 DEF OnSocket
<1>3. CASE UNCHANGED vars
  <2>1. transform' = transform /\ sess' = sess /\ client' = client /\ registry' = registry
    BY <1>3 DEF vars
  <2>2. \A c \in Conn : Past(sess'[c], client'[c]) \/ Sending(sess'[c], client'[c])
    BY <2>1 DEF MailsInv
  <2>3. \A i \in DOMAIN registry' : registry'[i].path \in Conn =>
          /\ Past(sess'[registry'[i].path], client'[registry'[i].path])
          /\ InFile(registry'[i], sess'[registry'[i].path])
    BY <2>1 DEF MailsInv
  <2>4. QED
    BY <2>1, <2>2, <2>3
    DEF MailsInv, Past, Sending, InFile, Ended, Unread, Telling, Keeping, NoMail, NoFile
<1>4. QED
  BY <1>2, <1>3 DEF Next

\* Before the first step every script is its client's.
LEMMA MailsInit ==
  ASSUME Pipelined
  PROVE  Init => MailsInv
<1> SUFFICES ASSUME Init PROVE MailsInv
  OBVIOUS
<1>1. ASSUME NEW c \in Conn PROVE Sending(sess[c], client[c])
  <2>1. PICK w \in Scripts : client[c] = [todo |-> w, net |-> <<>>, eof |-> FALSE]
    BY DEF Init
  <2>2. PICK m \in Mails : OneMail(w, m)
    BY DEF Pipelined
  <2>3. sess[c] = NoSession
    BY DEF Init
  <2>4. Unread(NoSession, client[c], w)
    BY <2>1 DEF Unread, NoSession, NoMail, NoFile
  <2>5. QED
    BY <2>2, <2>3, <2>4 DEF Sending
<1>2. ASSUME NEW i \in DOMAIN registry PROVE registry[i].path \notin Conn
  <2>1. registry \in Seq([from : User, to : User, path : {"mock"}, today : BOOLEAN])
    BY MockAssumption DEF Init
  <2>2. registry[i] \in [from : User, to : User, path : {"mock"}, today : BOOLEAN]
    BY <2>1, ElementOfSeq, LenProperties
  <2>3. registry[i].path = "mock"
    BY <2>2
  <2>4. QED
    BY <2>3, PathAssumption
<1>3. QED
  BY <1>1, <1>2 DEF MailsInv, Init

\* With clients that send a mail in one go, in scripts that arrive whole, every mail the
\* registry names is in the recipient's new/ as it was sent, whatever the clients,
\* the mails, the interleaving of sessions, and the calls but the copy that fail.
THEOREM MailsAreDelivered == Pipelined => (Spec => []DeliveredAsSent)
<1> SUFFICES ASSUME Pipelined PROVE Spec => []DeliveredAsSent
  OBVIOUS
<1>1. Init => MailsInv
  BY MailsInit
<1>2. IInv /\ MailsInv /\ [Next]_vars => MailsInv'
  BY MailsNext
<1>3. MailsInv => DeliveredAsSent
  BY DEF MailsInv, InFile, DeliveredAsSent
<1>4. QED
  BY <1>1, <1>2, <1>3, Invariant, PTL DEF Spec
===============================================================================
