------------------------ MODULE HttpConnectionProofs ------------------------
(***************************************************************************)
(* Theorems about HttpConnection for every value of its constants, in      *)
(* particular for every session, in however many pieces and however early  *)
(* its requests come: files, the buffer, the announced lengths and the     *)
(* order of the answers.                                                   *)
(*                                                                         *)
(* The order of the answers rests on the order of the lines: what is read, *)
(* what is in the socket and what is still to be sent follow one another,  *)
(* and begin after the first line of every request answered so far.        *)
(***************************************************************************)
EXTENDS HttpConnection, TLAPS, SequenceTheorems

Line == [req : Nat, line : Nat]

ReplyType == [status : Nat, content : BOOLEAN, length : 0 .. WordSize - 1]

AnswerType == [req : Nat, status : Nat, length : 0 .. WordSize - 1,
               first : Nat, count : Nat, done : BOOLEAN]

Typed ==
  /\ sent \in Seq(Requests)
  /\ held \in Seq(Line) /\ wire \in Seq(Line) /\ buf \in Seq(Line)
  /\ stage \in {"reading", "header", "body", "closed", "aborted"}
  /\ reply \in ReplyType
  /\ file_fd \in BOOLEAN /\ open_files \in Int
  /\ offset \in Nat /\ to_write \in Nat /\ already_written \in Nat
  /\ answers \in Seq(AnswerType)

Before(l, m) == l.req < m.req \/ (l.req = m.req /\ l.line < m.line)
Sorted(s)    == \A i, j \in DOMAIN s : i < j => Before(s[i], s[j])
Ahead(s, t)  == \A i \in DOMAIN s, j \in DOMAIN t : Before(s[i], t[j])
Within(s, n) == \A i \in DOMAIN s : s[i].req \in 1 .. n /\ s[i].line > 0

\* The lines on their way are in the order they were sent in.
StreamOK ==
  /\ Sorted(buf) /\ Sorted(wire) /\ Sorted(held)
  /\ Ahead(buf, wire) /\ Ahead(buf, held) /\ Ahead(wire, held)
  /\ Within(buf, Len(sent)) /\ Within(wire, Len(sent)) /\ Within(held, Len(sent))

\* Line l comes after the first line of the request of answer a.
Past(a, l) == a.req < l.req \/ (a.req = l.req /\ ~IsFirst(l))
AllPast(as, s) == \A i \in DOMAIN as, k \in DOMAIN s : Past(as[i], s[k])

\* Where Parse takes the request line, and Subject the request, from.
StartOf(b) == IF IsEmpty(b[1]) /\ Len(b) > 1 THEN 2 ELSE 1

OrderOK ==
  /\ AnswersInOrder
  /\ \A i \in DOMAIN answers : answers[i].req <= Len(sent)
  /\ AllPast(answers, wire) /\ AllPast(answers, held)
  /\ stage \in {"reading", "header"} => AllPast(answers, buf)
  /\ stage = "header" => buf # <<>> /\ (reply.status = 400 \/ IsFirst(buf[StartOf(buf)]))

\* What of the response is sent, and what is left.
BodyOK ==
  /\ stage = "header" => reply.content \/ reply.length = 0
  /\ LengthHonoured
  /\ stage = "body" =>
       /\ answers # <<>>
       /\ ~answers[Len(answers)].done
       /\ answers[Len(answers)].length = reply.length
       /\ already_written = offset + answers[Len(answers)].count
       /\ to_write = Word(reply.length + offset)

HInv == Typed /\ FilesClosed /\ ReadsSomething /\ StreamOK /\ OrderOK /\ BodyOK

-----------------------------------------------------------------------------
(* Arithmetic modulo WordSize, and sequences of lines.                     *)

LEMMA WordRange == \A n \in Int : Word(n) \in 0 .. WordSize - 1
BY HttpAssumption DEF HttpAssumption, Word

LEMMA WordFits == \A n \in 0 .. WordSize - 1 : Word(n) = n
BY HttpAssumption DEF HttpAssumption, Word

LEMMA WordWraps == \A n \in WordSize .. 2 * WordSize - 1 : Word(n) = n - WordSize
BY HttpAssumption DEF HttpAssumption, Word

LEMMA NarrowRange == \A n \in Int : Narrow(n) \in Int
BY HttpAssumption DEF HttpAssumption, Narrow

LEMMA ContentTyped ==
  ASSUME NEW status \in Nat, NEW length \in 0 .. WordSize - 1
  PROVE  Reply(status, TRUE, length) \in ReplyType /\ Reply(status, TRUE, length).content
BY DEF Reply, ReplyType

LEMMA NoContentTyped ==
  \A status \in Nat :
    Reply(status, FALSE, 0) \in ReplyType /\ Reply(status, FALSE, 0).length = 0
<1>1. 0 \in 0 .. WordSize - 1
  BY HttpAssumption DEF HttpAssumption
<1> QED
  BY <1>1 DEF Reply, ReplyType

\* The first n elements of t move to the end of s.
Moved(s, t, n, s2, t2) == s2 = s \o SubSeq(t, 1, n) /\ t2 = SubSeq(t, n + 1, Len(t))

LEMMA Move ==
  ASSUME NEW s \in Seq(Line), NEW t \in Seq(Line), NEW n \in 0 .. Len(t),
         NEW s2, NEW t2, Moved(s, t, n, s2, t2)
  PROVE  /\ s2 \in Seq(Line) /\ Len(s2) = Len(s) + n /\ DOMAIN s2 = 1 .. Len(s2)
         /\ t2 \in Seq(Line) /\ Len(t2) = Len(t) - n /\ DOMAIN t2 = 1 .. Len(t2)
         /\ \A i \in DOMAIN s : i \in DOMAIN s2 /\ s2[i] = s[i]
         /\ \A i \in DOMAIN s2 \ DOMAIN s : /\ i - Len(s) \in DOMAIN t /\ i - Len(s) <= n
                                            /\ s2[i] = t[i - Len(s)]
         /\ \A i \in DOMAIN t2 : n + i \in DOMAIN t /\ t2[i] = t[n + i]
<1> DEFINE p == SubSeq(t, 1, n)
           q == SubSeq(t, n + 1, Len(t))
<1>1. /\ Len(t) \in Nat /\ DOMAIN t = 1 .. Len(t)
      /\ Len(s) \in Nat /\ DOMAIN s = 1 .. Len(s) /\ n \in Nat /\ n <= Len(t)
  BY LenProperties
<1>2. \A i \in 1 .. Len(t) : t[i] \in Line
  BY ElementOfSeq
<1>3. p \in Seq(Line) /\ Len(p) = n /\ \A i \in 1 .. n : p[i] = t[i]
  BY <1>1, <1>2, SubSeqProperties
<1>4. /\ q \in Seq(Line)
      /\ Len(q) = IF n + 1 <= Len(t) THEN Len(t) - (n + 1) + 1 ELSE 0
      /\ \A i \in 1 .. Len(t) - (n + 1) + 1 : q[i] = t[n + 1 + i - 1]
  <2>1. \A i \in n + 1 .. Len(t) : t[i] \in Line
    BY <1>1, <1>2
  <2> QED
    BY <1>1, <2>1, SubSeqProperties
<1> HIDE DEF p, q
<1>5. Len(q) = Len(t) - n
  <2>1. Len(q) = IF n + 1 <= Len(t) THEN Len(t) - (n + 1) + 1 ELSE 0
    BY <1>4
  <2>2. n \in Nat /\ Len(t) \in Nat /\ n <= Len(t)
    BY <1>1
  <2> QED
    BY <2>1, <2>2
<1>6. s2 = s \o p /\ t2 = q
  BY DEF Moved, p, q
<1>7. t2 \in Seq(Line) /\ Len(t2) = Len(t) - n /\ DOMAIN t2 = 1 .. Len(t2)
  BY <1>4, <1>5, <1>6, LenProperties
<1>8. \A i \in DOMAIN t2 : n + i \in DOMAIN t /\ t2[i] = t[n + i]
  <2> SUFFICES ASSUME NEW i \in 1 .. Len(t) - n
               PROVE  n + i \in DOMAIN t /\ t2[i] = t[n + i]
    BY <1>7
  <2>1. i \in 1 .. Len(t) - (n + 1) + 1 /\ n + 1 + i - 1 = n + i /\ n + i \in 1 .. Len(t)
    BY <1>1
  <2> QED
    BY <1>1, <1>4, <1>6, <2>1
<1>9. /\ s \o p \in Seq(Line) /\ Len(s \o p) = Len(s) + Len(p)
      /\ \A i \in 1 .. Len(s) + Len(p) :
           (s \o p)[i] = IF i <= Len(s) THEN s[i] ELSE p[i - Len(s)]
  BY <1>3, ConcatProperties
<1>10. /\ s2 \in Seq(Line) /\ Len(s2) = Len(s) + n /\ DOMAIN s2 = 1 .. Len(s2)
       /\ \A i \in 1 .. Len(s) + n : s2[i] = IF i <= Len(s) THEN s[i] ELSE p[i - Len(s)]
  BY <1>3, <1>6, <1>9, LenProperties
<1>11. \A i \in DOMAIN s : i \in DOMAIN s2 /\ s2[i] = s[i]
  BY <1>1, <1>10
<1>12. \A i \in DOMAIN s2 \ DOMAIN s :
         i - Len(s) \in DOMAIN t /\ i - Len(s) <= n /\ s2[i] = t[i - Len(s)]
  BY <1>1, <1>3, <1>10
<1> QED
  BY <1>7, <1>8, <1>10, <1>11, <1>12

LEMMA MoveSorted ==
  ASSUME NEW s \in Seq(Line), NEW t \in Seq(Line), NEW n \in 0 .. Len(t),
         NEW s2, NEW t2, Moved(s, t, n, s2, t2),
         Sorted(s), Sorted(t), Ahead(s, t)
  PROVE  Sorted(s2) /\ Sorted(t2) /\ Ahead(s2, t2)
<1>1. Len(t) \in Nat /\ Len(s) \in Nat /\ DOMAIN t = 1 .. Len(t) /\ DOMAIN s = 1 .. Len(s)
  BY LenProperties
<1>2. /\ Len(s2) = Len(s) + n /\ DOMAIN s2 = 1 .. Len(s2)
      /\ Len(t2) = Len(t) - n /\ DOMAIN t2 = 1 .. Len(t2)
      /\ \A i \in DOMAIN s : s2[i] = s[i]
      /\ \A i \in DOMAIN s2 \ DOMAIN s : /\ i - Len(s) \in DOMAIN t /\ i - Len(s) <= n
                                         /\ s2[i] = t[i - Len(s)]
      /\ \A i \in DOMAIN t2 : n + i \in DOMAIN t /\ t2[i] = t[n + i]
  BY Move
<1>3. Sorted(s2)
  <2> SUFFICES ASSUME NEW i \in DOMAIN s2, NEW j \in DOMAIN s2, i < j
               PROVE  Before(s2[i], s2[j])
    BY DEF Sorted
  <2>1. CASE j \in DOMAIN s
    BY <1>1, <1>2, <2>1 DEF Sorted
  <2>2. CASE i \in DOMAIN s /\ j \notin DOMAIN s
    BY <1>1, <1>2, <2>2 DEF Ahead
  <2>3. CASE i \notin DOMAIN s /\ j \notin DOMAIN s
    BY <1>1, <1>2, <2>3 DEF Sorted
  <2> QED
    BY <1>1, <1>2, <2>1, <2>2, <2>3
<1>4. Sorted(t2)
  BY <1>1, <1>2 DEF Sorted
<1>5. Ahead(s2, t2)
  <2> SUFFICES ASSUME NEW i \in DOMAIN s2, NEW j \in DOMAIN t2
               PROVE  Before(s2[i], t2[j])
    BY DEF Ahead
  <2>1. CASE i \in DOMAIN s
    BY <1>2, <2>1 DEF Ahead
  <2>2. CASE i \notin DOMAIN s
    BY <1>1, <1>2, <2>2 DEF Sorted
  <2> QED
    BY <2>1, <2>2
<1> QED
  BY <1>3, <1>4, <1>5

\* What holds of every line of s and t holds of every line after the move.
LEMMA MoveKeeps ==
  ASSUME NEW s \in Seq(Line), NEW t \in Seq(Line), NEW n \in 0 .. Len(t),
         NEW s2, NEW t2, Moved(s, t, n, s2, t2)
  PROVE  /\ \A k : Within(s, k) /\ Within(t, k) => Within(s2, k) /\ Within(t2, k)
         /\ \A as : AllPast(as, s) /\ AllPast(as, t) => AllPast(as, s2)
         /\ \A as : AllPast(as, t) => AllPast(as, t2)
         /\ \A u : Ahead(s, u) /\ Ahead(t, u) => Ahead(s2, u)
         /\ \A u : Ahead(t, u) => Ahead(t2, u)
         /\ \A u : Ahead(u, s) /\ Ahead(u, t) => Ahead(u, s2)
         /\ \A u : Ahead(u, t) => Ahead(u, t2)
<1>1. /\ \A i \in DOMAIN s : s2[i] = s[i]
      /\ \A i \in DOMAIN s2 \ DOMAIN s : i - Len(s) \in DOMAIN t /\ s2[i] = t[i - Len(s)]
      /\ \A i \in DOMAIN t2 : n + i \in DOMAIN t /\ t2[i] = t[n + i]
  BY Move
<1>2. \A k : Within(s, k) /\ Within(t, k) => Within(s2, k) /\ Within(t2, k)
  BY <1>1 DEF Within
<1>3. /\ \A as : AllPast(as, s) /\ AllPast(as, t) => AllPast(as, s2)
      /\ \A as : AllPast(as, t) => AllPast(as, t2)
  BY <1>1 DEF AllPast
<1>4. /\ \A u : Ahead(s, u) /\ Ahead(t, u) => Ahead(s2, u)
      /\ \A u : Ahead(t, u) => Ahead(t2, u)
  BY <1>1 DEF Ahead
<1>5. /\ \A u : Ahead(u, s) /\ Ahead(u, t) => Ahead(u, s2)
      /\ \A u : Ahead(u, t) => Ahead(u, t2)
  BY <1>1 DEF Ahead
<1> QED
  BY <1>2, <1>3, <1>4, <1>5

LEMMA NoLines ==
  /\ <<>> \in Seq(Line) /\ Len(<<>>) = 0 /\ Sorted(<<>>)
  /\ \A n : Within(<<>>, n)
  /\ \A as : AllPast(as, <<>>)
  /\ \A u : Ahead(<<>>, u) /\ Ahead(u, <<>>)
BY EmptySeq DEF Sorted, Within, AllPast, Ahead

LEMMA LinesOfRequest ==
  ASSUME NEW r \in Requests, NEW i \in Nat
  PROVE  /\ Lines(r, i) \in Seq(Line) /\ Len(Lines(r, i)) = r.headers + 2
         /\ DOMAIN Lines(r, i) = 1 .. r.headers + 2
         /\ \A k \in DOMAIN Lines(r, i) : Lines(r, i)[k].req = i /\ Lines(r, i)[k].line = k
         /\ Sorted(Lines(r, i))
<1>1. r.headers + 2 \in Nat
  BY HttpAssumption DEF HttpAssumption, IsRequest
<1>2. Lines(r, i) \in [1 .. r.headers + 2 -> Line]
  BY <1>1 DEF Lines, Line
<1>3. Lines(r, i) \in Seq(Line) /\ Len(Lines(r, i)) = r.headers + 2
  BY <1>1, <1>2, SeqDef, LenProperties
<1> QED
  BY <1>1, <1>3 DEF Lines, Sorted, Before

LEMMA AnswerRange ==
  ASSUME NEW as \in Seq(AnswerType), NEW i \in DOMAIN as
  PROVE  /\ as[i] \in AnswerType
         /\ as[i].req \in Nat /\ as[i].count \in Nat /\ as[i].length \in Nat
         /\ as[i].done \in BOOLEAN
<1>1. i \in 1 .. Len(as)
  BY LenProperties
<1>2. as[i] \in AnswerType
  BY <1>1, ElementOfSeq
<1> DEFINE a == as[i]
<1> HIDE DEF a
<1>3. a \in AnswerType => /\ a.req \in Nat /\ a.count \in Nat /\ a.length \in 0 .. WordSize - 1
                        /\ a.done \in BOOLEAN
  BY DEF AnswerType
<1>4. \A n \in 0 .. WordSize - 1 : n \in Nat
  BY HttpAssumption DEF HttpAssumption
<1> QED
  BY <1>2, <1>3, <1>4 DEF a

-----------------------------------------------------------------------------
LEMMA InitHInv == Init => HInv
<1> SUFFICES ASSUME Init PROVE HInv
  OBVIOUS
<1>1. /\ Len(<<>>) = 0 /\ DOMAIN <<>> = {}
      /\ <<>> \in Seq(Requests) /\ <<>> \in Seq(AnswerType)
  BY EmptySeq
<1>2. NoReply \in ReplyType
  BY NoContentTyped DEF NoReply
<1>3. Typed
  <2>1. <<>> \in Seq(Line)
    BY NoLines
  <2>2. /\ sent = <<>> /\ held = <<>> /\ wire = <<>> /\ buf = <<>> /\ answers = <<>>
        /\ stage = "reading" /\ reply = NoReply /\ file_fd = FALSE /\ open_files = 0
        /\ offset = 0 /\ to_write = 0 /\ already_written = 0
    BY DEF Init
  <2>3. /\ sent \in Seq(Requests) /\ answers \in Seq(AnswerType)
        /\ held \in Seq(Line) /\ wire \in Seq(Line) /\ buf \in Seq(Line)
    BY <1>1, <2>1, <2>2
  <2>4. /\ offset \in Nat /\ to_write \in Nat /\ already_written \in Nat
        /\ open_files \in Int
    BY <2>2
  <2> QED
    BY <1>2, <2>2, <2>3, <2>4 DEF Typed
<1>4. FilesClosed /\ ReadsSomething
  BY <1>1, HttpAssumption DEF HttpAssumption, Init, FilesClosed, ReadsSomething
<1>5. StreamOK
  BY NoLines DEF Init, StreamOK
<1>6. OrderOK
  BY <1>1, NoLines DEF Init, OrderOK, AnswersInOrder
<1>7. BodyOK
  BY <1>1 DEF Init, BodyOK, LengthHonoured
<1> QED
  BY <1>3, <1>4, <1>5, <1>6, <1>7 DEF HInv

-----------------------------------------------------------------------------
(* The client. *)

LEMMA Sending ==
  ASSUME HInv, NEW lines \in Seq(Line), NEW n \in 0 .. Len(lines), Send(lines, n),
         Sorted(lines), Ahead(wire, lines), Ahead(buf, lines),
         AllPast(answers, lines), Within(lines, Len(sent')),
         sent' \in Seq(Requests), Len(sent) <= Len(sent'),
         \A i \in 1 .. Len(sent) : sent'[i] = sent[i],
         UNCHANGED <<parsed, body, stage, file_fd, open_files, answers>>
  PROVE  HInv'
<1> USE DEF parsed, body
<1>1. Len(sent) \in Nat /\ Len(sent') \in Nat
  BY LenProperties DEF HInv, Typed
<1>m. Moved(wire, lines, n, wire', held')
  BY DEF Send, Moved
<1>2. /\ wire' \in Seq(Line) /\ held' \in Seq(Line)
      /\ Sorted(wire') /\ Sorted(held') /\ Ahead(wire', held')
  BY <1>m, Move, MoveSorted DEF HInv, Typed, StreamOK
<1>3. /\ AllPast(answers, wire') /\ AllPast(answers, held')
      /\ Ahead(buf, wire') /\ Ahead(buf, held')
  BY <1>m, MoveKeeps DEF HInv, Typed, StreamOK, OrderOK
<1>4. Within(wire, Len(sent')) /\ Within(buf, Len(sent'))
  BY <1>1 DEF HInv, StreamOK, Within
<1>5. Within(wire', Len(sent')) /\ Within(held', Len(sent'))
  BY <1>4, <1>m, MoveKeeps DEF HInv, Typed
<1>6. Typed'
  BY <1>2 DEF HInv, Typed
<1>7. FilesClosed' /\ ReadsSomething' /\ BodyOK'
  BY DEF HInv, FilesClosed, ReadsSomething, BodyOK, LengthHonoured
<1>8. StreamOK'
  BY <1>2, <1>3, <1>4, <1>5 DEF HInv, StreamOK
<1>9. buf # <<>> => StartOf(buf)' = StartOf(buf)
  <2> SUFFICES ASSUME buf # <<>> PROVE StartOf(buf)' = StartOf(buf)
    OBVIOUS
  <2>1. 1 \in DOMAIN buf
    BY LenProperties, EmptySeq DEF HInv, Typed
  <2>2. buf[1].req \in 1 .. Len(sent)
    BY <2>1 DEF HInv, StreamOK, Within
  <2> QED
    BY <2>2 DEF StartOf, IsEmpty
<1>10. OrderOK'
  <2>1. AnswersInOrder'
    BY DEF HInv, OrderOK, AnswersInOrder
  <2>2. \A i \in DOMAIN answers : answers[i].req <= Len(sent')
    <3> SUFFICES ASSUME NEW i \in DOMAIN answers PROVE answers[i].req <= Len(sent')
      OBVIOUS
    <3>1. answers[i].req \in Nat
      BY AnswerRange DEF HInv, Typed
    <3>2. answers[i].req <= Len(sent)
      BY DEF HInv, OrderOK
    <3> QED
      BY <1>1, <3>1, <3>2
  <2>3. (stage \in {"reading", "header"} => AllPast(answers, buf))'
    BY DEF HInv, OrderOK
  <2>4. (stage = "header" => buf # <<>> /\ (reply.status = 400 \/ IsFirst(buf[StartOf(buf)])))'
    BY <1>9 DEF HInv, OrderOK, IsFirst
  <2> QED
    BY <1>3, <2>1, <2>2, <2>3, <2>4 DEF OrderOK
<1> QED
  BY <1>6, <1>7, <1>8, <1>10 DEF HInv

LEMMA ClientStep == HInv /\ (SendMore \/ \E r \in Requests : Ask(r)) => HInv'
<1>1. ASSUME HInv, SendMore PROVE HInv'
  <2>1. PICK n \in 1 .. Len(held) : Send(held, n)
    BY <1>1 DEF SendMore
  <2>2. n \in 0 .. Len(held)
    BY LenProperties, <1>1 DEF HInv, Typed
  <2> QED
    BY <1>1, <2>1, <2>2, Sending DEF SendMore, HInv, Typed, StreamOK, OrderOK
<1>2. ASSUME HInv, NEW r \in Requests, Ask(r) PROVE HInv'
  <2> DEFINE lines == Lines(r, Len(sent) + 1)
  <2>1. Len(sent) \in Nat /\ held = <<>>
    BY <1>2, LenProperties DEF HInv, Typed, Ask
  <2>2. /\ lines \in Seq(Line) /\ Len(lines) \in Nat /\ DOMAIN lines = 1 .. Len(lines)
        /\ \A k \in DOMAIN lines : lines[k].req = Len(sent) + 1 /\ lines[k].line = k
        /\ Sorted(lines)
    BY <2>1, LinesOfRequest, LenProperties
  <2>3. PICK n \in Pieces(lines) : Send(lines, n)
    BY <1>2 DEF Ask
  <2> HIDE DEF lines
  <2>4. n \in 0 .. Len(lines)
    <3>1. n \in 1 .. Len(lines) \/ n = Len(lines)
      BY <2>3 DEF Pieces
    <3> QED
      BY <2>2, <3>1
  <2>5. /\ sent' \in Seq(Requests) /\ Len(sent') = Len(sent) + 1
        /\ \A i \in 1 .. Len(sent) : sent'[i] = sent[i]
    <3>1. sent \in Seq(Requests) /\ sent' = Append(sent, r)
      BY <1>2 DEF HInv, Typed, Ask
    <3> QED
      BY <3>1, AppendProperties
  <2>6. Ahead(wire, lines) /\ Ahead(buf, lines)
    BY <1>2, <2>1, <2>2 DEF HInv, StreamOK, Ahead, Within, Before
  <2>7. AllPast(answers, lines)
    <3> SUFFICES ASSUME NEW i \in DOMAIN answers, NEW k \in DOMAIN lines
                 PROVE  Past(answers[i], lines[k])
      BY DEF AllPast
    <3>1. answers[i].req \in Nat /\ answers[i].req <= Len(sent)
      BY <1>2, AnswerRange DEF HInv, Typed, OrderOK
    <3> QED
      BY <2>1, <2>2, <3>1 DEF Past
  <2>8. Within(lines, Len(sent'))
    BY <2>1, <2>2, <2>5 DEF Within
  <2>9. UNCHANGED <<parsed, body, stage, file_fd, open_files, answers>>
    BY <1>2 DEF Ask
  <2>10. Len(sent) <= Len(sent')
    BY <2>1, <2>5
  <2>11. Sorted(lines) /\ lines \in Seq(Line)
    BY <2>2
  <2> QED
    BY <1>2, <2>3, <2>4, <2>5, <2>6, <2>7, <2>8, <2>9, <2>10, <2>11, Sending
<1> QED
  BY <1>1, <1>2

-----------------------------------------------------------------------------
(* Pieces of the steps: what a request is, an answer, the end of one.      *)

\* phr_parse_request finds a request only behind a request line, where
\* Subject takes it from.
LEMMA ParsedFirst ==
  ASSUME NEW b, NEW prev, NEW limit, Len(b) \in Nat \ {0},
         Parse(b, prev, limit).code = "done"
  PROVE  IsFirst(b[StartOf(b)])
BY DEF Parse, StartOf

LEMMA SubjectLine ==
  ASSUME NEW b \in Seq(Line), b # <<>>, Within(b, Len(sent))
  PROVE  /\ StartOf(b) \in DOMAIN b
         /\ Subject(b) = b[StartOf(b)].req
         /\ Subject(b) \in 1 .. Len(sent)
         /\ b[StartOf(b)].line \in Nat \ {0}
<1>1. Len(b) \in Nat \ {0} /\ DOMAIN b = 1 .. Len(b)
  BY EmptySeq, LenProperties
<1>2. StartOf(b) \in DOMAIN b
  BY <1>1 DEF StartOf
<1>3. Subject(b) = b[StartOf(b)].req
  BY DEF Subject, StartOf
<1>4. b[StartOf(b)] \in Line
  BY <1>1, <1>2, ElementOfSeq
<1>5. b[StartOf(b)].line \in Nat
  BY <1>4 DEF Line
<1> QED
  BY <1>2, <1>3, <1>5 DEF Within

LEMMA Responds ==
  ASSUME NEW r \in Requests, reply \in ReplyType, offset \in Nat, Respond(r)
  PROVE  /\ reply' \in ReplyType /\ offset' \in Nat
         /\ stage' \in {"header", "aborted"}
         /\ stage' = "header" => reply'.content \/ reply'.length = 0
         /\ file_fd' \in BOOLEAN
         /\ open_files' = open_files + IF file_fd' THEN 1 ELSE 0
<1>1. r.ask.first \in Nat /\ r.ask.last \in Int
  BY HttpAssumption DEF HttpAssumption, IsRequest
<1>2. file_fd' \in BOOLEAN /\ open_files' = open_files + IF file_fd' THEN 1 ELSE 0
  BY DEF Respond
<1>3. CASE Throws(r)
  BY <1>2, <1>3 DEF Respond
<1>4. CASE ~Throws(r) /\ r.target = "file" /\ r.ask.kind = "range"
  <2>1. PICK n \in RangeLengths(r.ask.first, r.ask.last) :
          reply' = Reply(206, TRUE, n) /\ offset' = r.ask.first /\ stage' = "header"
    BY <1>4 DEF Respond
  <2>2. n \in 0 .. WordSize - 1
    <3> DEFINE length == RangeEnd(r.ask.first, r.ask.last) - r.ask.first + 1
    <3>1. n \in {Word(length), Word(Narrow(length))}
      BY DEF RangeLengths
    <3>2. FileSize \in Int
      BY HttpAssumption DEF HttpAssumption
    <3>3. Narrow(FileSize - 1) \in Int
      BY <3>2, NarrowRange
    <3>4. length \in Int
      BY <1>1, <3>2, <3>3 DEF RangeEnd
    <3> HIDE DEF length
    <3> QED
      BY <3>1, <3>4, NarrowRange, WordRange
  <2>4. reply' \in ReplyType /\ reply'.content
    BY <2>1, <2>2, ContentTyped, ZenonT(40)
  <2> QED
    BY <1>1, <1>2, <2>1, <2>4
<1>5. CASE ~Throws(r) /\ ~(r.target = "file" /\ r.ask.kind = "range")
  <2>1. /\ reply' \in {Reply(404, FALSE, 0), Reply(200, TRUE, FileSize),
                       Reply(304, FALSE, 0), Reply(400, FALSE, 0)}
        /\ offset' = offset /\ stage' = "header"
    <3>1. /\ reply' = IF r.target = "missing" THEN Reply(404, FALSE, 0)
                      ELSE IF r.ask.kind = "whole" THEN Reply(200, TRUE, FileSize)
                      ELSE IF r.ask.kind = "since" THEN Reply(304, FALSE, 0)
                      ELSE Reply(400, FALSE, 0)
          /\ offset' = offset /\ stage' = "header"
      BY <1>5 DEF Respond
    <3> QED
      BY <3>1
  <2>2. FileSize \in 0 .. WordSize - 1
    BY HttpAssumption DEF HttpAssumption
  <2>3. CASE reply' = Reply(200, TRUE, FileSize)
    <3>1. Reply(200, TRUE, FileSize) \in ReplyType /\ Reply(200, TRUE, FileSize).content
      BY <2>2, ContentTyped, ZenonT(40)
    <3> QED
      BY <1>2, <2>1, <2>3, <3>1
  <2>4. ASSUME NEW status \in {404, 304, 400}, reply' = Reply(status, FALSE, 0)
        PROVE  reply' \in ReplyType /\ reply'.length = 0
    <3>1. status \in Nat
      OBVIOUS
    <3> QED
      BY <2>4, <3>1, NoContentTyped
  <2>5. CASE reply' # Reply(200, TRUE, FileSize)
    <3>1. reply' \in ReplyType /\ reply'.length = 0
      BY <2>1, <2>4, <2>5, ZenonT(40)
    <3> QED
      BY <1>2, <2>1, <3>1
  <2> QED
    BY <2>3, <2>5
<1> QED
  BY <1>3, <1>4, <1>5

LEMMA Closes ==
  ASSUME file_fd \in BOOLEAN, open_files = IF file_fd THEN 1 ELSE 0, CloseFile
  PROVE  open_files' = 0
<1>1. open_files' = open_files - IF file_fd THEN 1 ELSE 0
  BY DEF CloseFile
<1>2. CASE file_fd
  BY <1>1, <1>2
<1>3. CASE ~file_fd
  BY <1>1, <1>3
<1> QED
  BY <1>2, <1>3

\* http_finish_callback leaves nothing open and an empty buffer.
LEMMA Finishes ==
  ASSUME HInv, stage # "aborted", Finish
  PROVE  /\ FilesClosed' /\ ReadsSomething'
         /\ stage' = "reading" /\ buf' = <<>> /\ reply' \in ReplyType
         /\ file_fd' \in BOOLEAN /\ open_files' \in Int
<1>1. /\ file_fd' = FALSE /\ open_files' = open_files - IF file_fd THEN 1 ELSE 0
      /\ buf' = <<>> /\ reply' = NoReply /\ stage' = "reading"
  BY DEF Finish, CloseFile, AcceptLogic
<1>2. file_fd \in BOOLEAN /\ open_files = IF file_fd THEN 1 ELSE 0
  BY DEF HInv, Typed, FilesClosed
<1>3. open_files' = 0
  BY <1>2, Closes DEF Finish
<1>4. reply' \in ReplyType
  BY <1>1, NoContentTyped DEF NoReply
<1>5. Len(buf') < BufSize
  BY <1>1, HttpAssumption, EmptySeq DEF HttpAssumption
<1>6. FilesClosed'
  BY <1>1, <1>3 DEF FilesClosed
<1>7. ReadsSomething'
  BY <1>5 DEF ReadsSomething
<1>8. open_files' \in Int
  BY <1>3
<1> QED
  BY <1>1, <1>4, <1>6, <1>7, <1>8

\* The lines stay as they are when a step reads none.
LEMMA StreamStays ==
  ASSUME StreamOK, UNCHANGED input, buf' = buf \/ buf' = <<>>
  PROVE  StreamOK'
<1>1. sent' = sent /\ wire' = wire /\ held' = held
  BY DEF input
<1>2. CASE buf' = buf
  BY <1>1, <1>2 DEF StreamOK
<1>3. CASE buf' = <<>>
  <2>1. /\ Sorted(buf') /\ Ahead(buf', wire) /\ Ahead(buf', held)
        /\ Within(buf', Len(sent))
    BY <1>3, NoLines
  <2> QED
    BY <1>1, <2>1 DEF StreamOK
<1> QED
  BY <1>2, <1>3

-----------------------------------------------------------------------------
(* The callbacks. *)

LEMMA ReadStep ==
  ASSUME HInv, Read
  PROVE  HInv'
<1> DEFINE n == Least(Len(wire), BufSize - Len(buf))
           b == buf \o SubSeq(wire, 1, n)
           p == Parse(b, Len(buf), num_headers)
<1>1. /\ stage = "reading" /\ wire # <<>>
      /\ wire' = SubSeq(wire, n + 1, Len(wire))
      /\ sent' = sent /\ held' = held /\ to_write' = to_write
      /\ already_written' = already_written /\ answers' = answers
      /\ \/ p.code = "done" /\ Respond(sent[Subject(b)]) /\ buf' = b
         \/ /\ p.code = "bad" /\ reply' = Reply(400, FALSE, 0) /\ stage' = "header" /\ buf' = b
            /\ UNCHANGED <<file_fd, open_files, offset>>
         \/ p.code = "partial" /\ buf' = b /\ ~Full(b)
            /\ UNCHANGED <<reply, stage, file_fd, open_files, offset>>
         \/ p.code = "partial" /\ Finish /\ UNCHANGED offset
  BY DEF Read
<1>2. /\ Len(wire) \in Nat \ {0} /\ Len(buf) \in Nat /\ BufSize \in Nat /\ Len(buf) < BufSize
      /\ wire \in Seq(Line) /\ buf \in Seq(Line) /\ held \in Seq(Line) /\ Len(sent) \in Nat
  BY <1>1, EmptySeq, LenProperties, HttpAssumption
  DEF HttpAssumption, HInv, Typed, ReadsSomething
<1>3. n \in 1 .. Len(wire) /\ n <= BufSize - Len(buf)
  BY <1>2 DEF Least
<1>4. Moved(buf, wire, n, b, wire') /\ n \in 0 .. Len(wire)
  BY <1>1, <1>2, <1>3 DEF Moved
<1> HIDE DEF n, b, p
<1>5. /\ b \in Seq(Line) /\ wire' \in Seq(Line) /\ Len(b) = Len(buf) + n
      /\ Sorted(b) /\ Sorted(wire') /\ Ahead(b, wire')
  BY <1>2, <1>4, Move, MoveSorted DEF HInv, StreamOK
<1>6. /\ Within(b, Len(sent)) /\ Within(wire', Len(sent))
      /\ Ahead(b, held) /\ Ahead(wire', held)
      /\ AllPast(answers, b) /\ AllPast(answers, wire')
  BY <1>1, <1>2, <1>4, MoveKeeps DEF HInv, StreamOK, OrderOK
<1>7. Len(b) \in Nat \ {0} /\ Len(b) <= BufSize /\ b # <<>>
  BY <1>2, <1>3, <1>5, EmptySeq
<1>8. /\ ~file_fd /\ open_files = 0 /\ file_fd \in BOOLEAN /\ reply \in ReplyType
      /\ offset \in Nat /\ AnswersInOrder /\ LengthHonoured
      /\ \A i \in DOMAIN answers : answers[i].req <= Len(sent)
      /\ AllPast(answers, held)
  BY <1>1 DEF HInv, Typed, FilesClosed, OrderOK, BodyOK
\* What every way a read ends has in common.
<1>9. ASSUME buf' = b \/ buf' = <<>>,
             reply' \in ReplyType, offset' \in Nat, file_fd' \in BOOLEAN, open_files' \in Int,
             stage' \in {"reading", "header", "aborted"},
             FilesClosed', ReadsSomething',
             stage' = "header" => /\ buf' = b /\ (reply'.status = 400 \/ IsFirst(b[StartOf(b)]))
                                  /\ reply'.content \/ reply'.length = 0
      PROVE  HInv'
  <2>1. /\ buf' \in Seq(Line) /\ Sorted(buf') /\ Ahead(buf', wire') /\ Ahead(buf', held)
        /\ Within(buf', Len(sent)) /\ AllPast(answers, buf')
    BY <1>5, <1>6, <1>9, NoLines
  <2>2. Typed'
    BY <1>1, <1>5, <1>9, <2>1 DEF HInv, Typed
  <2>3. StreamOK'
    BY <1>1, <1>5, <1>6, <2>1 DEF HInv, StreamOK
  <2>4. stage' = "header" => /\ buf' # <<>>
                             /\ reply'.status = 400 \/ IsFirst(buf'[StartOf(buf)'])
    BY <1>1, <1>7, <1>9 DEF IsFirst, StartOf, IsEmpty
  <2>5. OrderOK'
    BY <1>1, <1>6, <1>8, <2>1, <2>4 DEF OrderOK, AnswersInOrder, IsFirst
  <2>6. BodyOK'
    BY <1>1, <1>8, <1>9 DEF BodyOK, LengthHonoured
  <2> QED
    BY <1>9, <2>2, <2>3, <2>5, <2>6 DEF HInv
<1>10. CASE p.code = "done" /\ Respond(sent[Subject(b)]) /\ buf' = b
  <2>1. sent[Subject(b)] \in Requests
    BY <1>5, <1>6, <1>7, SubjectLine, ElementOfSeq DEF HInv, Typed
  <2>2. /\ reply' \in ReplyType /\ offset' \in Nat /\ stage' \in {"header", "aborted"}
        /\ stage' = "header" => reply'.content \/ reply'.length = 0
        /\ file_fd' \in BOOLEAN /\ open_files' = open_files + IF file_fd' THEN 1 ELSE 0
    BY <1>8, <1>10, <2>1, Responds
  <2>3. open_files' \in Int /\ FilesClosed' /\ ReadsSomething'
    BY <1>8, <2>2 DEF FilesClosed, ReadsSomething
  <2>4. IsFirst(b[StartOf(b)])
    BY <1>7, <1>10, ParsedFirst DEF p
  <2> QED
    BY <1>9, <1>10, <2>2, <2>3, <2>4
<1>11. CASE /\ p.code = "bad" /\ reply' = Reply(400, FALSE, 0) /\ stage' = "header" /\ buf' = b
            /\ UNCHANGED <<file_fd, open_files, offset>>
  <2>1. 400 \in Nat /\ reply' = Reply(400, FALSE, 0)
    BY <1>11
  <2>2. reply' \in ReplyType /\ reply'.length = 0
    BY <2>1, NoContentTyped, ZenonT(40)
  <2>3. reply'.status = 400
    BY <1>11 DEF Reply
  <2>4. open_files' \in Int /\ FilesClosed' /\ ReadsSomething'
    BY <1>8, <1>11 DEF FilesClosed, ReadsSomething
  <2> QED
    BY <1>8, <1>9, <1>11, <2>2, <2>3, <2>4
<1>12. CASE /\ p.code = "partial" /\ buf' = b /\ ~Full(b)
            /\ UNCHANGED <<reply, stage, file_fd, open_files, offset>>
  <2>1. Len(buf') < BufSize
    BY <1>2, <1>7, <1>12 DEF Full
  <2>2. open_files' \in Int /\ FilesClosed' /\ ReadsSomething'
    BY <1>1, <1>8, <1>12, <2>1 DEF FilesClosed, ReadsSomething
  <2> QED
    BY <1>1, <1>8, <1>9, <1>12, <2>2
<1>13. CASE p.code = "partial" /\ Finish /\ UNCHANGED offset
  BY <1>1, <1>8, <1>9, <1>13, Finishes
<1> QED
  BY <1>1, <1>10, <1>11, <1>12, <1>13

\* The answer to a request that no earlier answer is past.
LEMMA AnswersGrow ==
  ASSUME HInv, stage = "header", NEW a \in AnswerType,
         a.req = Subject(buf), a.status = reply.status,
         answers' = Append(answers, a), UNCHANGED input
  PROVE  /\ answers' \in Seq(AnswerType) /\ Len(answers') = Len(answers) + 1
         /\ DOMAIN answers' = 1 .. Len(answers) + 1
         /\ \A i \in DOMAIN answers : answers'[i] = answers[i]
         /\ answers'[Len(answers) + 1] = a
         /\ AnswersInOrder'
         /\ \A i \in DOMAIN answers' : answers'[i].req <= Len(sent)
         /\ AllPast(answers', wire) /\ AllPast(answers', held)
<1> DEFINE k == StartOf(buf)
<1>1. /\ answers \in Seq(AnswerType) /\ buf \in Seq(Line)
      /\ Len(answers) \in Nat /\ DOMAIN answers = 1 .. Len(answers) /\ Len(sent) \in Nat
  BY LenProperties DEF HInv, Typed
<1>2. /\ answers' \in Seq(AnswerType) /\ Len(answers') = Len(answers) + 1
      /\ \A i \in 1 .. Len(answers) : answers'[i] = answers[i]
      /\ answers'[Len(answers) + 1] = a
  BY <1>1, AppendProperties
<1>3. DOMAIN answers' = 1 .. Len(answers) + 1
  BY <1>2, LenProperties
<1>4. /\ k \in DOMAIN buf /\ a.req = buf[k].req
      /\ a.req \in 1 .. Len(sent) /\ buf[k].line \in Nat \ {0}
  BY <1>1, SubjectLine DEF HInv, StreamOK, OrderOK
<1>5. reply.status = 400 \/ IsFirst(buf[k])
  BY DEF HInv, OrderOK
<1> HIDE DEF k
<1>6. \A i \in DOMAIN answers : /\ answers[i].req \in Nat /\ answers[i].req <= Len(sent)
                                /\ Past(answers[i], buf[k])
  BY <1>1, <1>4, AnswerRange DEF HInv, OrderOK, AllPast
<1>7. \A i \in DOMAIN answers :
        answers[i].req <= a.req /\ (answers[i].req = a.req => a.status = 400)
  BY <1>1, <1>4, <1>5, <1>6 DEF Past
<1>8. AnswersInOrder'
  <2> SUFFICES ASSUME NEW i \in DOMAIN answers', NEW j \in DOMAIN answers', i < j
               PROVE  /\ answers'[i].req <= answers'[j].req
                      /\ answers'[i].req = answers'[j].req => answers'[j].status = 400
    BY DEF AnswersInOrder
  <2>1. i \in DOMAIN answers
    BY <1>1, <1>3
  <2>2. CASE j \in DOMAIN answers
    BY <1>1, <1>2, <2>1, <2>2 DEF HInv, OrderOK, AnswersInOrder
  <2>3. CASE j = Len(answers) + 1
    BY <1>1, <1>2, <1>7, <2>1, <2>3
  <2> QED
    BY <1>1, <1>3, <2>2, <2>3
<1>9. \A i \in DOMAIN answers' : answers'[i].req <= Len(sent)
  <2> SUFFICES ASSUME NEW i \in DOMAIN answers' PROVE answers'[i].req <= Len(sent)
    OBVIOUS
  <2>1. CASE i \in DOMAIN answers
    BY <1>1, <1>2, <1>6, <2>1
  <2>2. CASE i = Len(answers) + 1
    BY <1>1, <1>2, <1>4, <2>2
  <2> QED
    BY <1>1, <1>3, <2>1, <2>2
<1>10. ASSUME NEW s \in Seq(Line), Ahead(buf, s), AllPast(answers, s), Within(s, Len(sent))
       PROVE  AllPast(answers', s)
  <2> SUFFICES ASSUME NEW i \in DOMAIN answers', NEW j \in DOMAIN s
               PROVE  Past(answers'[i], s[j])
    BY DEF AllPast
  <2>1. CASE i \in DOMAIN answers
    BY <1>1, <1>2, <1>10, <2>1 DEF AllPast
  <2>2. Past(a, s[j])
    <3>1. Before(buf[k], s[j]) /\ s[j] \in Line
      BY <1>4, <1>10, ElementOfSeq, LenProperties DEF Ahead
    <3> QED
      BY <1>4, <3>1 DEF Before, Past, IsFirst, Line
  <2> QED
    BY <1>1, <1>2, <1>3, <2>1, <2>2
<1>11. AllPast(answers', wire) /\ AllPast(answers', held)
  BY <1>10 DEF HInv, Typed, StreamOK, OrderOK
<1> QED
  BY <1>1, <1>2, <1>3, <1>8, <1>9, <1>11

NewAnswer ==
  [req |-> Subject(buf), status |-> reply.status, length |-> reply.length,
   first |-> IF reply.content THEN offset ELSE 0, count |-> 0, done |-> ~reply.content]

LEMMA HeaderWritten ==
  ASSUME HInv, WriteHeader
  PROVE  /\ Len(answers) \in Nat /\ DOMAIN answers = 1 .. Len(answers)
         /\ answers' \in Seq(AnswerType) /\ Len(answers') = Len(answers) + 1
         /\ DOMAIN answers' = 1 .. Len(answers) + 1
         /\ \A i \in DOMAIN answers : answers'[i] = answers[i]
         /\ answers'[Len(answers) + 1] = NewAnswer
         /\ AnswersInOrder'
         /\ \A i \in DOMAIN answers' : answers'[i].req <= Len(sent)
         /\ AllPast(answers', wire) /\ AllPast(answers', held)
<1>1. stage = "header" /\ answers' = Append(answers, NewAnswer) /\ UNCHANGED input
  BY DEF WriteHeader, NewAnswer
<1>2. buf \in Seq(Line) /\ buf # <<>> /\ reply \in ReplyType /\ offset \in Nat
  BY <1>1 DEF HInv, Typed, OrderOK
<1>3. Subject(buf) \in Nat
  <2>1. Subject(buf) \in 1 .. Len(sent) /\ Len(sent) \in Nat
    BY <1>2, SubjectLine, LenProperties DEF HInv, Typed, StreamOK
  <2> QED
    BY <2>1
<1>4. reply.status \in Nat /\ reply.length \in 0 .. WordSize - 1
  BY <1>2 DEF ReplyType
<1>5. NewAnswer \in AnswerType
  <2>1. (~reply.content) \in BOOLEAN /\ (IF reply.content THEN offset ELSE 0) \in Nat
    BY <1>2
  <2> QED
    BY <1>3, <1>4, <2>1 DEF AnswerType, NewAnswer
<1>6. NewAnswer.req = Subject(buf) /\ NewAnswer.status = reply.status
  BY DEF NewAnswer
<1>7. Len(answers) \in Nat /\ DOMAIN answers = 1 .. Len(answers)
  BY LenProperties DEF HInv, Typed
<1> QED
  BY <1>1, <1>5, <1>6, <1>7, AnswersGrow

LEMMA WriteHeaderStep ==
  ASSUME HInv, WriteHeader
  PROVE  HInv'
<1> DEFINE a == NewAnswer
<1>1. /\ stage = "header" /\ UNCHANGED input /\ offset' = offset
      /\ \/ /\ reply.content /\ AsyncSendfile /\ stage' = "body"
            /\ UNCHANGED <<parsed, file_fd, open_files>>
         \/ ~reply.content /\ Finish /\ UNCHANGED <<to_write, already_written>>
  BY DEF WriteHeader
<1>2. /\ reply \in ReplyType /\ offset \in Nat
      /\ file_fd \in BOOLEAN /\ open_files \in Int
      /\ Len(answers) \in Nat /\ DOMAIN answers = 1 .. Len(answers)
      /\ to_write \in Nat /\ already_written \in Nat
  BY LenProperties DEF HInv, Typed
<1>3. reply.length \in 0 .. WordSize - 1 /\ (~reply.content => reply.length = 0)
  BY <1>1, <1>2 DEF ReplyType, HInv, BodyOK
<1>4. /\ a.req = Subject(buf) /\ a.status = reply.status /\ a.length = reply.length
      /\ a.count = 0 /\ a.done = ~reply.content
  BY DEF NewAnswer
<1>5. /\ answers' \in Seq(AnswerType) /\ Len(answers') = Len(answers) + 1
      /\ DOMAIN answers' = 1 .. Len(answers) + 1
      /\ \A i \in DOMAIN answers : answers'[i] = answers[i]
      /\ answers'[Len(answers) + 1] = a
      /\ AnswersInOrder'
      /\ \A i \in DOMAIN answers' : answers'[i].req <= Len(sent)
      /\ AllPast(answers', wire) /\ AllPast(answers', held)
  BY HeaderWritten
<1> HIDE DEF a
<1>6. LengthHonoured'
  <2> SUFFICES ASSUME NEW i \in DOMAIN answers', answers'[i].done
               PROVE  answers'[i].count = answers'[i].length
    BY DEF LengthHonoured
  <2>1. CASE i \in DOMAIN answers
    BY <1>5, <2>1 DEF HInv, BodyOK, LengthHonoured
  <2>2. CASE i = Len(answers) + 1
    BY <1>3, <1>4, <1>5, <2>2
  <2> QED
    BY <1>2, <1>5, <2>1, <2>2
<1>7. sent' = sent /\ wire' = wire /\ held' = held
  BY <1>1 DEF input
<1>8. CASE reply.content /\ AsyncSendfile /\ stage' = "body" /\ UNCHANGED <<parsed, file_fd, open_files>>
  <2>1. /\ buf' = buf /\ reply' = reply /\ file_fd' = file_fd /\ open_files' = open_files
        /\ to_write' = Word(reply.length + offset) /\ already_written' = offset
        /\ stage' = "body"
    BY <1>8 DEF parsed, AsyncSendfile
  <2>2. reply.length + offset \in Int
    BY <1>2, <1>3, HttpAssumption DEF HttpAssumption
  <2>3. to_write' \in Nat
    BY <2>1, <2>2, WordRange, HttpAssumption DEF HttpAssumption
  <2>4. Typed'
    BY <1>1, <1>2, <1>5, <1>7, <2>1, <2>3 DEF HInv, Typed
  <2>5. FilesClosed' /\ ReadsSomething'
    BY <1>1, <2>1 DEF HInv, FilesClosed, ReadsSomething
  <2>6. StreamOK'
    BY <1>1, <2>1, StreamStays DEF HInv
  <2>7. OrderOK'
    BY <1>5, <1>7, <2>1 DEF OrderOK
  <2>8. answers' # <<>> /\ answers'[Len(answers')] = a
    BY <1>2, <1>5, EmptySeq
  <2>9. already_written' = offset' + answers'[Len(answers')].count
    BY <1>1, <1>2, <1>4, <2>1, <2>8
  <2>10. BodyOK'
    BY <1>1, <1>4, <1>6, <1>8, <2>1, <2>8, <2>9 DEF BodyOK, Word
  <2> QED
    BY <2>4, <2>5, <2>6, <2>7, <2>10 DEF HInv
<1>9. CASE ~reply.content /\ Finish /\ UNCHANGED <<to_write, already_written>>
  <2>1. /\ FilesClosed' /\ ReadsSomething'
        /\ stage' = "reading" /\ buf' = <<>> /\ reply' \in ReplyType
        /\ file_fd' \in BOOLEAN /\ open_files' \in Int
    BY <1>1, <1>9, Finishes
  <2>2. Typed'
    BY <1>1, <1>2, <1>5, <1>7, <1>9, <2>1, NoLines DEF HInv, Typed
  <2>3. StreamOK'
    BY <1>1, <2>1, StreamStays DEF HInv
  <2>4. OrderOK'
    BY <1>5, <1>7, <2>1, NoLines DEF OrderOK
  <2>5. BodyOK'
    BY <1>6, <2>1 DEF BodyOK
  <2> QED
    BY <2>1, <2>2, <2>3, <2>4, <2>5 DEF HInv
<1> QED
  BY <1>1, <1>8, <1>9

\* What is sent of a body reaches to_write only when it is the whole body: when
\* to_write wrapped around, it is behind what is sent.
LEMMA SentWhole ==
  ASSUME NEW length \in 0 .. WordSize - 1, NEW start \in Nat, NEW count \in Nat, NEW n \in Nat \ {0},
         start + count < FileSize, start + count + n = Word(length + start)
  PROVE  count + n = length
<1>1. FileSize \in Nat /\ WordSize \in Nat /\ WordSize > 2 * FileSize
  BY HttpAssumption DEF HttpAssumption
<1>2. CASE length + start < WordSize
  <2>1. length + start \in 0 .. WordSize - 1
    BY <1>1, <1>2
  <2>2. Word(length + start) = length + start
    BY <2>1, WordFits
  <2> QED
    BY <2>2
<1>3. CASE length + start >= WordSize
  <2>1. length + start \in WordSize .. 2 * WordSize - 1 /\ start < FileSize
    BY <1>1, <1>3
  <2> DEFINE m == length + start
  <2>2. Word(m) = m - WordSize
    <3> HIDE DEF m
    <3>1. m \in WordSize .. 2 * WordSize - 1
      BY <2>1 DEF m
    <3> QED
      BY <3>1, WordWraps
  <2> QED
    BY <1>1, <2>1, <2>2
<1> QED
  BY <1>1, <1>2, <1>3

\* sendfile() adds n to an answer.
More(a, n, finished) == [a EXCEPT !.count = @ + n, !.done = finished]

LEMMA MoreTyped ==
  ASSUME NEW a \in AnswerType, NEW n \in Nat, NEW finished \in BOOLEAN
  PROVE  More(a, n, finished) \in AnswerType
<1> DEFINE m == a.count + n
<1>1. m \in Nat
  BY DEF AnswerType
<1> HIDE DEF m
<1>2. [a EXCEPT !.count = m, !.done = finished] \in AnswerType
  BY <1>1 DEF AnswerType
<1> QED
  BY <1>2 DEF m, More

LEMMA MoreKeeps ==
  ASSUME NEW a \in AnswerType, NEW n \in Nat, NEW finished \in BOOLEAN
  PROVE  /\ More(a, n, finished).req = a.req /\ More(a, n, finished).status = a.status
         /\ More(a, n, finished).length = a.length /\ More(a, n, finished).first = a.first
         /\ More(a, n, finished).count = a.count + n
         /\ More(a, n, finished).done = finished
<1>1. /\ More(a, n, finished).req = a.req /\ More(a, n, finished).status = a.status
      /\ More(a, n, finished).length = a.length /\ More(a, n, finished).first = a.first
  BY DEF AnswerType, More
<1>2. More(a, n, finished).count = a.count + n /\ More(a, n, finished).done = finished
  BY DEF AnswerType, More
<1> QED
  BY <1>1, <1>2

\* What sendfile() does when it takes n of the body.
Sent(n, finished) ==
  /\ stage = "body" /\ already_written' = already_written + n
  /\ finished = (already_written + n = to_write)
  /\ IF finished THEN Finish ELSE UNCHANGED <<parsed, stage, file_fd, open_files>>
  /\ UNCHANGED <<input, offset, to_write>>
  /\ already_written + n <= FileSize
  /\ finished => answers[Len(answers)].count + n = reply.length
  /\ answers' \in Seq(AnswerType)
  /\ Len(answers') = Len(answers) /\ DOMAIN answers' = DOMAIN answers
  /\ \A i \in DOMAIN answers :
       /\ answers'[i].req = answers[i].req /\ answers'[i].status = answers[i].status
       /\ answers'[i].length = answers[i].length /\ answers'[i].first = answers[i].first
       /\ i # Len(answers) => answers'[i] = answers[i]
  /\ answers'[Len(answers)].count = answers[Len(answers)].count + n
  /\ answers'[Len(answers)].done = finished

LEMMA BodySent ==
  ASSUME HInv, SendBody
  PROVE  \E n \in 1 .. Sendable, finished \in BOOLEAN : Sent(n, finished)
<1>1. PICK n \in 1 .. Sendable, finished \in BOOLEAN :
        /\ stage = "body" /\ already_written' = already_written + n
        /\ finished = (already_written + n = to_write)
        /\ answers' = [answers EXCEPT ![Len(answers)].count = @ + n,
                                      ![Len(answers)].done = finished]
        /\ IF finished THEN Finish ELSE UNCHANGED <<parsed, stage, file_fd, open_files>>
        /\ UNCHANGED <<input, offset, to_write>>
  BY DEF SendBody
<1> DEFINE L == Len(answers)
<1>2. /\ answers \in Seq(AnswerType) /\ answers # <<>> /\ reply \in ReplyType
      /\ ~answers[L].done /\ answers[L].length = reply.length
  BY <1>1 DEF HInv, Typed, BodyOK
<1>3. L \in Nat \ {0} /\ DOMAIN answers = 1 .. L
  BY <1>2, EmptySeq, LenProperties
<1>4. answers[L].count \in Nat /\ reply.length \in 0 .. WordSize - 1
  BY <1>2, <1>3, AnswerRange DEF ReplyType
<1>5. /\ offset \in Nat /\ to_write \in Nat /\ already_written \in Nat
      /\ already_written = offset + answers[L].count
      /\ to_write = Word(reply.length + offset)
  BY <1>1 DEF HInv, Typed, BodyOK
<1>6. FileSize \in Nat /\ Count \in Nat
  <2>1. to_write - already_written \in Int
    BY <1>5
  <2>2. Word(to_write - already_written) \in 0 .. WordSize - 1
    BY <2>1, WordRange
  <2> QED
    BY <2>2, HttpAssumption DEF HttpAssumption, Count
<1>7. n \in Nat \ {0} /\ already_written < FileSize /\ already_written + n <= FileSize
  <2>1. already_written \in Nat
    BY <1>5
  <2> QED
    BY <1>6, <2>1 DEF Sendable, Least
<1>8. finished => answers[L].count + n = reply.length
  <2> DEFINE c == answers[L].count
  <2> HIDE DEF c
  <2>1. c \in Nat /\ already_written = offset + c
    BY <1>4, <1>5 DEF c
  <2> SUFFICES ASSUME finished PROVE c + n = reply.length
    BY DEF c
  <2>2. offset + c < FileSize
    BY <1>7, <2>1
  <2>3. offset + c + n = Word(reply.length + offset)
    BY <1>1, <1>5, <2>1
  <2>4. reply.length \in 0 .. WordSize - 1 /\ offset \in Nat /\ n \in Nat \ {0}
    BY <1>4, <1>5, <1>7
  <2> QED
    BY <2>1, <2>2, <2>3, <2>4, SentWhole
<1> HIDE DEF L
<1>9. /\ answers' \in Seq(AnswerType) /\ Len(answers') = L /\ DOMAIN answers' = DOMAIN answers
      /\ \A i \in DOMAIN answers :
           /\ answers'[i].req = answers[i].req /\ answers'[i].status = answers[i].status
           /\ answers'[i].length = answers[i].length /\ answers'[i].first = answers[i].first
           /\ i # L => answers'[i] = answers[i]
      /\ answers'[L].count = answers[L].count + n
      /\ answers'[L].done = finished
  <2> DEFINE a2 == More(answers[L], n, finished)
  <2>1. L \in 1 .. Len(answers) /\ answers[L] \in AnswerType /\ n \in Nat
    BY <1>2, <1>3, <1>7, AnswerRange DEF L
  <2>2. answers' = [answers EXCEPT ![L] = a2]
    BY <1>1, <1>2, <2>1 DEF AnswerType, More, L
  <2>3. /\ a2.req = answers[L].req /\ a2.status = answers[L].status
        /\ a2.length = answers[L].length /\ a2.first = answers[L].first
        /\ a2.count = answers[L].count + n
        /\ a2.done = finished
    BY <2>1, MoreKeeps
  <2>4. a2 \in AnswerType
    BY <2>1, MoreTyped
  <2> HIDE DEF a2
  <2>5. /\ answers' \in Seq(AnswerType) /\ Len(answers') = Len(answers)
        /\ \A i \in 1 .. Len(answers) : answers'[i] = IF i = L THEN a2 ELSE answers[i]
    BY <1>2, <2>1, <2>2, <2>4, ExceptSeq
  <2>6. DOMAIN answers' = 1 .. Len(answers) /\ DOMAIN answers = 1 .. Len(answers)
    BY <1>2, <2>5, LenProperties
  <2>7. answers'[L] = a2 /\ \A i \in DOMAIN answers : i # L => answers'[i] = answers[i]
    BY <2>1, <2>5, <2>6
  <2>8. answers'[L].count = answers[L].count + n /\ answers'[L].done = finished
    BY <2>3, <2>7
  <2>9. ASSUME NEW i \in DOMAIN answers
        PROVE  /\ answers'[i].req = answers[i].req /\ answers'[i].status = answers[i].status
               /\ answers'[i].length = answers[i].length /\ answers'[i].first = answers[i].first
               /\ i # L => answers'[i] = answers[i]
    <3>1. CASE i = L
      BY <2>3, <2>7, <3>1
    <3>2. CASE i # L
      BY <2>7, <3>2
    <3> QED
      BY <3>1, <3>2
  <2>10. answers' \in Seq(AnswerType) /\ Len(answers') = L
    BY <2>5 DEF L
  <2>11. DOMAIN answers' = DOMAIN answers
    BY <2>6
  <2> QED
    BY <2>8, <2>9, <2>10, <2>11
<1>10. Sent(n, finished)
  BY <1>1, <1>7, <1>8, <1>9 DEF Sent, L
<1> QED
  BY <1>10

LEMMA SendBodyStep ==
  ASSUME HInv, SendBody
  PROVE  HInv'
<1>1. PICK n \in 1 .. Sendable, finished \in BOOLEAN : Sent(n, finished)
  BY BodySent
<1> USE DEF Sent
<1> DEFINE L == Len(answers)
<1>2. /\ answers \in Seq(AnswerType) /\ answers # <<>> /\ reply \in ReplyType
      /\ ~answers[L].done /\ answers[L].length = reply.length
  BY <1>1 DEF HInv, Typed, BodyOK
<1>3. L \in Nat \ {0} /\ DOMAIN answers = 1 .. L
  BY <1>2, EmptySeq, LenProperties
<1>4. answers[L].count \in Nat
  BY <1>2, <1>3, AnswerRange
<1>5. /\ offset \in Nat /\ already_written \in Nat /\ n \in Nat
      /\ already_written = offset + answers[L].count
      /\ to_write = Word(reply.length + offset)
  BY <1>1 DEF HInv, Typed, BodyOK
<1> HIDE DEF L
<1>6. finished => answers[L].count + n = reply.length
  BY <1>1 DEF L
<1>7. /\ answers' \in Seq(AnswerType) /\ Len(answers') = L /\ DOMAIN answers' = DOMAIN answers
      /\ answers'[L].count = answers[L].count + n /\ answers'[L].done = finished
  BY <1>1 DEF L
<1>8. \A i \in DOMAIN answers :
        /\ answers'[i].req = answers[i].req /\ answers'[i].status = answers[i].status
        /\ answers'[i].length = answers[i].length
        /\ i # L => answers'[i] = answers[i]
  BY <1>1 DEF L
<1>9. LengthHonoured'
  <2> SUFFICES ASSUME NEW i \in DOMAIN answers, answers'[i].done
               PROVE  answers'[i].count = answers'[i].length
    BY <1>7 DEF LengthHonoured
  <2>1. CASE i = L
    BY <1>2, <1>3, <1>6, <1>7, <1>8, <2>1
  <2>2. CASE i # L
    BY <1>8, <2>2 DEF HInv, BodyOK, LengthHonoured
  <2> QED
    BY <2>1, <2>2
<1>10. /\ AnswersInOrder'
       /\ \A i \in DOMAIN answers' : answers'[i].req <= Len(sent)
       /\ AllPast(answers', wire) /\ AllPast(answers', held)
  BY <1>7, <1>8 DEF HInv, OrderOK, AnswersInOrder, AllPast, Past
<1>11. sent' = sent /\ wire' = wire /\ held' = held /\ offset' = offset /\ to_write' = to_write
  BY <1>1 DEF input
<1>12. already_written' \in Nat /\ already_written' = offset + (answers[L].count + n)
  <2> DEFINE c == answers[L].count
  <2>1. c \in Nat /\ already_written = offset + c
    BY <1>4, <1>5
  <2> HIDE DEF c
  <2>2. already_written' = already_written + n /\ offset \in Nat /\ n \in Nat
    BY <1>1, <1>5
  <2>3. already_written' \in Nat /\ already_written' = offset + (c + n)
    BY <2>1, <2>2
  <2> QED
    BY <2>3 DEF c
<1>13. CASE finished
  <2>1. /\ FilesClosed' /\ ReadsSomething'
        /\ stage' = "reading" /\ buf' = <<>> /\ reply' \in ReplyType
        /\ file_fd' \in BOOLEAN /\ open_files' \in Int
    BY <1>1, <1>13, Finishes
  <2>2. Typed'
    BY <1>2, <1>7, <1>11, <1>12, <2>1, NoLines DEF HInv, Typed
  <2>3. StreamOK'
    BY <1>1, <2>1, StreamStays DEF HInv
  <2>4. OrderOK'
    BY <1>10, <1>11, <2>1, NoLines DEF OrderOK
  <2>5. BodyOK'
    BY <1>9, <2>1 DEF BodyOK
  <2> QED
    BY <2>1, <2>2, <2>3, <2>4, <2>5 DEF HInv
<1>14. CASE ~finished
  <2>1. /\ buf' = buf /\ reply' = reply /\ stage' = "body"
        /\ file_fd' = file_fd /\ open_files' = open_files
    BY <1>1, <1>14 DEF parsed
  <2>2. Typed'
    BY <1>7, <1>11, <1>12, <2>1 DEF HInv, Typed
  <2>3. FilesClosed' /\ ReadsSomething'
    BY <1>1, <2>1 DEF HInv, FilesClosed, ReadsSomething
  <2>4. StreamOK'
    BY <1>1, <2>1, StreamStays DEF HInv
  <2>5. OrderOK'
    BY <1>10, <1>11, <2>1 DEF OrderOK
  <2>6. already_written' = offset' + answers'[Len(answers')].count
    BY <1>7, <1>11, <1>12
  <2>7. answers' # <<>>
    BY <1>3, <1>7, EmptySeq
  <2>8. ~answers'[L].done /\ answers'[L].length = reply.length
    BY <1>2, <1>3, <1>7, <1>8, <1>14
  <2>9. to_write' = Word(reply.length + offset)'
    BY <1>5, <1>11, <2>1 DEF Word
  <2>10. BodyOK'
    BY <1>7, <1>9, <1>11, <2>1, <2>6, <2>7, <2>8, <2>9 DEF BodyOK
  <2> QED
    BY <2>2, <2>3, <2>4, <2>5, <2>10 DEF HInv
<1> QED
  BY <1>13, <1>14

LEMMA EndStep ==
  ASSUME HInv, SendNothing \/ WorkerExits \/ Cleanup
  PROVE  HInv'
<1>1. /\ UNCHANGED <<input, parsed, body, answers>>
      /\ \/ stage' = "aborted" /\ stage # "aborted" /\ UNCHANGED <<file_fd, open_files>>
         \/ stage' = "closed" /\ stage # "aborted" /\ CloseFile
  BY DEF SendNothing, WorkerExits, Cleanup
<1>2. /\ sent' = sent /\ wire' = wire /\ held' = held /\ buf' = buf /\ reply' = reply
      /\ offset' = offset /\ to_write' = to_write /\ already_written' = already_written
      /\ answers' = answers
  BY <1>1 DEF input, parsed, body
<1>3. file_fd \in BOOLEAN /\ open_files \in Int /\ open_files = IF file_fd THEN 1 ELSE 0
  BY <1>1 DEF HInv, Typed, FilesClosed
<1>4. /\ FilesClosed' /\ file_fd' \in BOOLEAN /\ open_files' \in Int
  <2>1. CASE stage' = "aborted" /\ UNCHANGED <<file_fd, open_files>>
    BY <1>3, <2>1 DEF FilesClosed
  <2>2. CASE stage' = "closed" /\ CloseFile
    <3>1. file_fd' = FALSE
      BY <2>2 DEF CloseFile
    <3>2. open_files' = 0
      BY <1>3, <2>2, Closes
    <3>3. FilesClosed'
      BY <2>2, <3>1, <3>2 DEF FilesClosed
    <3>4. open_files' \in Int
      BY <3>2
    <3> QED
      BY <3>1, <3>3, <3>4
  <2> QED
    BY <1>1, <2>1, <2>2
<1>5. Typed'
  BY <1>1, <1>2, <1>4 DEF HInv, Typed
<1>6. ReadsSomething'
  BY <1>1 DEF ReadsSomething
<1>7. StreamOK'
  BY <1>1, <1>2, StreamStays DEF HInv
<1>8. OrderOK'
  BY <1>1, <1>2 DEF HInv, OrderOK, AnswersInOrder
<1>9. BodyOK'
  BY <1>1, <1>2 DEF HInv, BodyOK, LengthHonoured
<1> QED
  BY <1>4, <1>5, <1>6, <1>7, <1>8, <1>9 DEF HInv

LEMMA Stutter == HInv /\ UNCHANGED vars => HInv'
<1> SUFFICES ASSUME HInv, UNCHANGED vars PROVE HInv'
  OBVIOUS
<1> USE DEF vars, input, parsed, body
<1>1. Typed' /\ FilesClosed' /\ ReadsSomething'
  BY DEF HInv, Typed, FilesClosed, ReadsSomething
<1>2. StreamOK'
  BY DEF HInv, StreamOK
<1>3. OrderOK'
  BY DEF HInv, OrderOK, AnswersInOrder, StartOf, IsEmpty, IsFirst
<1>4. BodyOK'
  BY DEF HInv, BodyOK, LengthHonoured, Word
<1> QED
  BY <1>1, <1>2, <1>3, <1>4 DEF HInv

-----------------------------------------------------------------------------
(* The theorems. *)

LEMMA HInductive == HInv /\ [Next]_vars => HInv'
<1> SUFFICES ASSUME HInv, [Next]_vars PROVE HInv'
  OBVIOUS
<1>1. CASE SendMore \/ \E r \in Requests : Ask(r)
  BY <1>1, ClientStep
<1>2. CASE Read
  BY <1>2, ReadStep
<1>3. CASE WriteHeader
  BY <1>3, WriteHeaderStep
<1>4. CASE SendBody
  BY <1>4, SendBodyStep
<1>5. CASE SendNothing \/ WorkerExits \/ Cleanup
  BY <1>5, EndStep
<1>6. CASE UNCHANGED vars
  BY <1>6, Stutter
<1> QED
  BY <1>1, <1>2, <1>3, <1>4, <1>5, <1>6 DEF Next

LEMMA HInvAlways == Spec => []HInv
  BY InitHInv, HInductive, PTL DEF Spec

\* A descriptor is open exactly while the connection refers to it, through
\* every way a request ends: answered, refused, given up or cut off (parse_url,
\* http_finish_callback, http_cleanup).
THEOREM FilesAreClosed == Spec => []FilesClosed
<1>1. HInv => FilesClosed
  BY DEF HInv
<1> QED
  BY <1>1, HInvAlways, PTL

\* There is always room for the next read() (read_callback_http).
THEOREM RoomToRead == Spec => []ReadsSomething
<1>1. HInv => ReadsSomething
  BY DEF HInv
<1> QED
  BY <1>1, HInvAlways, PTL

\* A finished response is as long as its header said, for every range of
\* every file, the wrapped-around ones included (yta_async_sendfile,
\* write_handle_sendfile).
THEOREM LengthsHonoured == Spec => []LengthHonoured
<1>1. HInv => LengthHonoured
  BY DEF HInv, BodyOK
<1> QED
  BY <1>1, HInvAlways, PTL

\* However the requests are cut and pipelined, the answers come in their order
\* and answer none twice, except by refusing what the reset of the buffer left
\* of it (read_callback_http, accept_logic).
THEOREM AnsweredInOrder == Spec => []AnswersInOrder
<1>1. HInv => AnswersInOrder
  BY DEF HInv, OrderOK
<1> QED
  BY <1>1, HInvAlways, PTL

=============================================================================
