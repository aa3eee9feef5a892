-------------------------- MODULE PatientClientProofs --------------------------
(***************************************************************************)
(* Theorems about HttpConnection for the clients and the files it serves   *)
(* well, files of at most IntMax bytes: whatever they ask for, a client    *)
(* that waits gets the answers of HttpService, in full, and no request is  *)
(* forgotten; a careful one never runs into the assertion of               *)
(* write_handle_sendfile.                                                  *)
(*                                                                         *)
(* With such a client the exchange goes through phases, and in each of     *)
(* them the request being served is all there is in the socket or in the   *)
(* buffer.                                                                 *)
(***************************************************************************)
EXTENDS HttpConnectionProofs

Current    == sent[Len(sent)]
AllDone(n) == Len(answers) = n /\ \A i \in 1 .. n : answers[i].done

\* What Respond makes of a request, when it does not throw.
ReplyTo(r) ==
  IF r.target = "missing" THEN Reply(404, FALSE, 0)
  ELSE IF r.ask.kind = "range"
       THEN Reply(206, TRUE, Word(RangeEnd(r.ask.first, r.ask.last) - r.ask.first + 1))
  ELSE IF r.ask.kind = "whole" THEN Reply(200, TRUE, FileSize)
  ELSE IF r.ask.kind = "since" THEN Reply(304, FALSE, 0)
  ELSE Reply(400, FALSE, 0)

Answerable(r) == ~Throws(r)

\* The request being served has been read, and its reply made.
Serving ==
  /\ sent # <<>> /\ wire = <<>>
  /\ Answerable(Current) /\ reply = ReplyTo(Current)
  /\ IsRange(Current) => offset = Current.ask.first

Resting ==
  /\ stage = "reading" /\ wire = <<>> /\ buf = <<>> /\ num_headers = MaxHeaders
  /\ AllDone(Len(sent))

Asking ==
  /\ stage = "reading" /\ buf = <<>> /\ num_headers = MaxHeaders
  /\ sent # <<>> /\ wire = Lines(Current, Len(sent))
  /\ AllDone(Len(sent) - 1)

Answering ==
  /\ stage = "header" /\ Serving /\ buf = Lines(Current, Len(sent))
  /\ AllDone(Len(sent) - 1)

Transferring ==
  /\ stage = "body" /\ Serving /\ reply.content
  /\ Len(answers) = Len(sent)
  /\ \A i \in 1 .. Len(sent) - 1 : answers[i].done
  /\ answers[Len(sent)].status = reply.status /\ answers[Len(sent)].first = offset

Over == stage \in {"closed", "aborted"}

PInv == held = <<>> /\ (Resting \/ Asking \/ Answering \/ Transferring \/ Over)

\* An offset other than zero is that of a range asked for, the last one or one
\* before it.
OffsetAsked ==
  /\ sent # <<>> => \E s \in Sessions : Len(sent) <= Len(s) /\ \A i \in 1 .. Len(sent) : sent[i] = s[i]
  /\ offset # 0 => \E i \in 1 .. Len(sent) : IsRange(sent[i])

\* There is something left to send, and it is in the file.
BodyInFile ==
  stage = "body" => already_written < to_write /\ to_write <= FileSize

CInv == OffsetAsked /\ BodyInFile

-----------------------------------------------------------------------------
(* One request, read in one piece. *)

\* A sequence moved as a whole to an empty place.
LEMMA MoveAll ==
  ASSUME NEW t \in Seq(Line)
  PROVE  <<>> \o SubSeq(t, 1, Len(t)) = t /\ SubSeq(t, Len(t) + 1, Len(t)) = <<>>
<1>1. SubSeq(t, 1, Len(t)) = t
  BY SubSeqFull
<1>2. <<>> \o t = t
  BY ConcatEmptySeq
<1>3. Len(t) \in Int /\ Len(t) + 1 \in Int /\ Len(t) < Len(t) + 1
  BY LenProperties
<1> QED
  BY <1>1, <1>2, <1>3, SubSeqEmpty

\* phr_parse_request finds a request that is there in full, all of its headers
\* allowed, and leaves none of it.
LEMMA ParsedWhole ==
  ASSUME NEW n \in 1 .. Len(sent), sent \in Seq(Requests),
         sent[n].headers <= MaxHeaders
  PROVE  /\ Parse(Lines(sent[n], n), 0, MaxHeaders).code = "done"
         /\ Subject(Lines(sent[n], n)) = n
<1> DEFINE r == sent[n]
           b == Lines(r, n)
<1>1. r \in Requests /\ n \in Nat
  BY ElementOfSeq
<1>2. r.headers \in Nat /\ MaxHeaders \in Nat
  BY <1>1, HttpAssumption DEF HttpAssumption, IsRequest
<1>3. /\ Len(b) = r.headers + 2 /\ DOMAIN b = 1 .. r.headers + 2
      /\ \A k \in DOMAIN b : b[k].req = n /\ b[k].line = k
  BY <1>1, LinesOfRequest
<1> HIDE DEF b
<1>4. \A k \in 1 .. r.headers + 2 : IsEmpty(b[k]) <=> k = r.headers + 2
  BY <1>3 DEF IsEmpty
<1>5. ~IsEmpty(b[1]) /\ IsFirst(b[1]) /\ b[1].req = n
  BY <1>2, <1>3, <1>4 DEF IsFirst
<1>6. Ends(b) = {r.headers + 2}
  BY <1>2, <1>3, <1>4 DEF Ends
<1>7. (CHOOSE k \in Ends(b) : \A j \in Ends(b) : k <= j) = r.headers + 2
  BY <1>2, <1>6
<1>8. Subject(b) = n
  BY <1>5 DEF Subject
<1>9. Parse(b, 0, MaxHeaders).code = "done"
  <2> DEFINE end == CHOOSE k \in Ends(b) : \A j \in Ends(b) : k <= j
  <2>1. Ends(b) # {} /\ ~(1 > Len(b))
    BY <1>2, <1>3, <1>6
  <2>2. end = r.headers + 2
    BY <1>7
  <2> DEFINE h == r.headers
  <2> HIDE DEF end, h
  <2>3. end = h + 2 /\ h \in Nat /\ MaxHeaders \in Nat /\ h <= MaxHeaders
    BY <1>2, <2>2 DEF h
  <2>4. ~(end - 1 - 1 > MaxHeaders)
    BY <2>3
  <2>5. Parse(b, 0, MaxHeaders) = [code |-> "done", headers |-> end - 1 - 1]
    BY <1>5, <2>1, <2>4 DEF Parse, end
  <2> QED
    BY <2>5
<1> QED
  BY <1>8, <1>9 DEF b

\* In a file that has no more bytes than an int counts, the end and the length
\* of a range are what they would be in unbounded integers.
LEMMA NarrowFits ==
  \A n \in Int : -IntMax - 1 <= n /\ n <= IntMax => Narrow(n) = n
<1>1. IntMax \in Nat
  BY HttpAssumption DEF HttpAssumption
<1> SUFFICES ASSUME NEW n \in Int, -IntMax - 1 <= n, n <= IntMax PROVE Narrow(n) = n
  OBVIOUS
<1> DEFINE m == n + IntMax + 1
           w == 2 * (IntMax + 1)
<1>2. m \in 0 .. w - 1 /\ w \in Nat \ {0}
  BY <1>1
<1>3. Narrow(n) = (m % w) - (IntMax + 1) /\ n = m - (IntMax + 1)
  BY <1>1 DEF Narrow
<1> HIDE DEF m, w
<1>4. m % w = m
  BY <1>2
<1> QED
  BY <1>3, <1>4

LEMMA RangeOfSmallFile ==
  ASSUME FileSize <= IntMax, NEW first \in Nat, NEW last \in Nat \cup {-1},
         first <= IntMax
  PROVE  /\ RangeEnd(first, last) = IF last = -1 \/ last <= first \/ last >= FileSize
                                    THEN FileSize - 1 ELSE last
         /\ RangeLengths(first, last) = {Word(RangeEnd(first, last) - first + 1)}
<1>1. FileSize \in Nat /\ IntMax \in Nat
  BY HttpAssumption DEF HttpAssumption
<1>2. Narrow(FileSize - 1) = FileSize - 1
  BY <1>1, NarrowFits
<1>3. RangeEnd(first, last) = IF last = -1 \/ last <= first \/ last >= FileSize
                              THEN FileSize - 1 ELSE last
  BY <1>1, <1>2 DEF RangeEnd
<1> DEFINE length == RangeEnd(first, last) - first + 1
<1>4. length \in Int /\ -IntMax - 1 <= length /\ length <= IntMax
  BY <1>1, <1>3
<1>5. RangeLengths(first, last) = {Word(length), Word(Narrow(length))}
  BY DEF RangeLengths
<1> HIDE DEF length
<1>6. Narrow(length) = length
  BY <1>4, NarrowFits
<1>7. RangeLengths(first, last) = {Word(length)}
  BY <1>5, <1>6
<1> QED
  BY <1>3, <1>7 DEF length

LEMMA RespondsReply ==
  ASSUME FileSize <= IntMax, NEW r \in Requests, Respond(r)
  PROVE  \/ stage' = "aborted" /\ offset' = offset
         \/ /\ stage' = "header" /\ Answerable(r) /\ reply' = ReplyTo(r)
            /\ IsRange(r) => offset' = r.ask.first
            /\ ~IsRange(r) => offset' = offset
<1>0. /\ r.target \in {"file", "missing"} /\ r.ask.kind \in AskKinds
      /\ r.ask.first \in Nat /\ r.ask.last \in Nat \cup {-1}
  BY HttpAssumption DEF HttpAssumption, IsRequest
<1>1. CASE Throws(r)
  BY <1>1 DEF Respond
<1>2. CASE ~Throws(r) /\ r.target = "file" /\ r.ask.kind = "range"
  <2> DEFINE first == r.ask.first
             last  == r.ask.last
  <2>1. first <= IntMax
    BY <1>0, <1>2, HttpAssumption DEF HttpAssumption, Throws
  <2>2. RangeLengths(first, last) = {Word(RangeEnd(first, last) - first + 1)}
    BY <1>0, <2>1, RangeOfSmallFile
  <2>3. PICK n \in RangeLengths(first, last) : reply' = Reply(206, TRUE, n)
    BY <1>2 DEF Respond
  <2>4. reply' = ReplyTo(r)
    BY <1>2, <2>2, <2>3 DEF ReplyTo
  <2> QED
    BY <1>2, <2>4 DEF Respond, Answerable, IsRange
<1>3. CASE ~Throws(r) /\ r.target = "file" /\ r.ask.kind # "range"
  BY <1>3 DEF Respond, Answerable, ReplyTo, IsRange
<1>4. CASE ~Throws(r) /\ r.target = "missing"
  BY <1>4 DEF Respond, Answerable, ReplyTo, IsRange
<1> QED
  BY <1>0, <1>1, <1>2, <1>3, <1>4

-----------------------------------------------------------------------------
(* The phases of the exchange. *)

LEMMA InitPInv == Init => PInv
<1> SUFFICES ASSUME Init PROVE PInv
  OBVIOUS
<1>1. Len(<<>>) = 0 /\ DOMAIN <<>> = {}
  BY EmptySeq
<1> QED
  BY <1>1 DEF Init, PInv, Resting, AllDone

\* The client asks only when the connection rests.
LEMMA AskPhase ==
  ASSUME PatientClient, HInv, PInv, NEW r \in Requests, Ask(r)
  PROVE  PInv' /\ sent' = Append(sent, r) /\ Len(sent') = Len(sent) + 1 /\ Current' = r
         /\ \A i \in 1 .. Len(sent) : sent'[i] = sent[i]
<1>1. /\ stage \notin {"closed", "aborted"} /\ held = <<>> /\ Answered
      /\ sent' = Append(sent, r)
      /\ UNCHANGED <<parsed, body, stage, file_fd, open_files, answers>>
  BY DEF PatientClient, Ask
<1>2. /\ sent \in Seq(Requests) /\ Len(sent) \in Nat /\ wire \in Seq(Line)
      /\ answers \in Seq(AnswerType) /\ DOMAIN answers = 1 .. Len(answers)
  BY LenProperties DEF HInv, Typed
<1>3. Resting
  <2>1. Len(answers) = Len(sent) /\ \A i \in 1 .. Len(sent) : answers[i].done
    BY <1>1, <1>2 DEF Answered
  <2>2. ~AllDone(Len(sent) - 1)
    <3>1. Len(sent) # Len(sent) - 1
      BY <1>2
    <3> QED
      BY <2>1, <3>1 DEF AllDone
  <2>3. ~Transferring
    <3> SUFFICES ASSUME Transferring PROVE FALSE
      OBVIOUS
    <3>1. answers # <<>> /\ ~answers[Len(answers)].done
      BY DEF Transferring, HInv, BodyOK
    <3>2. Len(answers) \in 1 .. Len(answers)
      BY <1>2, <3>1, EmptySeq
    <3> QED
      BY <2>1, <3>1, <3>2
  <2>4. ~Over
    BY <1>1 DEF Over
  <2> QED
    BY <2>2, <2>3, <2>4 DEF PInv, Asking, Answering
<1>4. /\ sent' # <<>> /\ Len(sent') = Len(sent) + 1 /\ sent'[Len(sent) + 1] = r
      /\ \A i \in 1 .. Len(sent) : sent'[i] = sent[i]
  BY <1>1, <1>2, AppendProperties
<1>5. Current' = r
  BY <1>4 DEF Current
<1> DEFINE lines == Lines(r, Len(sent) + 1)
<1>6. lines \in Seq(Line)
  BY <1>2, LinesOfRequest
<1>7. Send(lines, Len(lines))
  BY DEF PatientClient, Ask, Pieces
<1> HIDE DEF lines
<1>8. wire' = lines /\ held' = <<>>
  BY <1>3, <1>6, <1>7, MoveAll DEF Resting, Send
<1>9. Asking'
  <2>1. stage' = "reading" /\ buf' = <<>> /\ num_headers' = MaxHeaders
    BY <1>1, <1>3 DEF Resting, parsed
  <2>2. wire' = Lines(Current', Len(sent'))
    BY <1>4, <1>5, <1>8 DEF lines
  <2>3. AllDone(Len(sent) - 1)'
    <3>1. AllDone(Len(sent)) /\ answers' = answers /\ Len(sent') - 1 = Len(sent)
      BY <1>1, <1>2, <1>3, <1>4 DEF Resting
    <3> QED
      BY <3>1 DEF AllDone
  <2> QED
    BY <1>4, <2>1, <2>2, <2>3 DEF Asking
<1> QED
  BY <1>1, <1>4, <1>5, <1>8, <1>9 DEF PInv

\* What is read is the request, and all of it.
LEMMA ReadPhase ==
  ASSUME PatientClient, HInv, PInv, Read
  PROVE  /\ PInv' /\ sent # <<>> /\ sent' = sent
         /\ stage' # "aborted" => Answering'
         /\ ~IsRange(Current) => offset' = offset
<1>1. Asking
  BY DEF PInv, Read, Resting, Answering, Transferring, Over
<1>2. /\ sent \in Seq(Requests) /\ Len(sent) \in 1 .. Len(sent) /\ Len(sent) \in Nat
      /\ sent # <<>> /\ wire \in Seq(Line) /\ Len(wire) \in Nat
  <2>1. sent \in Seq(Requests) /\ sent # <<>> /\ wire \in Seq(Line)
    BY <1>1 DEF Asking, HInv, Typed
  <2>2. Len(sent) \in Nat \ {0}
    BY <2>1, EmptySeq
  <2> QED
    BY <2>1, <2>2, LenProperties
<1>3. /\ Current \in Requests /\ Current.headers \in Nat
      /\ Current.headers <= MaxHeaders /\ Current.headers + 2 <= BufSize
  <2>1. Current \in Requests
    BY <1>2, ElementOfSeq DEF Current
  <2> QED
    BY <2>1, HttpAssumption DEF HttpAssumption, IsRequest, PatientClient
<1>4. Len(wire) = Current.headers + 2
  BY <1>1, <1>2, <1>3, LinesOfRequest DEF Asking
<1>5. Least(Len(wire), BufSize - Len(buf)) = Len(wire)
  <2>1. Len(buf) = 0 /\ BufSize \in Nat
    BY <1>1, EmptySeq, HttpAssumption DEF Asking, HttpAssumption
  <2> QED
    BY <1>2, <1>3, <1>4, <2>1 DEF Least
<1>6. buf \o SubSeq(wire, 1, Len(wire)) = wire /\ SubSeq(wire, Len(wire) + 1, Len(wire)) = <<>>
  BY <1>1, <1>2, MoveAll DEF Asking
<1>7. /\ wire' = <<>> /\ sent' = sent /\ held' = held /\ answers' = answers
      /\ LET p == Parse(wire, Len(buf), num_headers)
         IN \/ p.code = "done" /\ Respond(sent[Subject(wire)]) /\ buf' = wire
            \/ p.code = "bad"
            \/ p.code = "partial"
  BY <1>5, <1>6 DEF Read
<1>8. Parse(wire, Len(buf), num_headers).code = "done" /\ Subject(wire) = Len(sent)
  <2>1. wire = Lines(sent[Len(sent)], Len(sent)) /\ Len(buf) = 0 /\ num_headers = MaxHeaders
    BY <1>1, EmptySeq DEF Asking, Current
  <2> QED
    BY <1>2, <1>3, <2>1, ParsedWhole DEF Current
<1>9. Respond(Current) /\ buf' = wire
  BY <1>7, <1>8 DEF Current
<1>10. CASE stage' = "aborted"
  <2>1. offset' = offset
    BY <1>3, <1>9, <1>10, RespondsReply DEF PatientClient
  <2> QED
    BY <1>2, <1>7, <1>10, <2>1 DEF PInv, Over
<1>11. CASE stage' # "aborted"
  <2>1. /\ stage' = "header" /\ Answerable(Current) /\ reply' = ReplyTo(Current)
        /\ IsRange(Current) => offset' = Current.ask.first
        /\ ~IsRange(Current) => offset' = offset
    BY <1>3, <1>9, <1>11, RespondsReply DEF PatientClient
  <2>2. Current' = Current
    BY <1>7 DEF Current
  <2>3. Serving'
    BY <1>2, <1>7, <2>1, <2>2 DEF Serving, ReplyTo, Reply, Word
  <2>4. Answering'
    BY <1>1, <1>7, <1>9, <2>1, <2>2, <2>3 DEF Asking, Answering, AllDone
  <2> QED
    BY <1>2, <1>7, <2>1, <2>4 DEF PInv
<1> QED
  BY <1>10, <1>11

\* The header is written; without a body, that is all of the response.
LEMMA WritePhase ==
  ASSUME HInv, PInv, WriteHeader
  PROVE  /\ PInv' /\ Answering /\ sent' = sent /\ offset' = offset
         /\ reply.content => Transferring'
         /\ ~reply.content => Resting'
<1>1. Answering /\ held = <<>>
  BY DEF PInv, WriteHeader, Resting, Asking, Transferring, Over
<1>2. sent \in Seq(Requests) /\ sent # <<>> /\ Len(sent) \in Nat \ {0}
  <2>1. sent \in Seq(Requests) /\ sent # <<>>
    BY <1>1 DEF HInv, Typed, Answering, Serving
  <2> QED
    BY <2>1, EmptySeq, LenProperties
<1>3. /\ sent' = sent /\ held' = held /\ wire' = wire /\ offset' = offset
      /\ IF reply.content
         THEN stage' = "body" /\ UNCHANGED <<parsed, file_fd, open_files>>
         ELSE Finish
  BY DEF WriteHeader, input
<1>4. Current' = Current
  BY <1>3 DEF Current
<1>5. /\ Len(answers) = Len(sent) - 1 /\ \A i \in 1 .. Len(sent) - 1 : answers[i].done
      /\ DOMAIN answers = 1 .. Len(answers) /\ Len(answers') = Len(answers) + 1
      /\ \A i \in DOMAIN answers : answers'[i] = answers[i]
      /\ answers'[Len(answers) + 1] = NewAnswer
  BY <1>1, HeaderWritten DEF Answering, AllDone
<1>6. /\ Len(answers') = Len(sent) /\ answers'[Len(sent)] = NewAnswer
      /\ \A i \in 1 .. Len(sent) - 1 : answers'[i].done
  <2>1. Len(answers) + 1 = Len(sent)
    BY <1>2, <1>5
  <2> QED
    BY <1>5, <2>1
<1>7. CASE reply.content
  <2>1. stage' = "body" /\ reply' = reply
    BY <1>3, <1>7 DEF parsed
  <2>2. Serving'
    BY <1>1, <1>3, <1>4, <2>1 DEF Answering, Serving, ReplyTo, Reply, Word
  <2>3. answers'[Len(sent)].status = reply.status /\ answers'[Len(sent)].first = offset
    BY <1>6, <1>7 DEF NewAnswer
  <2>4. Transferring'
    BY <1>3, <1>6, <1>7, <2>1, <2>2, <2>3 DEF Transferring
  <2> QED
    BY <1>1, <1>3, <1>7, <2>4 DEF PInv
<1>8. CASE ~reply.content
  <2>1. stage' = "reading" /\ buf' = <<>> /\ num_headers' = MaxHeaders
    BY <1>3, <1>8 DEF Finish, AcceptLogic
  <2>2. answers'[Len(sent)].done
    <3>1. NewAnswer.done = ~reply.content
      BY DEF NewAnswer
    <3> QED
      BY <1>6, <1>8, <3>1
  <2>3. \A i \in 1 .. Len(sent) : answers'[i].done
    <3>1. \A i \in 1 .. Len(sent) : i \in 1 .. Len(sent) - 1 \/ i = Len(sent)
      BY <1>2
    <3> QED
      BY <1>6, <2>2, <3>1
  <2>4. Resting'
    BY <1>1, <1>3, <1>6, <2>1, <2>3 DEF Resting, Answering, Serving, AllDone
  <2> QED
    BY <1>1, <1>3, <1>8, <2>4 DEF PInv
<1> QED
  BY <1>1, <1>3, <1>7, <1>8

\* sendfile() takes a part of the body, or the rest of it.
LEMMA SendPhase ==
  ASSUME HInv, PInv, NEW n \in 1 .. Sendable, NEW finished \in BOOLEAN, Sent(n, finished)
  PROVE  /\ PInv' /\ Transferring /\ sent' = sent /\ offset' = offset
         /\ finished => Resting'
         /\ ~finished => Transferring'
<1>1. Transferring /\ held = <<>>
  BY DEF PInv, Sent, Resting, Asking, Answering, Over
<1>2. Len(sent) \in Nat \ {0}
  BY <1>1, EmptySeq DEF HInv, Typed, Transferring, Serving
<1>3. Len(answers) = Len(sent) /\ DOMAIN answers = 1 .. Len(sent)
  <2>1. sent \in Seq(Requests) /\ sent # <<>> /\ answers \in Seq(AnswerType)
    BY <1>1 DEF HInv, Typed, Transferring, Serving
  <2>2. Len(answers) = Len(sent)
    BY <1>1 DEF Transferring
  <2> QED
    BY <2>1, <2>2, LenProperties
<1>4. /\ sent' = sent /\ held' = held /\ wire' = wire /\ offset' = offset
      /\ IF finished THEN Finish ELSE UNCHANGED <<parsed, stage, file_fd, open_files>>
      /\ stage = "body"
  BY DEF Sent, input
<1>5. Current' = Current
  BY <1>4 DEF Current
<1>6. /\ Len(answers') = Len(sent)
      /\ answers'[Len(sent)].status = answers[Len(sent)].status
      /\ answers'[Len(sent)].first = answers[Len(sent)].first
      /\ answers'[Len(sent)].done = finished
      /\ \A i \in 1 .. Len(sent) - 1 : answers'[i] = answers[i]
  <2>1. Len(sent) \in 1 .. Len(sent)
        /\ \A i \in 1 .. Len(sent) - 1 : i \in 1 .. Len(sent) /\ i # Len(sent)
    BY <1>2
  <2> QED
    BY <1>3, <2>1 DEF Sent
<1>7. \A i \in 1 .. Len(sent) - 1 : answers'[i].done
  BY <1>1, <1>6 DEF Transferring
<1>8. CASE finished
  <2>1. stage' = "reading" /\ buf' = <<>> /\ num_headers' = MaxHeaders
    BY <1>4, <1>8 DEF Finish, AcceptLogic
  <2>2. \A i \in 1 .. Len(sent) : answers'[i].done
    <3>1. \A i \in 1 .. Len(sent) : i \in 1 .. Len(sent) - 1 \/ i = Len(sent)
      BY <1>2
    <3> QED
      BY <1>6, <1>7, <1>8, <3>1
  <2>3. Resting'
    BY <1>1, <1>4, <1>6, <2>1, <2>2 DEF Resting, Transferring, Serving, AllDone
  <2> QED
    BY <1>1, <1>4, <1>8, <2>3 DEF PInv
<1>9. CASE ~finished
  <2>1. stage' = "body" /\ reply' = reply
    BY <1>4, <1>9 DEF parsed
  <2>2. Serving'
    BY <1>1, <1>4, <1>5, <2>1 DEF Transferring, Serving, ReplyTo, Reply, Word
  <2>3. Transferring'
    BY <1>1, <1>4, <1>6, <1>7, <2>1, <2>2 DEF Transferring
  <2> QED
    BY <1>1, <1>4, <1>9, <2>3 DEF PInv
<1> QED
  BY <1>1, <1>4, <1>8, <1>9

LEMMA EndPhase ==
  ASSUME PInv, SendNothing \/ WorkerExits \/ Cleanup
  PROVE  PInv' /\ Over'
BY DEF PInv, SendNothing, WorkerExits, Cleanup, Over, input

LEMMA StutterPhase == PInv /\ UNCHANGED vars => PInv'
<1> SUFFICES ASSUME PInv, UNCHANGED vars PROVE PInv'
  OBVIOUS
<1> USE DEF vars, input, parsed, body
<1>1. Current' = Current /\ Len(sent') = Len(sent) /\ \A n : AllDone(n)' <=> AllDone(n)
  BY DEF Current, AllDone
<1>2. /\ Resting => Resting'
      /\ Over => Over'
  BY <1>1 DEF Resting, Over, AllDone
<1>3. Asking => Asking'
  BY <1>1 DEF Asking, AllDone
<1>4. Serving => Serving'
  BY <1>1 DEF Serving
<1>5. Answering => Answering'
  BY <1>1, <1>4 DEF Answering, AllDone
<1>6. Transferring => Transferring'
  BY <1>1, <1>4 DEF Transferring
<1> QED
  BY <1>2, <1>3, <1>5, <1>6 DEF PInv

LEMMA PInductive == PatientClient /\ HInv /\ PInv /\ [Next]_vars => PInv'
<1> SUFFICES ASSUME PatientClient, HInv, PInv, [Next]_vars PROVE PInv'
  OBVIOUS
<1>1. ASSUME NEW r \in Requests, Ask(r) PROVE PInv'
  BY <1>1, AskPhase
<1>2. ~SendMore
  BY DEF SendMore, PInv
<1>3. CASE Read
  BY <1>3, ReadPhase
<1>4. CASE WriteHeader
  BY <1>4, WritePhase
<1>5. CASE SendBody
  BY <1>5, BodySent, SendPhase
<1>6. CASE SendNothing \/ WorkerExits \/ Cleanup
  BY <1>6, EndPhase
<1>7. CASE UNCHANGED vars
  BY <1>7, StutterPhase
<1> QED
  BY <1>1, <1>2, <1>3, <1>4, <1>5, <1>6, <1>7 DEF Next

\* A client that waits gets an answer to every request (read_callback_http,
\* http_finish_callback): no request is lost with what the reset of the buffer
\* throws away.
THEOREM NoneForgotten ==
  ASSUME PatientClient
  PROVE  Spec => []NoRequestForgotten
<1>1. HInv /\ PInv => NoRequestForgotten
  <2> SUFFICES ASSUME HInv, PInv, stage = "reading", wire = <<>>
               PROVE  Len(answers) = Len(sent)
    BY DEF NoRequestForgotten
  <2>1. ~Asking
    <3> SUFFICES ASSUME Asking PROVE FALSE
      OBVIOUS
    <3>1. sent \in Seq(Requests) /\ sent # <<>> /\ wire = Lines(Current, Len(sent))
      BY DEF Asking, HInv, Typed
    <3>2. Len(sent) \in Nat /\ Len(sent) \in 1 .. Len(sent)
      BY <3>1, EmptySeq, LenProperties
    <3>3. Current \in Requests /\ Current.headers \in Nat
      BY <3>1, <3>2, ElementOfSeq, HttpAssumption DEF Current, HttpAssumption, IsRequest
    <3>4. Len(wire) = Current.headers + 2
      BY <3>1, <3>2, <3>3, LinesOfRequest
    <3> QED
      BY <3>3, <3>4, EmptySeq
  <2> QED
    BY <2>1 DEF PInv, Resting, Answering, Transferring, Over, AllDone
<1>2. Init => HInv /\ PInv
  BY InitHInv, InitPInv
<1>3. HInv /\ PInv /\ [Next]_vars => HInv' /\ PInv'
  BY HInductive, PInductive
<1> QED
  BY <1>1, <1>2, <1>3, PTL DEF Spec

-----------------------------------------------------------------------------
(* The answers are the right ones. *)

LEMMA RightWithoutBody ==
  ASSUME NEW r \in Requests, Answerable(r), ~ReplyTo(r).content
  PROVE  Service!RightAnswer(r) = [status |-> ReplyTo(r).status, first |-> 0, count |-> 0]
<1>1. r.target \in {"file", "missing"} /\ r.ask.kind \in AskKinds
  BY HttpAssumption DEF HttpAssumption, IsRequest
<1> USE DEF Service!RightAnswer, Service!NoBody, Service!Answer, ReplyTo, Reply
<1>2. CASE r.target = "missing"
  BY <1>2
<1>3. CASE r.target = "file" /\ r.ask.kind = "since"
  BY <1>3
<1>4. CASE r.target = "file" /\ r.ask.kind = "malformed"
  BY <1>4
<1>5. ~(r.target = "file" /\ r.ask.kind = "whole")
  <2> SUFFICES ASSUME r.target = "file", r.ask.kind = "whole" PROVE FALSE
    OBVIOUS
  <2>1. ReplyTo(r) = Reply(200, TRUE, FileSize)
    OBVIOUS
  <2> QED
    BY <2>1
<1>6. ~(r.target = "file" /\ r.ask.kind = "range")
  <2> SUFFICES ASSUME r.target = "file", r.ask.kind = "range" PROVE FALSE
    OBVIOUS
  <2>1. ReplyTo(r).content = TRUE
    OBVIOUS
  <2> QED
    BY <2>1
<1> QED
  BY <1>1, <1>2, <1>3, <1>4, <1>5, <1>6 DEF Answerable, AskKinds

\* The range handle_range makes of first and last, when they are in order and
\* first is in the file.
LEMMA RangeInFile ==
  ASSUME FileSize <= IntMax, NEW first \in Nat, NEW last \in Nat \cup {-1},
         last = -1 \/ first < last, first < FileSize
  PROVE  /\ RangeEnd(first, last) = IF last = -1 \/ last >= FileSize THEN FileSize - 1 ELSE last
         /\ RangeEnd(first, last) - first + 1 \in 1 .. FileSize - first
         /\ Word(RangeEnd(first, last) - first + 1) = RangeEnd(first, last) - first + 1
<1>1. FileSize \in Nat /\ WordSize \in Nat /\ WordSize > 2 * FileSize
  BY HttpAssumption DEF HttpAssumption
<1>2. RangeEnd(first, last) = IF last = -1 \/ last >= FileSize THEN FileSize - 1 ELSE last
  <2>1. first <= IntMax
    BY <1>1, HttpAssumption DEF HttpAssumption
  <2>2. RangeEnd(first, last) = IF last = -1 \/ last <= first \/ last >= FileSize
                                THEN FileSize - 1 ELSE last
    BY <2>1, RangeOfSmallFile
  <2> QED
    BY <1>1, <2>2
<1>3. RangeEnd(first, last) - first + 1 \in 1 .. FileSize - first
  BY <1>1, <1>2
<1> DEFINE m == RangeEnd(first, last) - first + 1
<1> HIDE DEF m
<1>4. m \in 0 .. WordSize - 1
  <2>1. m \in 1 .. FileSize - first
    BY <1>3 DEF m
  <2> QED
    BY <1>1, <2>1
<1>5. Word(m) = m
  BY <1>4, WordFits
<1> QED
  BY <1>2, <1>3, <1>5 DEF m

\* A body that is sent in full and lies in the file is the one asked for.
LEMMA RightBody ==
  ASSUME PatientClient, NEW r \in Requests, ReplyTo(r).content, NEW o \in Nat,
         IsRange(r) => o = r.ask.first,
         o < FileSize, o + ReplyTo(r).length <= FileSize
  PROVE  Service!RightAnswer(r)
           = [status |-> ReplyTo(r).status, first |-> o, count |-> ReplyTo(r).length]
<1>1. /\ r.target \in {"file", "missing"} /\ r.ask.kind \in AskKinds
      /\ r.ask.first \in Nat /\ r.ask.last \in Nat \cup {-1} /\ FileSize \in Nat
  BY HttpAssumption DEF HttpAssumption, IsRequest
<1>2. CASE r.target = "file" /\ r.ask.kind = "whole"
  <2>1. ReplyTo(r).status = 200 /\ ReplyTo(r).length = FileSize
    BY <1>2 DEF ReplyTo, Reply
  <2>2. o = 0
    BY <1>1, <2>1
  <2> QED
    BY <1>2, <2>1, <2>2 DEF Service!RightAnswer, Service!Answer
<1>3. CASE IsRange(r)
  <2> DEFINE first == r.ask.first
             last  == r.ask.last
  <2>1. o = first /\ (last = -1 \/ first < last) /\ first \in Nat /\ last \in Nat \cup {-1}
    BY <1>1, <1>3 DEF PatientClient
  <2>2. ReplyTo(r).status = 206 /\ ReplyTo(r).length = Word(RangeEnd(first, last) - first + 1)
    BY <1>3 DEF ReplyTo, Reply, IsRange
  <2>3. Service!LastByte(r.ask) = IF last = -1 \/ last >= FileSize THEN FileSize - 1 ELSE last
    BY DEF Service!LastByte
  <2>4. Service!RightAnswer(r)
          = [status |-> 206, first |-> first, count |-> Service!LastByte(r.ask) - first + 1]
    BY <1>3 DEF IsRange, Service!RightAnswer, Service!Answer
  <2> HIDE DEF first, last
  <2>5. /\ Word(RangeEnd(first, last) - first + 1) = RangeEnd(first, last) - first + 1
        /\ RangeEnd(first, last) = Service!LastByte(r.ask)
    BY <2>1, <2>3, RangeInFile DEF PatientClient
  <2> QED
    BY <2>1, <2>2, <2>4, <2>5
<1>4. CASE r.target = "missing" \/ r.ask.kind \in {"since", "malformed", "nonnumeric"}
  <2>1. ReplyTo(r).content = FALSE
    BY <1>4 DEF ReplyTo, Reply
  <2> QED
    BY <2>1
<1> QED
  BY <1>1, <1>2, <1>3, <1>4 DEF AskKinds, IsRange

-----------------------------------------------------------------------------
(* What the client has received in full. *)

Got(a)         == [status |-> a.status, first |-> a.first, count |-> a.count]
GotType        == [status : Nat, first : Nat, count : Nat]
Delivered(as)  == [i \in {j \in DOMAIN as : as[j].done} |-> Got(as[i])]

\* The first n answers are complete, and no other.
Complete(as, n) ==
  n <= Len(as) /\ \A i \in 1 .. Len(as) : (i <= n => as[i].done) /\ (n < i => ~as[i].done)

LEMMA ReceivedDelivered == Received = Delivered(answers) /\ Received' = Delivered(answers')
BY DEF Received, Delivered, Got

LEMMA DeliveredSeq ==
  ASSUME NEW as \in Seq(AnswerType), NEW n \in Nat, Complete(as, n)
  PROVE  /\ Delivered(as) \in Seq(GotType) /\ Len(Delivered(as)) = n
         /\ \A i \in 1 .. n : Delivered(as)[i] = Got(as[i])
<1> DEFINE m == Len(as)
<1>1. m \in Nat /\ DOMAIN as = 1 .. m
  BY LenProperties
<1>2. n <= m /\ \A i \in 1 .. m : (i <= n => as[i].done) /\ (n < i => ~as[i].done)
  BY DEF Complete
<1>3. \A i \in 1 .. m : as[i] \in AnswerType
  BY ElementOfSeq
<1> HIDE DEF m
<1>4. /\ \A i \in 1 .. n : i \in 1 .. m /\ i <= n
      /\ \A i \in 1 .. m : i \in 1 .. n \/ n < i
  BY <1>1, <1>2
<1>5. {j \in 1 .. m : as[j].done} = 1 .. n
  BY <1>2, <1>4, Zenon
<1>6. Delivered(as) = [i \in 1 .. n |-> Got(as[i])]
  BY <1>1, <1>5 DEF Delivered
<1>7. \A i \in 1 .. n : Got(as[i]) \in GotType
  <2>1. \A a \in AnswerType : Got(a) \in GotType
    BY DEF AnswerType, Got, GotType
  <2> QED
    BY <1>3, <1>4, <2>1, Zenon
<1>8. Delivered(as) \in [1 .. n -> GotType]
  BY <1>6, <1>7, Zenon
<1>9. Delivered(as) \in Seq(GotType)
  BY <1>8, SeqDef, Zenon
<1>10. Len(Delivered(as)) = n
  <2>1. DOMAIN Delivered(as) = 1 .. n
    BY <1>6
  <2> QED
    BY <1>9, <2>1, LenProperties
<1> QED
  BY <1>6, <1>9, <1>10

LEMMA DeliveredSame ==
  ASSUME NEW as \in Seq(AnswerType), NEW bs \in Seq(AnswerType), NEW n \in Nat,
         Complete(as, n), Complete(bs, n), \A i \in 1 .. n : bs[i] = as[i]
  PROVE  Delivered(bs) = Delivered(as)
<1>1. /\ Delivered(as) \in Seq(GotType) /\ Len(Delivered(as)) = n
      /\ \A i \in 1 .. n : Delivered(as)[i] = Got(as[i])
  BY DeliveredSeq
<1>2. /\ Delivered(bs) \in Seq(GotType) /\ Len(Delivered(bs)) = n
      /\ \A i \in 1 .. n : Delivered(bs)[i] = Got(bs[i])
  BY DeliveredSeq
<1>3. \A i \in 1 .. n : Delivered(bs)[i] = Delivered(as)[i]
  BY <1>1, <1>2
<1> QED
  BY <1>1, <1>2, <1>3, SeqEqual

LEMMA DeliveredGrows ==
  ASSUME NEW as \in Seq(AnswerType), NEW bs \in Seq(AnswerType), NEW n \in Nat,
         Complete(as, n), Complete(bs, n + 1), \A i \in 1 .. n : bs[i] = as[i]
  PROVE  Delivered(bs) = Append(Delivered(as), Got(bs[n + 1]))
<1>1. /\ Delivered(as) \in Seq(GotType) /\ Len(Delivered(as)) = n
      /\ \A i \in 1 .. n : Delivered(as)[i] = Got(as[i])
  BY DeliveredSeq
<1>2. /\ Delivered(bs) \in Seq(GotType) /\ Len(Delivered(bs)) = n + 1
      /\ \A i \in 1 .. n + 1 : Delivered(bs)[i] = Got(bs[i])
  BY DeliveredSeq
<1> DEFINE e == Got(bs[n + 1])
           d == Delivered(as)
<1>3. e \in GotType /\ Delivered(bs)[n + 1] = e
  <2>1. n + 1 \in 1 .. n + 1
    OBVIOUS
  <2>2. Delivered(bs)[n + 1] = e
    BY <1>2, <2>1
  <2>3. Delivered(bs)[n + 1] \in GotType
    BY <1>2, <2>1, ElementOfSeq
  <2> QED
    BY <2>2, <2>3
<1> HIDE DEF d, e
<1>4. d \in Seq(GotType) /\ Len(d) = n
  BY <1>1 DEF d
<1>5. /\ Append(d, e) \in Seq(GotType) /\ Len(Append(d, e)) = Len(d) + 1
      /\ \A i \in 1 .. Len(d) : Append(d, e)[i] = d[i]
      /\ Append(d, e)[Len(d) + 1] = e
  BY <1>3, <1>4, AppendProperties
<1>6. \A i \in 1 .. n + 1 : Delivered(bs)[i] = Append(d, e)[i]
  <2>1. \A i \in 1 .. n + 1 : i \in 1 .. n \/ i = n + 1
    BY <1>4
  <2>2. \A i \in 1 .. n : Delivered(bs)[i] = d[i] /\ Append(d, e)[i] = d[i]
    <3>1. \A i \in 1 .. n : i \in 1 .. n + 1
      BY <1>4
    <3> QED
      BY <1>1, <1>2, <1>4, <1>5, <3>1 DEF d
  <2>3. Append(d, e)[n + 1] = e
    BY <1>4, <1>5
  <2> QED
    BY <1>3, <2>1, <2>2, <2>3
<1>7. Delivered(bs) = Append(d, e)
  BY <1>2, <1>4, <1>5, <1>6, SeqEqual
<1> QED
  BY <1>7 DEF d, e

\* How many answers are complete, in each phase.
LEMMA CompleteInPhase ==
  ASSUME HInv, HInv'
  PROVE  /\ Len(sent) \in Nat /\ answers \in Seq(AnswerType) /\ answers' \in Seq(AnswerType)
         /\ Resting' => Complete(answers', Len(sent'))
         /\ Answering => Complete(answers, Len(sent) - 1)
         /\ Transferring => Complete(answers, Len(sent) - 1)
         /\ Transferring' => Complete(answers', Len(sent') - 1)
<1>1. /\ Len(sent) \in Nat /\ Len(sent') \in Nat
      /\ answers \in Seq(AnswerType) /\ answers' \in Seq(AnswerType)
  BY LenProperties DEF HInv, Typed
<1>2. ASSUME NEW as \in Seq(AnswerType), NEW n \in Int, Len(as) = n, \A i \in 1 .. n : as[i].done
      PROVE  Complete(as, n)
  <2>1. n <= n /\ \A i \in 1 .. n : i <= n /\ ~(n < i)
    OBVIOUS
  <2> QED
    BY <1>2, <2>1, Zenon DEF Complete
<1>3. ASSUME NEW as \in Seq(AnswerType), NEW n \in Nat, Len(as) = n,
             \A i \in 1 .. n - 1 : as[i].done, ~as[n].done
      PROVE  Complete(as, n - 1)
  <2>1. /\ n - 1 <= n /\ \A i \in 1 .. n - 1 : i <= n - 1 /\ ~(n - 1 < i)
        /\ \A i \in 1 .. n : i \in 1 .. n - 1 \/ (i = n /\ ~(n <= n - 1))
    OBVIOUS
  <2> QED
    BY <1>3, <2>1, Zenon DEF Complete
<1>4. Resting' => Complete(answers', Len(sent'))
  BY <1>1, <1>2 DEF Resting, AllDone
<1>5. Answering => Complete(answers, Len(sent) - 1)
  <2>1. Len(sent) - 1 \in Int
    BY <1>1
  <2> QED
    BY <1>1, <1>2, <2>1 DEF Answering, AllDone
<1>6. Transferring => Complete(answers, Len(sent) - 1)
  <2> SUFFICES ASSUME Transferring PROVE Complete(answers, Len(sent) - 1)
    OBVIOUS
  <2>1. /\ Len(answers) = Len(sent) /\ \A i \in 1 .. Len(sent) - 1 : answers[i].done
        /\ ~answers[Len(sent)].done
    BY DEF Transferring, HInv, BodyOK
  <2> QED
    BY <1>1, <1>3, <2>1
<1>7. Transferring' => Complete(answers', Len(sent') - 1)
  <2> SUFFICES ASSUME Transferring' PROVE Complete(answers', Len(sent') - 1)
    OBVIOUS
  <2>1. /\ Len(answers') = Len(sent') /\ \A i \in 1 .. Len(sent') - 1 : answers'[i].done
        /\ ~answers'[Len(sent')].done
    BY DEF Transferring, HInv, BodyOK
  <2> QED
    BY <1>1, <1>3, <2>1
<1> QED
  BY <1>1, <1>4, <1>5, <1>6, <1>7

-----------------------------------------------------------------------------
(* Every step of the connection is a step of the service, or none. *)

LEMMA InitService == Init => Service!ServiceInit
<1> SUFFICES ASSUME Init PROVE Service!ServiceInit
  OBVIOUS
<1>1. answers = <<>> /\ sent = <<>> /\ stage = "reading"
  BY DEF Init
<1>2. <<>> \in Seq(AnswerType) /\ Complete(<<>>, 0)
  BY EmptySeq DEF Complete
<1>3. Delivered(<<>>) \in Seq(GotType) /\ Len(Delivered(<<>>)) = 0
  BY <1>2, DeliveredSeq
<1>4. Received = <<>>
  BY <1>1, <1>3, EmptySeq, ReceivedDelivered
<1> QED
  BY <1>1, <1>4 DEF Service!ServiceInit

\* Nothing complete is added.
LEMMA Unanswered ==
  ASSUME HInv, HInv', Answering \/ Transferring, Transferring', sent' = sent,
         \A i \in 1 .. Len(sent) - 1 : answers'[i] = answers[i]
  PROVE  UNCHANGED Service!serviceVars
<1>1. /\ Len(sent) - 1 \in Nat /\ answers \in Seq(AnswerType) /\ answers' \in Seq(AnswerType)
      /\ Complete(answers, Len(sent) - 1) /\ Complete(answers', Len(sent) - 1)
  <2>1. Len(sent) \in Nat /\ sent \in Seq(Requests) /\ sent # <<>>
    BY CompleteInPhase DEF HInv, Typed, Answering, Transferring, Serving
  <2>2. Len(sent) - 1 \in Nat
    BY <2>1, EmptySeq
  <2> QED
    BY <2>2, CompleteInPhase
<1>2. Delivered(answers') = Delivered(answers)
  BY <1>1, DeliveredSame
<1>3. (stage' \notin {"closed", "aborted"}) = (stage \notin {"closed", "aborted"})
  BY DEF Answering, Transferring
<1> QED
  BY <1>2, <1>3, ReceivedDelivered DEF Service!serviceVars

\* The request being served has the right answer.
LEMMA AnsweredRight ==
  ASSUME HInv, HInv', Answering \/ Transferring, Resting', sent' = sent,
         \A i \in 1 .. Len(sent) - 1 : answers'[i] = answers[i],
         Got(answers'[Len(sent)]) = Service!RightAnswer(Current)
  PROVE  Service!GiveAnswer
<1> DEFINE n == Len(sent) - 1
<1>1. /\ n \in Nat /\ Len(sent) = n + 1
      /\ answers \in Seq(AnswerType) /\ answers' \in Seq(AnswerType)
      /\ Complete(answers, n) /\ Complete(answers', n + 1)
  <2>1. Len(sent) \in Nat /\ sent \in Seq(Requests) /\ sent # <<>>
    BY CompleteInPhase DEF HInv, Typed, Answering, Transferring, Serving
  <2>2. n \in Nat /\ Len(sent) = n + 1
    BY <2>1, EmptySeq
  <2>3. Complete(answers', Len(sent)) /\ Complete(answers, n)
    BY CompleteInPhase
  <2>4. Complete(answers', n + 1)
    BY <2>2, <2>3
  <2> QED
    BY <2>2, <2>3, <2>4, CompleteInPhase
<1>2. \A i \in 1 .. n : answers'[i] = answers[i]
  OBVIOUS
<1> HIDE DEF n
<1>3. Delivered(answers') = Append(Delivered(answers), Got(answers'[n + 1]))
  BY <1>1, <1>2, DeliveredGrows
<1>4. Len(Delivered(answers)) = n
  BY <1>1, DeliveredSeq
<1>5. Received' = Append(Received, Service!RightAnswer(sent[Len(Received) + 1]))
  BY <1>1, <1>3, <1>4, ReceivedDelivered DEF Current
<1>6. Len(Received) < Len(sent)
  BY <1>1, <1>4, ReceivedDelivered
<1>7. stage' \notin {"closed", "aborted"} /\ stage \notin {"closed", "aborted"}
  BY DEF Answering, Transferring, Resting
<1> QED
  BY <1>5, <1>6, <1>7 DEF Service!GiveAnswer

LEMMA HeaderStep ==
  ASSUME HInv, HInv', PInv, WriteHeader
  PROVE  Service!GiveAnswer \/ UNCHANGED Service!serviceVars
<1>1. /\ Answering /\ sent' = sent
      /\ reply.content => Transferring'
      /\ ~reply.content => Resting'
  BY WritePhase
<1>2. /\ \A i \in 1 .. Len(sent) - 1 : answers'[i] = answers[i]
      /\ answers'[Len(sent)] = NewAnswer
  <2>1. Len(answers) = Len(sent) - 1 /\ Len(sent) \in Nat
    BY <1>1, CompleteInPhase DEF Answering, AllDone
  <2>2. Len(answers) + 1 = Len(sent)
    BY <2>1
  <2> QED
    BY <2>1, <2>2, HeaderWritten
<1>3. CASE reply.content
  BY <1>1, <1>2, <1>3, Unanswered
<1>4. CASE ~reply.content
  <2>1. Got(NewAnswer) = [status |-> reply.status, first |-> 0, count |-> 0]
    BY <1>4 DEF Got, NewAnswer
  <2>2. Current \in Requests /\ reply = ReplyTo(Current) /\ Answerable(Current)
    <3>1. sent \in Seq(Requests) /\ sent # <<>>
      BY <1>1 DEF HInv, Typed, Answering, Serving
    <3>2. Len(sent) \in 1 .. Len(sent)
      BY <3>1, EmptySeq
    <3> QED
      BY <1>1, <3>1, <3>2, ElementOfSeq DEF Answering, Serving, Current
  <2>3. Got(answers'[Len(sent)]) = Service!RightAnswer(Current)
    BY <1>2, <1>4, <2>1, <2>2, RightWithoutBody
  <2> QED
    BY <1>1, <1>2, <1>4, <2>3, AnsweredRight
<1> QED
  BY <1>3, <1>4

LEMMA BodyStep ==
  ASSUME PatientClient, HInv, HInv', PInv, SendBody
  PROVE  Service!GiveAnswer \/ UNCHANGED Service!serviceVars
<1>1. PICK n \in 1 .. Sendable, finished \in BOOLEAN : Sent(n, finished)
  BY BodySent
<1>2. /\ Transferring /\ sent' = sent
      /\ finished => Resting'
      /\ ~finished => Transferring'
  BY <1>1, SendPhase
<1>3. Len(sent) \in Nat \ {0} /\ Len(answers) = Len(sent) /\ DOMAIN answers = 1 .. Len(sent)
  <2>1. sent \in Seq(Requests) /\ sent # <<>> /\ answers \in Seq(AnswerType)
    BY <1>2 DEF HInv, Typed, Transferring, Serving
  <2>2. Len(answers) = Len(sent)
    BY <1>2 DEF Transferring
  <2>3. Len(sent) \in Nat \ {0}
    BY <2>1, EmptySeq
  <2> QED
    BY <2>1, <2>2, <2>3, LenProperties
<1> DEFINE L == Len(sent)
           a == answers[L]
<1> HIDE DEF L
<1>4. L \in 1 .. L /\ \A i \in 1 .. L - 1 : i \in 1 .. L /\ i # L
  <2>1. L \in Nat \ {0}
    BY <1>3 DEF L
  <2> QED
    BY <2>1
<1>5. \A i \in 1 .. L - 1 : answers'[i] = answers[i]
  BY <1>1, <1>3, <1>4 DEF Sent, L
<1>6. CASE ~finished
  BY <1>2, <1>5, <1>6, Unanswered DEF L
<1>7. CASE finished
  <2>1. /\ answers'[L].status = reply.status /\ answers'[L].first = offset
        /\ answers'[L].count = reply.length
    BY <1>1, <1>2, <1>3, <1>4, <1>7 DEF Sent, Transferring, L
  <2>2. Current \in Requests /\ reply = ReplyTo(Current) /\ reply.content
        /\ (IsRange(Current) => offset = Current.ask.first)
    BY <1>2, <1>3, <1>4, ElementOfSeq DEF HInv, Typed, Transferring, Serving, Current, L
  <2>3. offset \in Nat /\ offset < FileSize /\ offset + reply.length <= FileSize
    <3>1. /\ offset \in Nat /\ already_written = offset + a.count /\ a \in AnswerType
          /\ already_written + n <= FileSize /\ a.count + n = reply.length
      BY <1>1, <1>2, <1>3, <1>4, <1>7, ElementOfSeq
         DEF HInv, Typed, BodyOK, Transferring, Sent, L
    <3> DEFINE c == a.count
               l == reply.length
    <3>2. c \in Nat
      BY <3>1 DEF AnswerType
    <3>3. already_written = offset + c /\ c + n = l
      BY <3>1
    <3> HIDE DEF c, l
    <3>4. n \in Nat \ {0} /\ FileSize \in Nat /\ offset \in Nat /\ already_written + n <= FileSize
      BY <3>1, HttpAssumption DEF HttpAssumption
    <3>5. offset < FileSize /\ offset + l <= FileSize
      BY <3>2, <3>3, <3>4
    <3> QED
      BY <3>1, <3>5 DEF l
  <2>4. Service!RightAnswer(Current)
          = [status |-> reply.status, first |-> offset, count |-> reply.length]
    BY <2>2, <2>3, RightBody
  <2>5. Got(answers'[L]) = Service!RightAnswer(Current)
    BY <2>1, <2>4 DEF Got
  <2> QED
    BY <1>2, <1>5, <1>7, <2>5, AnsweredRight DEF L
<1> QED
  BY <1>6, <1>7

LEMMA StepOfService ==
  ASSUME PatientClient, HInv, HInv', PInv, [Next]_vars
  PROVE  [Service!ServiceNext]_Service!serviceVars
<1> USE DEF Service!ServiceNext
<1>1. ASSUME NEW r \in Requests, Ask(r)
      PROVE  Service!Ask(r)
  <2>1. /\ sent' = Append(sent, r) /\ answers' = answers /\ stage' = stage
        /\ stage \notin {"closed", "aborted"}
    BY <1>1 DEF Ask
  <2> QED
    BY <2>1, ReceivedDelivered DEF Service!Ask
<1>2. ~SendMore
  BY DEF SendMore, PInv
<1>3. CASE Read
  <2>1. sent' = sent /\ Received' = Received /\ stage = "reading"
    BY <1>3, ReceivedDelivered DEF Read
  <2>2. stage' \in {"aborted", "header"}
    BY <1>3, ReadPhase DEF Answering
  <2>3. CASE stage' = "aborted"
    BY <2>1, <2>3 DEF Service!End
  <2>4. CASE stage' = "header"
    BY <2>1, <2>4 DEF Service!serviceVars
  <2> QED
    BY <2>2, <2>3, <2>4
<1>4. CASE WriteHeader
  BY <1>4, HeaderStep
<1>5. CASE SendBody
  BY <1>5, BodyStep
<1>6. CASE SendNothing \/ WorkerExits \/ Cleanup
  <2>1. /\ sent' = sent /\ answers' = answers /\ stage' \in {"closed", "aborted"}
        /\ stage \notin {"closed", "aborted"}
    BY <1>6 DEF SendNothing, WorkerExits, Cleanup, input
  <2> QED
    BY <2>1, ReceivedDelivered DEF Service!End
<1>7. CASE UNCHANGED vars
  <2>1. sent' = sent /\ answers' = answers /\ stage' = stage
    BY <1>7 DEF vars, input
  <2> QED
    BY <2>1, ReceivedDelivered DEF Service!serviceVars
<1> QED
  BY <1>1, <1>2, <1>3, <1>4, <1>5, <1>6, <1>7 DEF Next

\* For a client that waits, and a file of at most IntMax bytes, the connection
\* implements HttpService: the requests are answered in order, each with the
\* answer HTTP gives, whatever range of the file it is (read_callback_http,
\* parse_headers, handle_range, yta_async_sendfile).
THEOREM ServesThePatient ==
  ASSUME PatientClient
  PROVE  Spec => ImplementsService
<1>1. HInv /\ HInv' /\ PInv /\ [Next]_vars => [Service!ServiceNext]_Service!serviceVars
  BY StepOfService
<1>2. Init => HInv /\ PInv
  BY InitHInv, InitPInv
<1>3. HInv /\ PInv /\ [Next]_vars => HInv' /\ PInv'
  BY HInductive, PInductive
<1> QED
  BY <1>1, <1>2, <1>3, InitService, PTL DEF Spec, ImplementsService, Service!ServiceSpec

-----------------------------------------------------------------------------
(* The assertion of write_handle_sendfile. *)

LEMMA InitCInv == Init => CInv
<1> SUFFICES ASSUME Init PROVE CInv
  OBVIOUS
<1> QED
  BY DEF Init, CInv, OffsetAsked, BodyInFile

LEMMA AskKeepsOffset ==
  ASSUME PatientClient, HInv, PInv, OffsetAsked, NEW r \in Requests, Ask(r)
  PROVE  OffsetAsked'
<1>1. /\ Len(sent') = Len(sent) + 1
      /\ \A i \in 1 .. Len(sent) : sent'[i] = sent[i]
  BY AskPhase
<1>2. Len(sent) \in Nat /\ offset' = offset
  BY LenProperties DEF Ask, body, HInv, Typed
<1>3. PICK s \in Sessions : Len(sent) < Len(s) /\ sent' = SubSeq(s, 1, Len(sent) + 1)
  BY DEF Ask
<1>4. s \in Seq(Requests) /\ Len(s) \in Nat
  BY HttpAssumption, LenProperties DEF HttpAssumption
<1>5. \A i \in 1 .. Len(sent') : sent'[i] = s[i]
  <2> DEFINE n == Len(sent) + 1
  <2>1. n \in 1 .. Len(s)
    BY <1>2, <1>3, <1>4
  <2> HIDE DEF n
  <2>2. \A i \in 1 .. n : SubSeq(s, 1, n)[i] = s[i]
    <3>1. n \in Int /\ n - 1 + 1 = n /\ \A i \in 1 .. n : i \in 1 .. Len(s)
      BY <1>4, <2>1
    <3>2. \A i \in 1 .. n : 1 + i - 1 = i
      OBVIOUS
    <3> QED
      BY <1>4, <3>1, <3>2, ElementOfSeq, SubSeqProperties
  <2> QED
    BY <1>1, <1>3, <2>2 DEF n
<1>6. \E t \in Sessions : Len(sent') <= Len(t) /\ \A i \in 1 .. Len(sent') : sent'[i] = t[i]
  <2>1. Len(sent') <= Len(s)
    BY <1>1, <1>2, <1>3, <1>4
  <2> QED
    BY <1>5, <2>1
<1>7. offset' # 0 => \E i \in 1 .. Len(sent') : IsRange(sent'[i])
  <2> SUFFICES ASSUME offset' # 0 PROVE \E i \in 1 .. Len(sent') : IsRange(sent'[i])
    OBVIOUS
  <2>1. PICK i \in 1 .. Len(sent) : IsRange(sent[i])
    BY <1>2 DEF OffsetAsked
  <2>2. i \in 1 .. Len(sent')
    BY <1>1, <1>2
  <2>3. IsRange(sent'[i])
    BY <1>1, <2>1
  <2> QED
    BY <2>2, <2>3
<1> QED
  BY <1>6, <1>7 DEF OffsetAsked, IsRange

\* The offset changes only to that of the range being asked for.
LEMMA OffsetKept ==
  ASSUME HInv, OffsetAsked, sent' = sent, offset' = offset \/ (sent # <<>> /\ IsRange(Current))
  PROVE  OffsetAsked'
<1>1. CASE offset' = offset
  BY <1>1 DEF OffsetAsked, IsRange
<1>2. CASE sent # <<>> /\ IsRange(Current)
  <2>1. sent \in Seq(Requests) /\ sent # <<>>
    BY <1>2 DEF HInv, Typed
  <2>2. Len(sent) \in 1 .. Len(sent)
    BY <2>1, EmptySeq
  <2>3. IsRange(sent[Len(sent)])
    BY <1>2 DEF Current
  <2> QED
    BY <2>2, <2>3 DEF OffsetAsked, IsRange
<1> QED
  BY <1>1, <1>2

LEMMA SendableInFile ==
  ASSUME already_written \in Nat, to_write \in Nat,
         already_written < to_write, to_write <= FileSize
  PROVE  Sendable = to_write - already_written
<1>1. FileSize \in Nat /\ WordSize \in Nat /\ WordSize > 2 * FileSize
  BY HttpAssumption DEF HttpAssumption
<1>2. to_write - already_written \in 0 .. WordSize - 1
  BY <1>1
<1>3. Count = to_write - already_written
  BY <1>2, WordFits DEF Count
<1>4. ~Refused
  BY <1>1, <1>3 DEF Refused
<1> QED
  BY <1>1, <1>3, <1>4 DEF Sendable, Least

\* A careful client is sent something, and nothing beyond the end of the file.
LEMMA BodyAsked ==
  ASSUME CarefulClient, HInv, OffsetAsked, Answering, reply.content
  PROVE  offset < Word(reply.length + offset) /\ Word(reply.length + offset) <= FileSize
<1>1. /\ sent \in Seq(Requests) /\ Len(sent) \in 1 .. Len(sent) /\ sent # <<>>
      /\ reply = ReplyTo(Current) /\ offset \in Nat
      /\ IsRange(Current) => offset = Current.ask.first
  <2>1. sent \in Seq(Requests) /\ sent # <<>>
    BY DEF HInv, Typed, Answering, Serving
  <2>2. Len(sent) \in 1 .. Len(sent)
    BY <2>1, EmptySeq
  <2> QED
    BY <2>1, <2>2 DEF HInv, Typed, Answering, Serving
<1>2. Current \in Requests
  BY <1>1, ElementOfSeq DEF Current
<1>3. /\ Current.target \in {"file", "missing"} /\ Current.ask.kind \in AskKinds
      /\ Current.ask.first \in Nat /\ Current.ask.last \in Nat \cup {-1}
  BY <1>2, HttpAssumption DEF HttpAssumption, IsRequest
<1>4. FileSize \in Nat \ {0} /\ WordSize \in Nat /\ WordSize > 2 * FileSize
  BY HttpAssumption DEF HttpAssumption, CarefulClient
<1>5. \A m \in 0 .. FileSize : Word(m) = m
  <2>1. \A m \in 0 .. FileSize : m \in 0 .. WordSize - 1
    BY <1>4
  <2> QED
    BY <2>1, WordFits
<1>6. CASE IsRange(Current)
  <2> DEFINE first == Current.ask.first
             last  == Current.ask.last
             l     == RangeEnd(first, last) - first + 1
  <2>1. /\ first \in Nat /\ last \in Nat \cup {-1} /\ (last = -1 \/ first < last)
        /\ first < FileSize /\ offset = first
    BY <1>1, <1>2, <1>3, <1>6 DEF CarefulClient, PatientClient
  <2>2. reply.length = Word(l)
    BY <1>1, <1>6 DEF ReplyTo, Reply, IsRange
  <2> HIDE DEF first, last
  <2>3. l \in 1 .. FileSize - first /\ Word(l) = l
    BY <2>1, RangeInFile DEF CarefulClient, PatientClient
  <2> HIDE DEF l
  <2>4. l + first \in 0 .. FileSize /\ first < l + first
    BY <1>4, <2>1, <2>3
  <2> QED
    BY <1>5, <2>1, <2>2, <2>3, <2>4
<1>7. CASE IsWhole(Current)
  <2>1. reply.length = FileSize
    BY <1>1, <1>7 DEF ReplyTo, Reply, IsWhole
  <2>2. offset = 0
    <3> SUFFICES ASSUME offset # 0 PROVE FALSE
      OBVIOUS
    <3>1. PICK i \in 1 .. Len(sent) : IsRange(sent[i])
      BY DEF OffsetAsked
    <3>2. i # Len(sent)
      BY <1>7, <3>1 DEF IsRange, IsWhole, Current
    <3>3. PICK s \in Sessions :
            Len(sent) <= Len(s) /\ \A j \in 1 .. Len(sent) : sent[j] = s[j]
      BY <1>1 DEF OffsetAsked
    <3>4. i < Len(sent) /\ i \in 1 .. Len(s) /\ Len(sent) \in 1 .. Len(s)
      <4>1. Len(s) \in Nat /\ Len(sent) \in Nat
        BY <1>1, HttpAssumption, LenProperties DEF HttpAssumption
      <4> DEFINE n == Len(sent)
                 m == Len(s)
      <4>2. n \in Nat /\ m \in Nat /\ n <= m /\ i \in 1 .. n /\ i # n
        BY <3>2, <3>3, <4>1
      <4> HIDE DEF n, m
      <4>3. i < n /\ i \in 1 .. m /\ n \in 1 .. m
        BY <4>2
      <4> QED
        BY <4>3 DEF n, m
    <3>5. DOMAIN s = 1 .. Len(s)
      BY HttpAssumption, LenProperties DEF HttpAssumption
    <3>6. IsRange(s[i]) /\ IsWhole(s[Len(sent)])
      BY <1>1, <1>7, <3>1, <3>3 DEF Current
    <3> QED
      BY <3>4, <3>5, <3>6 DEF CarefulClient
  <2>3. Word(reply.length + offset) = FileSize
    BY <1>4, <1>5, <2>1, <2>2
  <2> QED
    BY <1>4, <2>2, <2>3
<1>8. CASE ~IsRange(Current) /\ ~IsWhole(Current)
  <2>1. reply.content = FALSE
    BY <1>1, <1>3, <1>8 DEF ReplyTo, Reply, IsRange, IsWhole
  <2> QED
    BY <2>1
<1> QED
  BY <1>6, <1>7, <1>8

LEMMA CInductive == CarefulClient /\ HInv /\ PInv /\ CInv /\ [Next]_vars => CInv'
<1> SUFFICES ASSUME CarefulClient, HInv, PInv, CInv, [Next]_vars PROVE CInv'
  OBVIOUS
<1> USE DEF CInv
<1>0. PatientClient
  BY DEF CarefulClient
<1>1. ASSUME NEW r \in Requests, Ask(r) PROVE CInv'
  <2>1. OffsetAsked'
    BY <1>0, <1>1, AskKeepsOffset
  <2>2. BodyInFile'
    BY <1>1 DEF Ask, body, BodyInFile
  <2> QED
    BY <2>1, <2>2
<1>2. ~SendMore
  BY DEF SendMore, PInv
<1>3. CASE Read
  <2>1. /\ sent' = sent /\ (offset' = offset \/ (sent # <<>> /\ IsRange(Current)))
        /\ stage' \in {"aborted", "header"}
    BY <1>0, <1>3, ReadPhase DEF Answering
  <2> QED
    BY <2>1, OffsetKept DEF BodyInFile
<1>4. CASE WriteHeader
  <2>1. /\ Answering /\ sent' = sent /\ offset' = offset
        /\ ~reply.content => stage' = "reading"
    BY <1>4, WritePhase DEF Resting
  <2>2. OffsetAsked'
    BY <2>1, OffsetKept
  <2>3. CASE reply.content
    <3>1. to_write' = Word(reply.length + offset) /\ already_written' = offset
      BY <1>4, <2>3 DEF WriteHeader, AsyncSendfile
    <3>2. BodyInFile'
      BY <2>1, <2>3, <3>1, BodyAsked DEF BodyInFile
    <3> QED
      BY <2>2, <3>2
  <2>4. CASE ~reply.content
    BY <2>1, <2>2, <2>4 DEF BodyInFile
  <2> QED
    BY <2>3, <2>4
<1>5. CASE SendBody
  <2>1. PICK n \in 1 .. Sendable, finished \in BOOLEAN : Sent(n, finished)
    BY <1>5, BodySent
  <2>2. /\ sent' = sent /\ offset' = offset
        /\ finished => stage' = "reading"
    BY <2>1, SendPhase DEF Resting
  <2>3. OffsetAsked'
    BY <2>2, OffsetKept
  <2>4. CASE finished
    BY <2>2, <2>3, <2>4 DEF BodyInFile
  <2>5. CASE ~finished
    <3>1. /\ already_written \in Nat /\ to_write \in Nat
          /\ already_written < to_write /\ to_write <= FileSize
      BY <2>1 DEF HInv, Typed, BodyInFile, Sent
    <3>2. n \in 1 .. to_write - already_written
      BY <3>1, SendableInFile
    <3>3. /\ already_written' = already_written + n /\ to_write' = to_write
          /\ already_written + n # to_write
      BY <2>1, <2>5 DEF Sent
    <3>4. already_written' < to_write' /\ to_write' <= FileSize
      BY <3>1, <3>2, <3>3
    <3> QED
      BY <2>3, <3>4 DEF BodyInFile
  <2> QED
    BY <2>4, <2>5
<1>6. CASE SendNothing \/ WorkerExits \/ Cleanup
  <2>1. sent' = sent /\ offset' = offset /\ stage' \in {"closed", "aborted"}
    BY <1>6 DEF SendNothing, WorkerExits, Cleanup, input, body
  <2> QED
    BY <2>1, OffsetKept DEF BodyInFile
<1>7. CASE UNCHANGED vars
  <2>1. /\ sent' = sent /\ offset' = offset /\ stage' = stage
        /\ to_write' = to_write /\ already_written' = already_written
    BY <1>7 DEF vars, input, body
  <2> QED
    BY <2>1, OffsetKept DEF BodyInFile
<1> QED
  BY <1>1, <1>2, <1>3, <1>4, <1>5, <1>6, <1>7 DEF Next

\* A careful client never makes sendfile() transfer nothing, the case that
\* write_handle_sendfile asserts does not occur.
THEOREM AssertionSafe ==
  ASSUME CarefulClient
  PROVE  Spec => []AssertionHolds
<1>1. HInv /\ CInv => AssertionHolds
  <2> SUFFICES ASSUME HInv, CInv, stage = "body" PROVE Sendable > 0
    BY DEF AssertionHolds
  <2>1. /\ already_written \in Nat /\ to_write \in Nat
        /\ already_written < to_write /\ to_write <= FileSize
    BY DEF HInv, Typed, CInv, BodyInFile
  <2>2. Sendable = to_write - already_written
    BY <2>1, SendableInFile
  <2> QED
    BY <2>1, <2>2
<1>2. Init => HInv /\ PInv /\ CInv
  BY InitHInv, InitPInv, InitCInv
<1>3. HInv /\ PInv /\ CInv /\ [Next]_vars => HInv' /\ PInv' /\ CInv'
  BY HInductive, PInductive, CInductive DEF CarefulClient
<1> QED
  BY <1>1, <1>2, <1>3, PTL DEF Spec

=============================================================================
