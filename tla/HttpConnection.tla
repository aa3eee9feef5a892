---------------------------- MODULE HttpConnection ----------------------------
(***************************************************************************)
(* One HTTP connection of a yotta worker (yotta.cpp): the callbacks that   *)
(* read a request into user_data.buf, parse it, answer it and wait for the *)
(* next.  EventLoop says when a callback runs; here it is what the         *)
(* callbacks do to struct user_data and to the bytes on the wire.          *)
(*                                                                         *)
(* The unit of input is a line: the request line, a header, or the empty   *)
(* line that ends a request; the client may send a request in pieces.      *)
(***************************************************************************)
EXTENDS Integers, Sequences

CONSTANTS
  Requests,      \* requests a client may make (see Request)
  Sessions,      \* the sequences of requests one connection may see
  FileSize,      \* size of the file that "file" names
  BufSize,       \* MAX_BUFFER_SIZE, in lines
  MaxHeaders,    \* MAX_HEADERS
  WordSize,      \* size_t is the integers modulo WordSize
  IntMax,        \* INT_MAX
  Splits,        \* may a request arrive in several pieces
  Pipelining     \* may a client ask before it has the last answer

AskKinds == {"whole", "since", "malformed", "nonnumeric", "range"}

\* last = -1 stands for an open range, bytes=first-.
IsRequest(r) ==
  /\ r.headers \in Nat /\ r.target \in {"file", "missing"}
  /\ r.ask.kind \in AskKinds /\ r.ask.first \in Nat /\ r.ask.last \in Nat \cup {-1}
  /\ r.ask.kind # "whole" => r.headers > 0

ASSUME HttpAssumption ==
  /\ \A r \in Requests : IsRequest(r)
  /\ Sessions \subseteq Seq(Requests) /\ FileSize \in Nat
  /\ BufSize \in Nat \ {0} /\ MaxHeaders \in Nat
  /\ WordSize \in Nat /\ WordSize > 2 * FileSize /\ IntMax \in Nat
  /\ Splits \in BOOLEAN /\ Pipelining \in BOOLEAN

VARIABLES
  sent,            \* requests made, in order
  held,            \* lines of the last request not sent yet
  wire,            \* lines in the socket, not yet read
  buf,             \* user_data.buf[0 .. counter)
  num_headers,     \* parser.num_headers
  stage,           \* the callback that is armed
  reply,           \* response_buf, content and file_size of user_data
  file_fd,         \* file_fd # 0
  offset, to_write, already_written,
  open_files,      \* descriptors this connection has open on files
  answers          \* what the client has received, one record per response

input  == <<sent, held, wire>>
parsed == <<buf, num_headers, reply>>
body   == <<offset, to_write, already_written>>
vars   == <<input, parsed, body, stage, file_fd, open_files, answers>>

Word(n)   == n % WordSize
Narrow(n) == ((n + IntMax + 1) % (2 * (IntMax + 1))) - (IntMax + 1)   \* to int
Least(a, b) == IF a < b THEN a ELSE b

(***************************************************************************)
(* The client.                                                             *)
(***************************************************************************)
Lines(r, i) == [k \in 1 .. r.headers + 2 |-> [req |-> i, line |-> k]]
IsFirst(l) == l.line = 1
IsEmpty(l) == l.line = sent[l.req].headers + 2

Answered == Len(answers) = Len(sent) /\ \A i \in DOMAIN answers : answers[i].done

Pieces(lines) == IF Splits THEN 1 .. Len(lines) ELSE {Len(lines)}

Send(lines, n) ==
  /\ wire' = wire \o SubSeq(lines, 1, n)
  /\ held' = SubSeq(lines, n + 1, Len(lines))

Ask(r) ==
  /\ stage \notin {"closed", "aborted"}
  /\ held = <<>>
  /\ Pipelining \/ Answered
  /\ sent' = Append(sent, r)
  /\ \E s \in Sessions : Len(sent) < Len(s) /\ sent' = SubSeq(s, 1, Len(sent) + 1)
  /\ LET lines == Lines(r, Len(sent) + 1)
     IN \E n \in Pieces(lines) : Send(lines, n)
  /\ UNCHANGED <<parsed, body, stage, file_fd, open_files, answers>>

SendMore ==
  /\ stage \notin {"closed", "aborted"} /\ held # <<>>
  /\ \E n \in 1 .. Len(held) : Send(held, n)
  /\ UNCHANGED <<sent, parsed, body, stage, file_fd, open_files, answers>>

(***************************************************************************)
(* phr_parse_request on b, of which the first prev lines were parsed       *)
(* before.  The limit on headers is read from num_headers, and the number  *)
(* of headers found, so far, is left there.  One leading empty line is     *)
(* skipped; what is left over from an earlier request is no request line.  *)
(***************************************************************************)
\* Fault variant of Ends: a request without headers is not seen to end.
EndsTooLate(b) == {k \in 3 .. Len(b) : IsEmpty(b[k])}

Ends(b) == {k \in 2 .. Len(b) : IsEmpty(b[k])}

Parse(b, prev, limit) ==
  LET start == IF IsEmpty(b[1]) THEN 2 ELSE 1
      end   == IF Ends(b) = {} THEN Len(b) + 1
               ELSE CHOOSE k \in Ends(b) : \A j \in Ends(b) : k <= j
      found == end - start - 1
      result(code, n) == [code |-> code, headers |-> n]
  IN IF prev # 0 /\ Ends(b) = {} THEN result("partial", 0)
     ELSE IF start > Len(b) THEN result("partial", 0)
     ELSE IF ~IsFirst(b[start]) THEN result("bad", 0)
     ELSE IF found > limit THEN result("bad", limit)
     ELSE result(IF Ends(b) = {} THEN "partial" ELSE "done", found)

Subject(b) == LET start == IF IsEmpty(b[1]) /\ Len(b) > 1 THEN 2 ELSE 1 IN b[start].req

(***************************************************************************)
(* Answers.  handle_range works on ints, to which st_size - 1 is narrowed; *)
(* file_size and offset are size_t.                                        *)
(***************************************************************************)
Reply(status, content, length) ==
  [status |-> status, content |-> content, length |-> length]
NoReply == Reply(0, FALSE, 0)

\* Fault variant of RangeEnd: the end of the range is taken as exclusive.
RangeEndExclusive(first, last) ==
  IF last = -1 \/ last <= first \/ last > FileSize THEN Narrow(FileSize - 1) ELSE last - 1

RangeEnd(first, last) ==
  LET end == IF last = -1 \/ last <= first THEN Narrow(FileSize - 1) ELSE last
  IN IF end >= FileSize THEN Narrow(FileSize - 1) ELSE end

\* What a length that is no int becomes is up to the build: it may wrap, or be
\* computed in a wider register.
RangeLengths(first, last) ==
  LET length == RangeEnd(first, last) - first + 1 IN {Word(length), Word(Narrow(length))}

\* std::stoi throws at what is no number, or no int.
Throws(r) ==
  /\ r.target = "file"
  /\ \/ r.ask.kind = "nonnumeric"
     \/ r.ask.kind = "range" /\ (r.ask.first > IntMax \/ r.ask.last > IntMax)

\* parse_url, then parse_headers: the request is answered, or an exception ends
\* the worker.
Respond(r) ==
  /\ file_fd' = (r.target = "file")
  /\ open_files' = open_files + IF r.target = "file" THEN 1 ELSE 0
  /\ IF Throws(r)
     THEN stage' = "aborted" /\ UNCHANGED <<reply, offset>>
     ELSE /\ stage' = "header"
          /\ IF r.target = "file" /\ r.ask.kind = "range"
             THEN /\ \E n \in RangeLengths(r.ask.first, r.ask.last) : reply' = Reply(206, TRUE, n)
                  /\ offset' = r.ask.first
             ELSE /\ reply' = IF r.target = "missing" THEN Reply(404, FALSE, 0)
                              ELSE IF r.ask.kind = "whole" THEN Reply(200, TRUE, FileSize)
                              ELSE IF r.ask.kind = "since" THEN Reply(304, FALSE, 0)
                              ELSE Reply(400, FALSE, 0)
                  /\ UNCHANGED offset

(***************************************************************************)
(* http_finish_callback: close the file, accept_logic, wait for a request. *)
(***************************************************************************)
\* Fault variant of CloseFile: the descriptor is forgotten, not closed.
ForgetFile == file_fd' = FALSE /\ UNCHANGED open_files

CloseFile ==
  /\ file_fd' = FALSE
  /\ open_files' = open_files - IF file_fd THEN 1 ELSE 0

\* Fault variant of AcceptLogic: the counter is not reset.
AcceptLogicKeepsBuffer ==
  /\ num_headers' = MaxHeaders /\ reply' = NoReply
  /\ stage' = "reading"
  /\ UNCHANGED buf

\* user_data.offset keeps its value.
AcceptLogic ==
  /\ buf' = <<>> /\ num_headers' = MaxHeaders /\ reply' = NoReply
  /\ stage' = "reading"

Finish == CloseFile /\ AcceptLogic

(***************************************************************************)
(* read_callback_http, on what one read() returns.                         *)
(***************************************************************************)
\* Fault variant of Full: off by one.
FullTooLate(b) == Len(b) > BufSize

Full(b) == Len(b) = BufSize

Read ==
  /\ stage = "reading" /\ wire # <<>>
  /\ LET n == Least(Len(wire), BufSize - Len(buf))
         b == buf \o SubSeq(wire, 1, n)
         p == Parse(b, Len(buf), num_headers)
     IN /\ wire' = SubSeq(wire, n + 1, Len(wire))
        /\ \/ /\ p.code = "done"
              /\ Respond(sent[Subject(b)])
              /\ buf' = b /\ num_headers' = p.headers
           \/ /\ p.code = "bad"
              /\ reply' = Reply(400, FALSE, 0) /\ stage' = "header"
              /\ buf' = b /\ num_headers' = p.headers
              /\ UNCHANGED <<file_fd, open_files, offset>>
           \/ /\ p.code = "partial" /\ ~Full(b)
              /\ buf' = b /\ num_headers' = p.headers
              /\ UNCHANGED <<reply, stage, file_fd, open_files, offset>>
           \/ /\ p.code = "partial" /\ Full(b)
              /\ Finish
              /\ UNCHANGED offset
  /\ UNCHANGED <<sent, held, to_write, already_written, answers>>

(***************************************************************************)
(* The response is written: the header in one piece, then the body by      *)
(* sendfile.  answers[i].first and count are what the client gets of it.   *)
(***************************************************************************)
\* Fault variant of AsyncSendfile: to_write is not moved by the offset.
AsyncSendfileShort ==
  /\ to_write' = reply.length
  /\ already_written' = offset

AsyncSendfile ==
  /\ to_write' = Word(reply.length + offset)
  /\ already_written' = offset

WriteHeader ==
  /\ stage = "header"
  /\ answers' = Append(answers,
       [req |-> Subject(buf), status |-> reply.status, length |-> reply.length,
        first |-> IF reply.content THEN offset ELSE 0, count |-> 0, done |-> ~reply.content])
  /\ IF reply.content
     THEN AsyncSendfile /\ stage' = "body" /\ UNCHANGED <<parsed, file_fd, open_files>>
     ELSE Finish /\ UNCHANGED <<to_write, already_written>>
  /\ UNCHANGED <<input, offset>>

\* The count given to sendfile(); a negative ssize_t is refused with EINVAL.
Count   == Word(to_write - already_written)
Refused == 2 * Count >= WordSize

\* What sendfile() can take of it from the file.
Sendable ==
  IF Refused THEN 0
  ELSE Least(Count, IF already_written < FileSize THEN FileSize - already_written ELSE 0)

SendBody ==
  /\ stage = "body"
  /\ \E n \in 1 .. Sendable :
       LET finished == already_written + n = to_write
       IN /\ already_written' = already_written + n
          /\ answers' = [answers EXCEPT ![Len(answers)].count = @ + n,
                                        ![Len(answers)].done = finished]
          /\ IF finished THEN Finish ELSE UNCHANGED <<parsed, stage, file_fd, open_files>>
  /\ UNCHANGED <<input, offset, to_write>>

\* sendfile() returns 0: assert(0).
SendNothing ==
  /\ stage = "body" /\ Sendable = 0 /\ ~Refused
  /\ stage' = "aborted"
  /\ UNCHANGED <<input, parsed, body, file_fd, open_files, answers>>

\* The worker ends: setsockopt(TCP_CORK) fails, or it serves another connection
\* and that ends it.
WorkerExits ==
  /\ stage \notin {"closed", "aborted"}
  /\ stage' = "aborted"
  /\ UNCHANGED <<input, parsed, body, file_fd, open_files, answers>>

\* http_cleanup, whatever closed the connection: the client, an error (a
\* sendfile() that is Refused among them), the connection timer.
Cleanup ==
  /\ stage \notin {"closed", "aborted"}
  /\ stage' = "closed"
  /\ CloseFile
  /\ UNCHANGED <<input, parsed, body, answers>>

Init ==
  /\ sent = <<>> /\ held = <<>> /\ wire = <<>>
  /\ buf = <<>> /\ num_headers = MaxHeaders /\ reply = NoReply
  /\ stage = "reading"
  /\ file_fd = FALSE /\ open_files = 0
  /\ offset = 0 /\ to_write = 0 /\ already_written = 0
  /\ answers = <<>>

Next ==
  \/ \E r \in Requests : Ask(r)
  \/ SendMore \/ Read \/ WriteHeader \/ SendBody \/ SendNothing \/ WorkerExits \/ Cleanup

Spec == Init /\ [][Next]_vars

(***************************************************************************)
(* Properties.                                                             *)
(***************************************************************************)
\* A file descriptor is open exactly while user_data refers to it, and none is
\* while the connection waits for a request or is closed (parse_url,
\* http_finish_callback, http_cleanup).
FilesClosed ==
  /\ stage # "aborted" => open_files = IF file_fd THEN 1 ELSE 0
  /\ stage \in {"reading", "closed"} => ~file_fd

\* read() is never asked for zero bytes, whose result 0 would pass for the end
\* of the stream (the MAX_BUFFER_SIZE test of read_callback_http).
ReadsSomething == stage = "reading" => Len(buf) < BufSize

\* A response that is complete had the length its header announced, wherever
\* in the file it started (yta_async_sendfile, write_handle_sendfile).
LengthHonoured ==
  \A i \in DOMAIN answers : answers[i].done => answers[i].count = answers[i].length

\* Responses come in the order of the requests, and no request is answered
\* twice, in however many pieces it came, unless what the buffer's reset left
\* of it in the socket is refused (read_callback_http, accept_logic).
AnswersInOrder ==
  \A i, j \in DOMAIN answers : i < j =>
    /\ answers[i].req <= answers[j].req
    /\ answers[i].req = answers[j].req => answers[j].status = 400

\* When the connection is idle, with nothing to read or to write, every
\* request has its response.
NoRequestForgotten ==
  stage = "reading" /\ wire = <<>> /\ held = <<>> => Len(answers) = Len(sent)

\* Only a malformed request is answered 400 (MAX_HEADERS headers are allowed).
WellFormedServed ==
  \A i \in DOMAIN answers : answers[i].status = 400 =>
    LET r == sent[answers[i].req]
    IN r.ask.kind = "malformed" \/ r.headers > MaxHeaders

\* sendfile() never transfers zero bytes: the assertion holds.
AssertionHolds == stage = "body" => Sendable > 0 \/ Refused

\* The length a partial response announces is that of the bytes it is asked for
\* that the file has (handle_range, serve_206).
RangeLengthRight ==
  \A i \in DOMAIN answers : answers[i].status = 206 =>
    LET ask == sent[answers[i].req].ask
        end == IF ask.last \in ask.first + 1 .. FileSize - 1 THEN ask.last ELSE FileSize - 1
    IN answers[i].length = end - ask.first + 1

\* What the client has received in full.
Received ==
  [i \in {j \in DOMAIN answers : answers[j].done} |->
     [status |-> answers[i].status, first |-> answers[i].first, count |-> answers[i].count]]

\* The connection implements HttpService.
Service == INSTANCE HttpService WITH
             asked <- sent, answered <- Received, up <- stage \notin {"closed", "aborted"}

\* Requests are answered one by one and in order, each with the right answer.
ImplementsService == Service!ServiceSpec

(***************************************************************************)
(* Clients to which the properties above are owed.                         *)
(***************************************************************************)
IsRange(r) == r.target = "file" /\ r.ask.kind = "range"
IsWhole(r) == r.target = "file" /\ r.ask.kind = "whole"

\* Waits for each response and sends each request in one piece; the requests
\* fit the buffer and the headers, and their ranges are of two bytes or more.
\* The file has no more bytes than an int counts.
PatientClient ==
  /\ FileSize <= IntMax
  /\ ~Splits /\ ~Pipelining
  /\ \A r \in Requests : r.headers <= MaxHeaders /\ r.headers + 2 <= BufSize
  /\ \A r \in Requests : IsRange(r) => r.ask.last = -1 \/ r.ask.first < r.ask.last

\* Asks for nothing beyond the end of the file, nor for the whole file after a
\* range of it.
CarefulClient ==
  /\ PatientClient /\ FileSize > 0
  /\ \A r \in Requests : IsRange(r) => r.ask.first < FileSize
  /\ \A s \in Sessions : \A i, j \in DOMAIN s : i < j /\ IsRange(s[i]) => ~IsWhole(s[j])
==============================================================================
