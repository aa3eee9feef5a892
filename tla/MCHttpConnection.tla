--------------------------- MODULE MCHttpConnection ---------------------------
(***************************************************************************)
(* Instances of HttpConnection for TLC: the requests clients make and the  *)
(* order they make them in.                                                *)
(***************************************************************************)
EXTENDS HttpConnection

Asks(kinds) == [kind : kinds, first : {0}, last : {-1}]
Ranges(firsts, lasts) == [kind : {"range"}, first : firsts, last : lasts]
Request(headers, target, ask) == [headers |-> headers, target |-> target, ask |-> ask]
All == [kind |-> "whole", first |-> 0, last |-> -1]

Whole  == Request(1, "file", All)
Middle == Request(1, "file", [kind |-> "range", first |-> 1, last |-> 2])

\* Requests whose response has no body, and everything but ranges.
Bodiless ==
  {Request(1, "missing", All)} \cup
  {Request(1, t, a) : t \in {"file", "missing"}, a \in Asks({"since", "malformed"})}
Plain == Bodiless \cup {Whole, Request(0, "file", All), Request(2, "file", All)}

\* Ranges from the file's first byte to beyond its end, of two bytes or more.
LongRanges ==
  {Request(1, "file", a) : a \in {b \in Ranges(0 .. FileSize - 1, -1 .. FileSize + 1) :
                                    b.last = -1 \/ b.first < b.last}}

\* Any request, from one without headers to one that overflows the buffer; of
\* ranges, those that end in the file and those that begin at its end or beyond.
Any ==
  {Request(0, "file", All), Request(2, "missing", All), Request(3, "file", All)}
    \cup {Request(1, "file", a) : a \in Asks({"since", "malformed", "nonnumeric"})
                                          \cup Ranges({1, FileSize, FileSize + 2}, {-1, 2})}

\* A client that waits for each response: three plain requests; one and then
\* ranges; ranges and then something without a body.
PatientRequests == Plain \cup LongRanges
PatientSessions ==
  [1 .. 3 -> Plain] \cup {<<p, g, h>> : p \in Plain, g \in LongRanges, h \in {Middle} \cup Bodiless}

\* A client that waits for nothing and sends in pieces; the third request
\* needs all of the buffer or little of it.
AnyRequests == Any
AnySessions ==
  {<<p, q, n>> : p \in Any, q \in Any, n \in {Request(0, "file", All), Request(3, "file", All)}}

\* A range without an end, of a file that may have more bytes than an int counts.
OpenRange == {Request(1, "file", [kind |-> "range", first |-> 2, last |-> -1])}
OpenRangeSessions == [1 .. 1 -> OpenRange]

WholeRequests == {Whole, Request(2, "file", All)}
WholeSessions == [1 .. 1 -> WholeRequests]

RangeThenWhole == {Middle, Whole}
RangeThenWholeSessions == {<<Middle, Whole>>}

\* The clients that wait are those the theorems of PatientClientProofs are about.
ASSUME ClientAssumption ==
  /\ ~Splits /\ ~Pipelining /\ FileSize <= IntMax => PatientClient
  /\ Sessions = PatientSessions => CarefulClient
==============================================================================
