------------------------------ MODULE HttpService ------------------------------
(***************************************************************************)
(* What one keep-alive connection to yotta promises: the requests asked on *)
(* it are answered one by one, in order, each with the answer HTTP gives   *)
(* for a file of FileSize bytes.  The connection may end at any point.     *)
(***************************************************************************)
EXTENDS Integers, Sequences

CONSTANTS Requests, FileSize

VARIABLES asked, answered, up

serviceVars == <<asked, answered, up>>

Answer(status, first, count) == [status |-> status, first |-> first, count |-> count]
NoBody(status) == Answer(status, 0, 0)

\* The last byte of a range, when the request leaves it open or asks for more
\* than there is.
LastByte(ask) == IF ask.last = -1 \/ ask.last >= FileSize THEN FileSize - 1 ELSE ask.last

RightAnswer(r) ==
  IF r.target = "missing" THEN NoBody(404)
  ELSE CASE r.ask.kind = "whole" -> Answer(200, 0, FileSize)
         [] r.ask.kind = "since" -> NoBody(304)
         [] r.ask.kind = "range" -> Answer(206, r.ask.first, LastByte(r.ask) - r.ask.first + 1)
         [] OTHER                -> NoBody(400)

ServiceInit == asked = <<>> /\ answered = <<>> /\ up = TRUE

Ask(r) ==
  /\ up /\ asked' = Append(asked, r)
  /\ UNCHANGED <<answered, up>>

GiveAnswer ==
  /\ up /\ Len(answered) < Len(asked)
  /\ answered' = Append(answered, RightAnswer(asked[Len(answered) + 1]))
  /\ UNCHANGED <<asked, up>>

End == up /\ up' = FALSE /\ UNCHANGED <<asked, answered>>

ServiceNext == GiveAnswer \/ End \/ \E r \in Requests : Ask(r)

ServiceSpec == ServiceInit /\ [][ServiceNext]_serviceVars
==============================================================================
