------------------------------ MODULE CleanPath ------------------------------
(***************************************************************************)
(* yta::http::clean_path (http/yta_http.cpp): the path of a URL without    *)
(* empty, "." and ".." components, written to output in one pass over the  *)
(* path; one step is one iteration of its loop.  The result is compared    *)
(* with a definition on whole components.                                  *)
(***************************************************************************)
EXTENDS Integers, Sequences, SequencesExt

CONSTANTS
  Letters,       \* characters other than "/" and "."
  MaxLength      \* bound on the length of a path

ASSUME PathAssumption ==
  /\ MaxLength \in Nat
  /\ {"/", "."} \cap Letters = {}

VARIABLES path, r, output, dotdot, done

vars == <<path, r, output, dotdot, done>>

Chars  == Letters \cup {"/", "."}
length == Len(path)
Size   == Len(output)
rooted == length > 0 /\ path[1] = "/"

\* path[i] of the source, which counts from 0, is c; and a component of n
\* characters from there would be complete.
At(i, c)  == i < length /\ path[i + 1] = c
EndsAt(i) == i = length \/ At(i, "/")

IsDot    == At(r, ".") /\ EndsAt(r + 1)
IsDotDot == At(r, ".") /\ At(r + 1, ".") /\ EndsAt(r + 2)

Skip ==
  /\ ~done /\ (At(r, "/") \/ IsDot)
  /\ r' = r + 1
  /\ UNCHANGED <<path, output, dotdot, done>>

\* Fault variant of MayBackUp: off by one.
MayBackUpToo == Size >= dotdot /\ Size > 0

MayBackUp == Size > dotdot

\* Backing up stops at the "/" before the last component, or at dotdot.
BackUp ==
  LET stops == {l \in 0 .. Size - 1 : l <= dotdot \/ output[l + 1] = "/"}
  IN output' = SubSeq(output, 1, CHOOSE l \in stops : \A k \in stops : k <= l)

\* Fault variant of KeepsDotDot: ".." above the root is kept.
AlwaysKeeps == TRUE

KeepsDotDot == ~rooted

DotDot ==
  /\ ~done /\ IsDotDot
  /\ r' = r + 2
  /\ \/ MayBackUp /\ BackUp /\ UNCHANGED dotdot
     \/ /\ ~MayBackUp /\ KeepsDotDot
        /\ output' = output \o (IF Size > 0 THEN <<"/">> ELSE <<>>) \o <<".", ".">>
        /\ dotdot' = Len(output')
     \/ ~MayBackUp /\ ~KeepsDotDot /\ UNCHANGED <<output, dotdot>>
  /\ UNCHANGED <<path, done>>

\* Fault variant of NeedsSlash: the "/" of a rooted path is not counted.
NeedsSlashAtRoot == Size # 0

NeedsSlash == Size # IF rooted THEN 1 ELSE 0

Component ==
  /\ ~done /\ r < length
  /\ ~(At(r, "/") \/ IsDot \/ IsDotDot)
  /\ LET end == CHOOSE e \in r + 1 .. length :
                  EndsAt(e) /\ \A k \in r + 1 .. e - 1 : ~EndsAt(k)
     IN /\ r' = end
        /\ output' = output \o (IF NeedsSlash THEN <<"/">> ELSE <<>>) \o SubSeq(path, r + 1, end)
  /\ UNCHANGED <<path, dotdot, done>>

Finish ==
  /\ ~done /\ r >= length
  /\ output' = IF Size = 0 THEN <<".">> ELSE output
  /\ done' = TRUE
  /\ UNCHANGED <<path, r, dotdot>>

Init ==
  /\ path \in UNION {[1 .. n -> Chars] : n \in 0 .. MaxLength}
  /\ r = (IF rooted THEN 1 ELSE 0)
  /\ dotdot = r
  /\ output = (IF rooted THEN <<"/">> ELSE <<>>)
  /\ done = FALSE

Next == Skip \/ DotDot \/ Component \/ Finish

Spec == Init /\ [][Next]_vars

(***************************************************************************)
(* Reference: the components of the path, each ".." taking away the name   *)
(* before it, joined again.                                                *)
(***************************************************************************)
Bounds(p) ==
  {b \in (1 .. Len(p)) \X (1 .. Len(p)) :
     /\ b[1] <= b[2] /\ \A k \in b[1] .. b[2] : p[k] # "/"
     /\ b[1] = 1 \/ p[b[1] - 1] = "/"
     /\ b[2] = Len(p) \/ p[b[2] + 1] = "/"}

Up == <<".", ".">>

Resolve(names, name) ==
  IF name = <<".">> THEN names
  ELSE IF name # Up THEN Append(names, name)
  ELSE IF names # <<>> /\ Last(names) # Up THEN Front(names)
  ELSE IF rooted THEN names ELSE Append(names, Up)

\* A component is taken up where it ends.
TakeUp(names, i) ==
  IF \E b \in Bounds(path) : b[2] = i
  THEN Resolve(names, SubSeq(path, (CHOOSE b \in Bounds(path) : b[2] = i)[1], i))
  ELSE names

Names == FoldLeftDomain(TakeUp, <<>>, path)

Join(names) ==
  FoldLeft(LAMBDA text, name : text \o (IF text = <<>> THEN <<>> ELSE <<"/">>) \o name,
           <<>>, names)

Reference ==
  LET text == Join(Names)
  IN IF rooted THEN <<"/">> \o text
     ELSE IF text = <<>> THEN <<".">> ELSE text

(***************************************************************************)
(* Properties.                                                             *)
(***************************************************************************)
\* The pass ends with the path its components resolve to.
Correct == done => output = Reference

\* The path written so far never has more characters than were read: the
\* fixed buffer parse_url passes, as long as the longest URL and what it
\* appends, suffices ("." for an empty path excepted).
OutputFits == Size <= r \/ (done /\ length = 0)

\* A rooted path stays below the root: it begins with "/" and keeps no "..".
InsideRoot ==
  rooted => output[1] = "/" /\ \A b \in Bounds(output) : SubSeq(output, b[1], b[2]) # Up
==============================================================================
