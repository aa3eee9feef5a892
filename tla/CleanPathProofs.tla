--------------------------- MODULE CleanPathProofs ---------------------------
(***************************************************************************)
(* Theorems about CleanPath for every path, of any length and over any     *)
(* alphabet: the buffer suffices, no rooted path leaves the root, and what *)
(* is written is what the components of the path resolve to.               *)
(*                                                                         *)
(* Between two components the pass is one character ahead of what it has   *)
(* written: that is the room for the "/" it puts before a component.       *)
(* And what it has written there is the text of the names that the part    *)
(* read resolves to; dotdot is where the text of their leading ".." ends.  *)
(***************************************************************************)
EXTENDS CleanPath, SequenceLemmas

Root == IF rooted THEN 1 ELSE 0

Typed ==
  /\ path \in Seq(Chars) /\ r \in Nat /\ r <= length
  /\ output \in Seq(Chars) /\ dotdot \in Nat /\ dotdot <= Size
  /\ done \in BOOLEAN

\* There is room for one more character where a component may begin.
Room ==
  /\ OutputFits
  /\ ~done => Size <= r /\ (Size < r \/ Size = Root \/ EndsAt(r))

\* No component of p is "..", seen from where it begins.
NoUp(p) ==
  \A k \in 1 .. Len(p) - 1 :
    ~ /\ p[k] = "." /\ p[k + 1] = "."
      /\ k = 1 \/ p[k - 1] = "/"
      /\ k + 1 = Len(p) \/ p[k + 2] = "/"

Inside == rooted => dotdot = 1 /\ Size >= 1 /\ output[1] = "/" /\ NoUp(output)

PathInv == Typed /\ Room /\ Inside

-----------------------------------------------------------------------------
(* No "..": how the output grows and shrinks. *)

LEMMA NoUpOne == \A p : Len(p) = 1 => NoUp(p)
BY DEF NoUp

\* The output is cut in front of a "/".
LEMMA NoUpCut ==
  ASSUME NEW p \in Seq(Chars), NoUp(p), NEW l \in 1 .. Len(p) - 1, p[l + 1] = "/"
  PROVE  NoUp(SubSeq(p, 1, l))
<1> DEFINE q == SubSeq(p, 1, l)
<1>1. Len(p) \in Nat /\ l \in Nat /\ l + 1 <= Len(p)
  BY LenProperties
<1>2. Len(q) = l /\ \A i \in 1 .. l : q[i] = p[i]
  <2>1. /\ l - 1 + 1 = l /\ 1 <= l
        /\ \A i \in 1 .. l : i \in 1 .. Len(p) /\ 1 + i - 1 = i
    BY <1>1
  <2> QED
    BY <2>1, ElementOfSeq, SubSeqProperties
<1> HIDE DEF q
<1>3. SUFFICES ASSUME NEW k \in 1 .. l - 1, q[k] = ".", q[k + 1] = ".",
                      k = 1 \/ q[k - 1] = "/", k + 1 = l \/ q[k + 2] = "/"
               PROVE  FALSE
  BY <1>2 DEF NoUp, q
<1>4. /\ k \in 1 .. Len(p) - 1 /\ k \in 1 .. l /\ k + 1 \in 1 .. l
      /\ (k = 1 \/ k - 1 \in 1 .. l) /\ (k + 1 = l \/ k + 2 \in 1 .. l)
      /\ (k + 1 = l => k + 2 = l + 1)
  BY <1>1
<1>5. p[k] = "." /\ p[k + 1] = "." /\ (k = 1 \/ p[k - 1] = "/")
  BY <1>2, <1>3, <1>4
<1>6. p[k + 2] = "/"
  BY <1>2, <1>3, <1>4
<1> QED
  BY <1>4, <1>5, <1>6 DEF NoUp

\* A "/" is put at the end of the output.
LEMMA NoUpSlash ==
  ASSUME NEW p \in Seq(Chars), NoUp(p)
  PROVE  NoUp(p \o <<"/">>)
<1> DEFINE q == p \o <<"/">>
           n == Len(p)
<1>1. n \in Nat
  BY LenProperties
<1>2. Len(q) = n + 1 /\ q[n + 1] = "/" /\ \A i \in 1 .. n : q[i] = p[i]
  <2>1. <<"/">> \in Seq(Chars) /\ Len(<<"/">>) = 1 /\ <<"/">>[1] = "/"
    BY DEF Chars
  <2> HIDE DEF n
  <2>2. n + 1 \in 1 .. n + 1 /\ ~(n + 1 <= n) /\ n + 1 - n = 1
        /\ \A i \in 1 .. n : i \in 1 .. n + 1 /\ i <= n
    BY <1>1
  <2>3. Len(q) = n + 1
    BY <2>1, ConcatProperties DEF n
  <2>4. \A i \in 1 .. n + 1 : q[i] = IF i <= n THEN p[i] ELSE <<"/">>[i - n]
    BY <2>1, ConcatProperties DEF n
  <2> QED
    BY <2>1, <2>2, <2>3, <2>4
<1> HIDE DEF q, n
<1>3. SUFFICES ASSUME NEW k \in 1 .. n, q[k] = ".", q[k + 1] = ".",
                      k = 1 \/ q[k - 1] = "/", k + 1 = n + 1 \/ q[k + 2] = "/"
               PROVE  FALSE
  <2>1. Len(q) - 1 = n
    BY <1>1, <1>2
  <2> QED
    BY <1>2, <2>1 DEF NoUp, q
<1>4. k # n
  BY <1>2, <1>3
<1>5. /\ k \in 1 .. n - 1 /\ k + 1 \in 1 .. n /\ k + 1 # n + 1
      /\ (k = 1 \/ k - 1 \in 1 .. n) /\ (k + 1 = n \/ k + 2 \in 1 .. n)
  BY <1>1, <1>4
<1>6. p[k] = "." /\ p[k + 1] = "." /\ (k = 1 \/ p[k - 1] = "/")
  BY <1>2, <1>3, <1>5
<1>7. k + 1 = n \/ p[k + 2] = "/"
  BY <1>2, <1>3, <1>5
<1> QED
  BY <1>5, <1>6, <1>7 DEF NoUp, n

IsName(name) ==
  /\ \A i \in 1 .. Len(name) : name[i] # "/"
  /\ ~(Len(name) = 2 /\ name[1] = "." /\ name[2] = ".")

\* A name other than ".." is put behind a "/".
LEMMA NoUpName ==
  ASSUME NEW p \in Seq(Chars), NoUp(p), p[Len(p)] = "/",
         NEW name \in Seq(Chars), IsName(name)
  PROVE  NoUp(p \o name)
<1> DEFINE q == p \o name
           n == Len(p)
           m == Len(name)
<1>1. n \in Nat /\ m \in Nat
  BY LenProperties
<1> HIDE DEF n, m
<1>2. Len(q) = n + m
  BY ConcatProperties DEF n, m
<1>3. \A i \in 1 .. n + m : q[i] = IF i <= n THEN p[i] ELSE name[i - n]
  BY ConcatProperties DEF n, m
<1> HIDE DEF q
<1>4. \A i \in 1 .. n : q[i] = p[i]
  <2>1. \A i \in 1 .. n : i \in 1 .. n + m /\ i <= n
    BY <1>1
  <2> QED
    BY <1>3, <2>1
<1>5. \A i \in n + 1 .. n + m : q[i] = name[i - n] /\ q[i] # "/"
  <2>1. \A i \in n + 1 .. n + m : i \in 1 .. n + m /\ ~(i <= n) /\ i - n \in 1 .. m
    BY <1>1
  <2> QED
    BY <1>3, <2>1 DEF IsName, m
<1>6. SUFFICES ASSUME NEW k \in 1 .. n + m - 1, q[k] = ".", q[k + 1] = ".",
                      k = 1 \/ q[k - 1] = "/", k + 1 = n + m \/ q[k + 2] = "/"
               PROVE  FALSE
  <2>1. NoUp(q) <=> \A k \in 1 .. Len(q) - 1 :
                      ~ /\ q[k] = "." /\ q[k + 1] = "." /\ (k = 1 \/ q[k - 1] = "/")
                        /\ (k + 1 = Len(q) \/ q[k + 2] = "/")
    BY DEF NoUp
  <2>2. Len(q) - 1 = n + m - 1
    BY <1>1, <1>2
  <2> QED
    BY <1>2, <2>1, <2>2, Zenon DEF q
<1>7. CASE k < n
  <2>1. k \in 1 .. n - 1 /\ k \in 1 .. n /\ k + 1 \in 1 .. n
        /\ (k = 1 \/ k - 1 \in 1 .. n)
    BY <1>1, <1>7
  <2>2. k + 1 # n
    BY <1>4, <1>6, <2>1 DEF n
  <2>3. k + 1 # n + m /\ k + 2 \in 1 .. n
    BY <1>1, <1>7, <2>2
  <2>4. p[k] = "." /\ p[k + 1] = "." /\ (k = 1 \/ p[k - 1] = "/") /\ p[k + 2] = "/"
    BY <1>4, <1>6, <2>1, <2>3
  <2> QED
    BY <2>1, <2>4 DEF NoUp, n
<1>8. CASE k = n
  <2>1. k \in 1 .. n
    BY <1>8
  <2> QED
    BY <1>4, <1>6, <1>8, <2>1 DEF n
<1>9. CASE k > n
  <2>1. k - 1 = n \/ k - 1 \in n + 1 .. n + m
    BY <1>1, <1>9
  <2>2. k = 1 => k - 1 = n
    BY <1>1, <1>9
  <2>3. k - 1 = n
    BY <1>5, <1>6, <2>1, <2>2
  <2>4. k \in n + 1 .. n + m /\ k + 1 \in n + 1 .. n + m /\ k - n = 1 /\ k + 1 - n = 2
    BY <1>1, <1>9, <2>3
  <2>5. name[1] = "." /\ name[2] = "."
    <3> DEFINE j == k + 1
    <3>1. k \in n + 1 .. n + m /\ j \in n + 1 .. n + m /\ k - n = 1 /\ j - n = 2
      BY <1>1, <1>9, <2>3
    <3> HIDE DEF j
    <3>2. q[k] = name[1]
      BY <1>5, <3>1
    <3>3. q[j] = name[2]
      BY <1>5, <3>1
    <3> QED
      BY <1>6, <3>2, <3>3 DEF j
  <2>6. k + 1 = n + m \/ k + 2 \in n + 1 .. n + m
    BY <1>1, <1>9
  <2>7. k + 1 = n + m
    BY <1>5, <1>6, <2>6
  <2>8. m = 2
    BY <1>1, <2>3, <2>7
  <2> QED
    BY <2>5, <2>8 DEF IsName, m
<1> QED
  BY <1>1, <1>7, <1>8, <1>9

-----------------------------------------------------------------------------
(* Where a name ends, and where backing up stops. *)

LEMMA NameEnds ==
  ASSUME Typed, r < length
  PROVE  LET end == CHOOSE e \in r + 1 .. length : EndsAt(e) /\ \A k \in r + 1 .. e - 1 : ~EndsAt(k)
         IN end \in r + 1 .. length /\ EndsAt(end) /\ \A k \in r + 1 .. end - 1 : ~EndsAt(k)
<1> DEFINE T == {e \in r + 1 .. length : EndsAt(e)}
<1>1. r \in Nat /\ length \in Nat /\ length \in r + 1 .. length
  BY LenProperties DEF Typed, length
<1>2. EndsAt(length)
  BY DEF EndsAt
<1>3. T \subseteq Nat /\ T # {}
  <2>1. \A e \in r + 1 .. length : e \in Nat
    BY <1>1
  <2> QED
    BY <1>1, <1>2, <2>1
<1>4. PICK m \in T : \A k \in T : m <= k
  <2> HIDE DEF T
  <2> QED
    BY <1>3, LeastExists
<1>5. \A k \in r + 1 .. m - 1 : ~EndsAt(k)
  <2> SUFFICES ASSUME NEW k \in r + 1 .. m - 1, EndsAt(k) PROVE FALSE
    OBVIOUS
  <2>1. m \in r + 1 .. length
    OBVIOUS
  <2>2. k \in r + 1 .. length /\ ~(m <= k)
    BY <1>1, <2>1
  <2> QED
    BY <1>4, <2>2
<1>6. \E e \in r + 1 .. length : EndsAt(e) /\ \A k \in r + 1 .. e - 1 : ~EndsAt(k)
  BY <1>5
<1> QED
  BY <1>6

\* What is read from here to where a component ends holds no "/"; it is "."
\* or ".." only where the pass finds it so.
LEMMA NameRead ==
  ASSUME Typed, r < length, ~At(r, "/"), NEW end \in r + 1 .. length, EndsAt(end),
         \A k \in r + 1 .. end - 1 : ~EndsAt(k)
  PROVE  LET name == SubSeq(path, r + 1, end)
         IN  /\ name \in Seq(Chars) /\ Len(name) = end - r
             /\ \A i \in 1 .. end - r : name[i] = path[r + i]
             /\ \A i \in 1 .. Len(name) : name[i] # "/"
             /\ name = <<".">> => IsDot
             /\ Len(name) = 2 /\ name[1] = "." /\ name[2] = "." => IsDotDot
<1> DEFINE name == SubSeq(path, r + 1, end)
<1>1. path \in Seq(Chars) /\ length = Len(path) /\ length \in Nat /\ r \in Nat
  BY LenProperties DEF Typed, length
<1>2. end \in Nat /\ r < end /\ end <= length
  BY <1>1
<1>3. /\ name \in Seq(Chars) /\ Len(name) = end - r
      /\ \A i \in 1 .. end - r : name[i] = path[r + i]
  <2>1. /\ r + 1 \in Int /\ end \in Int /\ r + 1 <= end /\ end - (r + 1) + 1 = end - r
        /\ \A i \in r + 1 .. end : i \in 1 .. length
        /\ \A i \in 1 .. end - r : (r + 1) + i - 1 = r + i
    BY <1>1, <1>2
  <2>2. \A i \in r + 1 .. end : path[i] \in Chars
    BY <1>1, <2>1, ElementOfSeq
  <2>3. name \in Seq(Chars) /\ Len(name) = end - r
    BY <2>1, <2>2, SubSeqProperties
  <2>4. \A i \in 1 .. end - (r + 1) + 1 : name[i] = path[(r + 1) + i - 1]
    BY <2>1, <2>2, SubSeqProperties
  <2> QED
    BY <2>1, <2>3, <2>4
<1> HIDE DEF name
<1>4. ASSUME NEW i \in 1 .. Len(name) PROVE name[i] # "/"
  <2>1. CASE i = 1
    <3>1. name[1] = path[r + 1]
      BY <1>3, <1>4, <2>1
    <3> QED
      BY <2>1, <3>1 DEF At
  <2>2. CASE i # 1
    <3> DEFINE k == r + i - 1
    <3>1. k \in r + 1 .. end - 1 /\ k + 1 = r + i /\ k < length /\ i \in 1 .. end - r
      BY <1>1, <1>2, <1>3, <2>2
    <3> HIDE DEF k
    <3>2. ~EndsAt(k)
      BY <3>1
    <3>3. path[k + 1] # "/"
      BY <3>1, <3>2 DEF EndsAt, At
    <3>4. name[i] = path[k + 1]
      BY <1>3, <3>1
    <3> QED
      BY <3>3, <3>4
  <2> QED
    BY <2>1, <2>2
<1>5. ASSUME name = <<".">> PROVE IsDot
  <2>1. Len(name) = 1 /\ name[1] = "."
    BY <1>5
  <2>2. end = r + 1 /\ 1 \in 1 .. end - r
    <3>1. end - r = 1
      BY <1>3, <2>1
    <3> QED
      BY <1>1, <1>2, <3>1
  <2>3. path[r + 1] = "."
    BY <1>3, <2>1, <2>2
  <2> QED
    BY <2>2, <2>3 DEF IsDot, At
<1>6. ASSUME Len(name) = 2, name[1] = ".", name[2] = "." PROVE IsDotDot
  <2>1. /\ end = r + 2 /\ 1 \in 1 .. end - r /\ 2 \in 1 .. end - r
        /\ r < length /\ r + 1 < length /\ (r + 1) + 1 = r + 2
    <3>1. end - r = 2
      BY <1>3, <1>6
    <3> QED
      BY <1>1, <1>2, <3>1
  <2>2. path[r + 1] = "." /\ path[r + 2] = "."
    BY <1>3, <1>6, <2>1
  <2>3. At(r, ".") /\ At(r + 1, ".")
    BY <2>1, <2>2 DEF At
  <2> QED
    BY <2>1, <2>3 DEF IsDotDot
<1> QED
  BY <1>3, <1>4, <1>5, <1>6 DEF name

LEMMA BackUpStops ==
  ASSUME Typed, MayBackUp, BackUp
  PROVE  \E l \in Nat : /\ l < Size /\ dotdot <= l /\ (l <= dotdot \/ output[l + 1] = "/")
                       /\ output' = SubSeq(output, 1, l)
<1> DEFINE T == {l \in 0 .. Size - 1 : l <= dotdot \/ output[l + 1] = "/"}
           m == CHOOSE l \in T : \A k \in T : k <= l
<1>1. Size \in Nat /\ dotdot \in Nat /\ dotdot < Size
  BY LenProperties DEF Typed, Size, MayBackUp
<1>2. Size - 1 \in Nat /\ dotdot \in 0 .. Size - 1 /\ dotdot <= dotdot
  BY <1>1
<1>3. T \subseteq 0 .. Size - 1 /\ T # {} /\ dotdot \in T
  BY <1>2
<1>4. \E l \in T : \A k \in T : k <= l
  <2> HIDE DEF T
  <2> QED
    BY <1>2, <1>3, GreatestExists
<1>5. m \in T /\ \A k \in T : k <= m
  <2> HIDE DEF T
  <2> QED
    BY <1>4
<1>6. output' = SubSeq(output, 1, m)
  BY DEF BackUp
<1> HIDE DEF m
<1>7. m \in 0 .. Size - 1 /\ dotdot <= m /\ (m <= dotdot \/ output[m + 1] = "/")
  BY <1>3, <1>5
<1>8. m \in Nat /\ m < Size
  BY <1>1, <1>7
<1> QED
  BY <1>6, <1>7, <1>8

-----------------------------------------------------------------------------
(* The steps. *)

LEMMA InitPath == Init => PathInv
<1> SUFFICES ASSUME Init PROVE PathInv
  OBVIOUS
<1>1. path \in Seq(Chars)
  <2>1. PICK n \in 0 .. MaxLength : path \in [1 .. n -> Chars]
    BY DEF Init
  <2>2. n \in Nat
    BY PathAssumption DEF PathAssumption
  <2>3. \A S : path \in [1 .. n -> S] => path \in Seq(S)
    BY <2>2, SeqDef, Zenon
  <2> QED
    BY <2>1, <2>3
<1>2. length \in Nat
  BY <1>1, LenProperties DEF length
<1>3. <<>> \in Seq(Chars) /\ Len(<<>>) = 0 /\ <<"/">> \in Seq(Chars) /\ Len(<<"/">>) = 1
      /\ <<"/">>[1] = "/"
  BY EmptySeq DEF Chars
<1>4. CASE rooted
  <2>1. r = 1 /\ dotdot = 1 /\ output = <<"/">> /\ done = FALSE /\ length > 0
    BY <1>4 DEF Init, rooted
  <2>2. Size = 1 /\ Size = Root
    BY <1>3, <1>4, <2>1 DEF Root, Size
  <2>3. Typed
    <3>1. r \in Nat /\ r <= length /\ dotdot \in Nat /\ dotdot <= Size
      BY <1>2, <2>1, <2>2
    <3>2. output \in Seq(Chars) /\ done \in BOOLEAN
      BY <1>3, <2>1
    <3> QED
      BY <1>1, <3>1, <3>2 DEF Typed
  <2>4. NoUp(output)
    BY <1>3, <2>1, NoUpOne
  <2> QED
    BY <1>3, <2>1, <2>2, <2>3, <2>4 DEF PathInv, Room, OutputFits, Inside
<1>5. CASE ~rooted
  <2>1. r = 0 /\ dotdot = 0 /\ output = <<>> /\ done = FALSE
    BY <1>5 DEF Init
  <2>2. Size = 0 /\ Size = Root
    BY <1>3, <1>5, <2>1 DEF Root, Size
  <2>3. Typed
    <3>1. r \in Nat /\ r <= length /\ dotdot \in Nat /\ dotdot <= Size
      BY <1>2, <2>1, <2>2
    <3>2. output \in Seq(Chars) /\ done \in BOOLEAN
      BY <1>3, <2>1
    <3> QED
      BY <1>1, <3>1, <3>2 DEF Typed
  <2> QED
    BY <1>5, <2>1, <2>2, <2>3 DEF PathInv, Room, OutputFits, Inside
<1> QED
  BY <1>4, <1>5

\* The path is not written to.
LEMMA SamePath ==
  ASSUME path' = path
  PROVE  /\ length' = length /\ rooted' = rooted /\ Root' = Root
         /\ \A i, c : At(i, c)' = At(i, c)
BY DEF length, rooted, Root, At

LEMMA AtInPath ==
  ASSUME Typed
  PROVE  length \in Nat /\ \A c : At(r, c) => r + 1 <= length
BY LenProperties DEF Typed, At, length

LEMMA SkipStep ==
  ASSUME PathInv, Skip
  PROVE  PathInv'
<1>1. /\ path' = path /\ r' = r + 1 /\ output' = output /\ dotdot' = dotdot
      /\ done' = done /\ ~done
  BY DEF Skip
<1>2. length' = length /\ rooted' = rooted /\ Size' = Size
  BY <1>1, SamePath DEF Size
<1>3. r + 1 <= length
  BY AtInPath DEF PathInv, Skip, IsDot
<1>4. r \in Nat /\ Size \in Nat /\ Size <= r
  BY <1>1, LenProperties DEF PathInv, Typed, Room, Size
<1>5. Typed'
  BY <1>1, <1>2, <1>3 DEF PathInv, Typed
<1>6. Room'
  <2>1. Size' <= r' /\ Size' < r'
    BY <1>1, <1>2, <1>4
  <2> QED
    BY <2>1 DEF Room, OutputFits
<1>7. Inside'
  BY <1>1, <1>2 DEF PathInv, Inside, NoUp
<1> QED
  BY <1>5, <1>6, <1>7 DEF PathInv

LEMMA FinishStep ==
  ASSUME PathInv, Finish
  PROVE  PathInv'
<1>1. /\ path' = path /\ r' = r /\ dotdot' = dotdot /\ done' = TRUE /\ ~done /\ r >= length
      /\ output' = IF Size = 0 THEN <<".">> ELSE output
  BY DEF Finish
<1>2. length' = length /\ rooted' = rooted
  BY <1>1, SamePath
<1>3. r \in Nat /\ Size \in Nat /\ length \in Nat /\ dotdot \in Nat /\ dotdot <= Size /\ r <= length
  BY LenProperties DEF PathInv, Typed, Size, length
<1>4. CASE Size = 0
  <2>1. <<".">> \in Seq(Chars) /\ Len(<<".">>) = 1
    BY DEF Chars
  <2>2. output' = <<".">> /\ Size' = 1
    BY <1>1, <1>4, <2>1 DEF Size
  <2>3. ~rooted
    BY <1>4 DEF PathInv, Inside
  <2>4. Typed'
    BY <1>1, <1>2, <1>3, <1>4, <2>1, <2>2 DEF PathInv, Typed
  <2>5. Size' <= r' \/ length = 0
    BY <1>1, <1>3, <2>2
  <2>6. Room' /\ Inside'
    BY <1>1, <1>2, <2>3, <2>5 DEF Room, OutputFits, Inside
  <2> QED
    BY <2>4, <2>6 DEF PathInv
<1>5. CASE Size # 0
  <2>1. output' = output /\ Size' = Size
    BY <1>1, <1>5 DEF Size
  <2>2. Typed'
    BY <1>1, <1>2, <2>1 DEF PathInv, Typed
  <2>3. Room'
    BY <1>1, <2>1 DEF PathInv, Room, OutputFits
  <2>4. Inside'
    BY <1>1, <1>2, <2>1 DEF PathInv, Inside, NoUp
  <2> QED
    BY <2>2, <2>3, <2>4 DEF PathInv
<1> QED
  BY <1>4, <1>5

\* The output as it is when a name is added to it.
Base == output \o (IF NeedsSlash THEN <<"/">> ELSE <<>>)

LEMMA BaseFits ==
  ASSUME PathInv, ~done, r < length, ~At(r, "/")
  PROVE  /\ Base \in Seq(Chars) /\ Len(Base) \in Nat /\ Size <= Len(Base) /\ Len(Base) <= r
         /\ rooted => /\ Base[Len(Base)] = "/" /\ NoUp(Base)
                      /\ Len(Base) >= 1 /\ Base[1] = "/"
<1>1. /\ output \in Seq(Chars) /\ Size \in Nat /\ r \in Nat /\ length \in Nat /\ Size <= r
      /\ Size = Len(output)
  BY LenProperties DEF PathInv, Typed, Room, Size, length
<1>2. rooted => Size >= 1 /\ output[1] = "/" /\ NoUp(output)
  BY DEF PathInv, Inside
<1>3. CASE NeedsSlash
  <2>1. Base = output \o <<"/">>
    BY <1>3 DEF Base
  <2>2. <<"/">> \in Seq(Chars) /\ Len(<<"/">>) = 1 /\ <<"/">>[1] = "/"
    BY DEF Chars
  <2>3. /\ Base \in Seq(Chars) /\ Len(Base) = Size + 1
        /\ \A i \in 1 .. Size + 1 : Base[i] = IF i <= Size THEN output[i] ELSE <<"/">>[i - Size]
    BY <1>1, <2>1, <2>2, ConcatProperties
  <2>4. Size < r
    <3>1. ~EndsAt(r)
      BY <1>1 DEF EndsAt
    <3>2. Size # Root
      BY <1>3 DEF NeedsSlash, Root
    <3> QED
      BY <3>1, <3>2 DEF PathInv, Room
  <2>5. Size + 1 \in 1 .. Size + 1 /\ ~(Size + 1 <= Size) /\ Size + 1 - Size = 1
        /\ Size + 1 \in Nat /\ Size <= Size + 1 /\ Size + 1 <= r
        /\ 1 \in 1 .. Size + 1 /\ Size + 1 >= 1
    BY <1>1, <2>4
  <2>6. Base[Size + 1] = "/"
    <3> DEFINE j == Size + 1
    <3>1. j \in 1 .. Size + 1 /\ ~(j <= Size) /\ j - Size = 1
      <4>1. Size \in Nat
        BY <1>1
      <4> QED
        BY <4>1
    <3> HIDE DEF j
    <3>2. Base[j] = <<"/">>[j - Size]
      BY <2>3, <3>1
    <3> QED
      BY <2>2, <3>1, <3>2 DEF j
  <2>7. rooted => Base[1] = "/" /\ NoUp(Base)
    BY <1>1, <1>2, <2>1, <2>3, <2>5, NoUpSlash
  <2> QED
    BY <2>3, <2>5, <2>6, <2>7
<1>4. CASE ~NeedsSlash
  <2>1. Base = output
    BY <1>1, <1>4, ConcatEmptySeq DEF Base
  <2>2. rooted => Size = 1
    BY <1>4 DEF NeedsSlash
  <2> QED
    BY <1>1, <1>2, <2>1, <2>2
<1> QED
  BY <1>3, <1>4

LEMMA ComponentStep ==
  ASSUME PathInv, Component
  PROVE  PathInv'
<1> DEFINE end == CHOOSE e \in r + 1 .. length : EndsAt(e) /\ \A k \in r + 1 .. e - 1 : ~EndsAt(k)
           name == SubSeq(path, r + 1, end)
<1>1. /\ ~done /\ r < length /\ ~At(r, "/") /\ ~IsDotDot
      /\ path' = path /\ dotdot' = dotdot /\ done' = done
      /\ r' = end /\ output' = Base \o name
  BY DEF Component, Base
<1>2. end \in r + 1 .. length /\ EndsAt(end) /\ \A k \in r + 1 .. end - 1 : ~EndsAt(k)
  BY <1>1, NameEnds DEF PathInv
<1> HIDE DEF end
<1>3. /\ path \in Seq(Chars) /\ length = Len(path) /\ length \in Nat /\ r \in Nat
      /\ dotdot \in Nat /\ dotdot <= Size /\ Size \in Nat
  BY LenProperties DEF PathInv, Typed, length, Size
<1>4. end \in Nat /\ r < end /\ end <= length
  BY <1>2, <1>3
<1>5. /\ name \in Seq(Chars) /\ Len(name) = end - r
      /\ \A i \in 1 .. Len(name) : name[i] # "/"
      /\ Len(name) = 2 /\ name[1] = "." /\ name[2] = "." => IsDotDot
  BY <1>1, <1>2, NameRead DEF PathInv
<1> HIDE DEF name
<1>6. IsName(name)
  BY <1>1, <1>5 DEF IsName
<1>7. /\ Base \in Seq(Chars) /\ Len(Base) \in Nat /\ Size <= Len(Base) /\ Len(Base) <= r
      /\ rooted => /\ Base[Len(Base)] = "/" /\ NoUp(Base)
                   /\ Len(Base) >= 1 /\ Base[1] = "/"
  BY <1>1, BaseFits
<1>8. length' = length /\ rooted' = rooted /\ EndsAt(r)'
  BY <1>1, <1>2, SamePath DEF EndsAt, At
<1>9. output' \in Seq(Chars) /\ Size' = Len(Base) + (end - r)
  BY <1>1, <1>5, <1>7, ConcatProperties DEF Size
<1>10. Typed'
  <2>1. r' \in Nat /\ r' <= length' /\ dotdot' \in Nat /\ dotdot' <= Size'
    BY <1>1, <1>3, <1>4, <1>7, <1>8, <1>9
  <2> QED
    BY <1>1, <1>3, <1>9, <2>1 DEF PathInv, Typed
<1>11. Room'
  <2>1. Size' <= r'
    BY <1>1, <1>3, <1>4, <1>7, <1>9
  <2> QED
    BY <1>8, <2>1 DEF Room, OutputFits
<1>12. Inside'
  <2> SUFFICES ASSUME rooted
               PROVE  dotdot = 1 /\ Size' >= 1 /\ output'[1] = "/" /\ NoUp(output')
    BY <1>1, <1>8 DEF Inside, NoUp
  <2>1. dotdot = 1 /\ Size' >= 1
    BY <1>3, <1>4, <1>7, <1>9 DEF PathInv, Inside
  <2>2. output'[1] = "/"
    <3>1. 1 \in 1 .. Len(Base) + Len(name) /\ 1 <= Len(Base)
      BY <1>3, <1>4, <1>5, <1>7
    <3>2. (Base \o name)[1] = Base[1]
      BY <1>5, <1>7, <3>1, ConcatProperties
    <3> QED
      BY <1>1, <1>7, <3>2
  <2>3. NoUp(output')
    BY <1>1, <1>5, <1>6, <1>7, NoUpName
  <2> QED
    BY <2>1, <2>2, <2>3
<1> QED
  BY <1>10, <1>11, <1>12 DEF PathInv

LEMMA DotDotStep ==
  ASSUME PathInv, DotDot
  PROVE  PathInv'
<1>1. /\ ~done /\ At(r, ".") /\ At(r + 1, ".") /\ EndsAt(r + 2) /\ r' = r + 2
      /\ path' = path /\ done' = done
  BY DEF DotDot, IsDotDot
<1>2. /\ Size \in Nat /\ Size = Len(output) /\ output \in Seq(Chars)
      /\ r \in Nat /\ length \in Nat /\ Size <= r /\ dotdot \in Nat
  BY <1>1, LenProperties DEF PathInv, Typed, Room, Size, length
<1>3. r < length /\ r + 2 <= length
  BY <1>1, <1>2 DEF At
<1>4. ~At(r, "/")
  BY <1>1 DEF At
<1>5. length' = length /\ rooted' = rooted /\ EndsAt(r)'
  BY <1>1, SamePath DEF EndsAt, At
<1>6. r' \in Nat /\ r' <= length'
  BY <1>1, <1>2, <1>3, <1>5
<1>7. ASSUME output' \in Seq(Chars), dotdot' \in Nat, dotdot' <= Size', Size' <= r',
             rooted => dotdot' = 1 /\ Size' >= 1 /\ output'[1] = "/" /\ NoUp(output')
      PROVE  PathInv'
  <2>1. Typed'
    BY <1>1, <1>6, <1>7 DEF PathInv, Typed
  <2>2. Room'
    BY <1>5, <1>7 DEF Room, OutputFits
  <2>3. Inside'
    BY <1>5, <1>7 DEF Inside, NoUp
  <2> QED
    BY <2>1, <2>2, <2>3 DEF PathInv
<1>8. CASE MayBackUp /\ BackUp /\ UNCHANGED dotdot
  <2>1. PICK l \in Nat : /\ l < Size /\ dotdot <= l /\ (l <= dotdot \/ output[l + 1] = "/")
                         /\ output' = SubSeq(output, 1, l)
    BY <1>8, BackUpStops DEF PathInv
  <2>2. /\ output' \in Seq(Chars) /\ Size' = l
        /\ \A i \in 1 .. l : output'[i] = output[i]
    <3>1. /\ l - 1 + 1 = l /\ (~(1 <= l) => l = 0)
          /\ \A i \in 1 .. l : i \in 1 .. Size /\ 1 + i - 1 = i
      BY <1>2, <2>1
    <3>2. \A i \in 1 .. l : output[i] \in Chars
      BY <1>2, <3>1, ElementOfSeq
    <3>3. output' \in Seq(Chars) /\ Len(output') = IF 1 <= l THEN l - 1 + 1 ELSE 0
      BY <2>1, <3>2, SubSeqProperties
    <3>4. \A i \in 1 .. l - 1 + 1 : output'[i] = output[1 + i - 1]
      BY <2>1, <3>2, SubSeqProperties
    <3> QED
      BY <3>1, <3>3, <3>4 DEF Size
  <2>3. dotdot' \in Nat /\ dotdot' <= Size' /\ Size' <= r'
    BY <1>1, <1>2, <1>8, <2>1, <2>2
  <2>4. ASSUME rooted
        PROVE  dotdot' = 1 /\ Size' >= 1 /\ output'[1] = "/" /\ NoUp(output')
    <3>1. dotdot = 1 /\ output[1] = "/" /\ NoUp(output)
      BY <2>4 DEF PathInv, Inside
    <3>2. dotdot' = 1 /\ Size' >= 1 /\ 1 \in 1 .. l
      BY <1>8, <2>1, <2>2, <3>1
    <3>3. output'[1] = "/"
      BY <2>2, <3>1, <3>2
    <3>4. CASE l = 1
      <4>1. Len(output') = 1
        BY <2>2, <3>4 DEF Size
      <4> QED
        BY <3>2, <3>3, <4>1, NoUpOne
    <3>5. CASE l # 1
      <4>1. l \in 1 .. Len(output) - 1 /\ ~(l <= dotdot)
        BY <1>2, <2>1, <3>1, <3>2, <3>5
      <4>2. NoUp(SubSeq(output, 1, l))
        BY <1>2, <2>1, <3>1, <4>1, NoUpCut
      <4> QED
        BY <2>1, <3>2, <3>3, <4>2
    <3> QED
      BY <3>4, <3>5
  <2> QED
    BY <1>7, <2>2, <2>3, <2>4
<1>9. CASE /\ ~rooted /\ dotdot' = Len(output')
           /\ output' = output \o (IF Size > 0 THEN <<"/">> ELSE <<>>) \o <<".", ".">>
  <2>1. NeedsSlash <=> Size > 0
    BY <1>2, <1>9 DEF NeedsSlash
  <2>2. output' = Base \o <<".", ".">>
    BY <1>9, <2>1 DEF Base
  <2>3. Base \in Seq(Chars) /\ Len(Base) \in Nat /\ Len(Base) <= r
    BY <1>1, <1>3, <1>4, BaseFits
  <2>4. <<".", ".">> \in Seq(Chars) /\ Len(<<".", ".">>) = 2
    BY DEF Chars
  <2>5. output' \in Seq(Chars) /\ Size' = Len(Base) + 2
    BY <2>2, <2>3, <2>4, ConcatProperties DEF Size
  <2>6. dotdot' \in Nat /\ dotdot' <= Size' /\ Size' <= r'
    BY <1>1, <1>2, <1>9, <2>3, <2>5 DEF Size
  <2> QED
    BY <1>7, <1>9, <2>5, <2>6
<1>10. CASE UNCHANGED <<output, dotdot>>
  <2>1. /\ output' = output /\ dotdot' = dotdot /\ Size' = Size
        /\ dotdot <= Size /\ Size' <= r'
    BY <1>1, <1>2, <1>10 DEF PathInv, Typed, Size
  <2>2. rooted => dotdot = 1 /\ Size >= 1 /\ output[1] = "/" /\ NoUp(output)
    BY DEF PathInv, Inside
  <2> QED
    BY <1>2, <1>7, <2>1, <2>2
<1> QED
  BY <1>8, <1>9, <1>10 DEF DotDot, KeepsDotDot

LEMMA PathInductive == PathInv /\ [Next]_vars => PathInv'
<1> SUFFICES ASSUME PathInv, [Next]_vars PROVE PathInv'
  OBVIOUS
<1>1. CASE UNCHANGED vars
  <2>1. /\ path' = path /\ r' = r /\ output' = output /\ dotdot' = dotdot /\ done' = done
    BY <1>1 DEF vars
  <2>2. length' = length /\ rooted' = rooted /\ Size' = Size /\ Root' = Root /\ EndsAt(r)' = EndsAt(r)
    BY <2>1, SamePath DEF Size, EndsAt, At
  <2>3. Typed' /\ Room'
    BY <2>1, <2>2 DEF PathInv, Typed, Room, OutputFits
  <2>4. Inside'
    BY <2>1, <2>2 DEF PathInv, Inside, NoUp
  <2> QED
    BY <2>3, <2>4 DEF PathInv
<1> QED
  BY <1>1, SkipStep, DotDotStep, ComponentStep, FinishStep DEF Next

LEMMA PathInvAlways == Spec => []PathInv
  BY InitPath, PathInductive, PTL DEF Spec

-----------------------------------------------------------------------------
(* The names of a path, and the text they are joined to. *)

\* What a component can be, and the names kept of those read.
NameSet == {name \in Seq(Chars) : name # <<>> /\ \A i \in 1 .. Len(name) : name[i] # "/"}
Stacks == Seq(NameSet)

Sep(text) == IF text = <<>> THEN <<>> ELSE <<"/">>

\* f[k] is the text of the first k names.
JoinsTo(f, names) ==
  /\ f[0] = <<>>
  /\ \A k \in 0 .. Len(names) : f[k] \in Seq(Chars)
  /\ \A k \in 1 .. Len(names) : f[k] = f[k - 1] \o Sep(f[k - 1]) \o names[k]
  /\ Join(names) = f[Len(names)]

LEMMA SepText == \A text : Sep(text) \in Seq(Chars)
<1>1. <<>> \in Seq(Chars) /\ <<"/">> \in Seq(Chars)
  BY EmptySeq DEF Chars
<1> QED
  BY <1>1 DEF Sep

LEMMA StackTexts ==
  ASSUME NEW names \in Stacks
  PROVE  /\ Len(names) \in Nat /\ DOMAIN names = 1 .. Len(names)
         /\ \A k \in 1 .. Len(names) : names[k] \in NameSet /\ names[k] \in Seq(Chars)
BY LenProperties, ElementOfSeq DEF Stacks, NameSet

\* Join adds one name after the other.
LEMMA JoinRows ==
  ASSUME NEW names \in Stacks
  PROVE  \E f : JoinsTo(f, names)
<1> DEFINE n == Len(names)
           D == SUBSET (1 .. n)
           V == Seq(Chars)
           step == [p \in V \X (1 .. n) |-> p[1] \o Sep(p[1]) \o names[p[2]]]
           table(g) == [I \in D |-> IF I = {} THEN <<>>
                                    ELSE g[I \ {Max(I)}] \o Sep(g[I \ {Max(I)}]) \o names[Max(I)]]
           G == CHOOSE g : g = table(g)
<1>1. n \in Nat /\ DOMAIN names = 1 .. n /\ \A k \in 1 .. n : names[k] \in V
  BY StackTexts
<1>2. Join(names) = G[1 .. n]
  BY <1>1 DEF Join, FoldLeft, MapThenFoldSet, Sep
<1>3. \A v \in V, i \in 1 .. n : v \o Sep(v) \o names[i] \in V
  BY <1>1, SepText, ConcatProperties
<1>4. \A v \in V, i \in 1 .. n : step[<<v, i>>] \in V /\ step[<<v, i>>] = v \o Sep(v) \o names[i]
  BY <1>3
<1>5. PICK g \in [D -> V] :
        g = [I \in D |-> IF I = {} THEN <<>> ELSE step[<<g[I \ {Max(I)}], Max(I)>>]]
  <2>1. <<>> \in V /\ IsStep(step, n, V)
    BY <1>4, EmptySeq DEF IsStep
  <2>2. PICK g : IsTable(g, n, V, <<>>, step)
    <3> HIDE DEF V, step, n
    <3> QED
      BY <1>1, <2>1, FoldTable
  <2> HIDE DEF V, step, n
  <2> QED
    BY <2>2 DEF D, IsTable
<1>6. g = table(g)
  <2>1. \A I \in D : I # {} => I \ {Max(I)} \in D /\ Max(I) \in 1 .. n
    BY <1>1, MaxProperties
  <2>2. \A I \in D : I # {} => g[I \ {Max(I)}] \in V
    BY <2>1
  <2> HIDE DEF V, step, n, D
  <2>3. \A I \in D : (IF I = {} THEN <<>> ELSE step[<<g[I \ {Max(I)}], Max(I)>>])
                   = (IF I = {} THEN <<>>
                                    ELSE g[I \ {Max(I)}] \o Sep(g[I \ {Max(I)}]) \o names[Max(I)])
    BY <1>4, <2>1, <2>2
  <2>4. table(g) = [I \in D |-> IF I = {} THEN <<>> ELSE step[<<g[I \ {Max(I)}], Max(I)>>]]
    BY <2>3
  <2> QED
    BY <1>5, <2>4
<1>7. G = table(G)
  <2> HIDE DEF table
  <2> QED
    BY <1>6
<1> HIDE DEF G
<1>8. \A I \in D : G[I] = IF I = {} THEN <<>>
                          ELSE G[I \ {Max(I)}] \o Sep(G[I \ {Max(I)}]) \o names[Max(I)]
  BY <1>7
<1> DEFINE f == [k \in 0 .. n |-> G[1 .. k]]
<1>9. f[0] = <<>>
  <2>1. 1 .. 0 = {} /\ {} \in D /\ 0 \in 0 .. n
    BY <1>1
  <2> HIDE DEF D
  <2> QED
    BY <1>8, <2>1
<1>10. \A k \in 1 .. n : f[k] = f[k - 1] \o Sep(f[k - 1]) \o names[k]
  <2> SUFFICES ASSUME NEW k \in 1 .. n PROVE f[k] = f[k - 1] \o Sep(f[k - 1]) \o names[k]
    OBVIOUS
  <2>1. 1 .. k \in D /\ 1 .. k # {} /\ k \in 0 .. n /\ k - 1 \in 0 .. n /\ k \in Nat /\ k # 0
    BY <1>1
  <2>2. Max(1 .. k) = k /\ (1 .. k) \ {k} = 1 .. k - 1
    BY <2>1, MaxOfFirst
  <2> HIDE DEF D, n
  <2> QED
    BY <1>8, <2>1, <2>2
<1>11. \A k \in 0 .. n : f[k] \in V
  <2> DEFINE T == {k \in Nat : k <= n => f[k] \in V}
  <2>1. 0 \in T
    <3>1. <<>> \in V
      BY EmptySeq
    <3> HIDE DEF V, f
    <3> QED
      BY <1>9, <3>1
  <2>2. \A k \in Nat : k \in T => k + 1 \in T
    <3> SUFFICES ASSUME NEW k \in Nat, k \in T, k + 1 <= n PROVE f[k + 1] \in V
      OBVIOUS
    <3>1. f[k] \in V /\ k + 1 \in 1 .. n /\ (k + 1) - 1 = k
      BY <1>1
    <3> HIDE DEF V, f, n, T
    <3> QED
      BY <1>3, <1>10, <3>1
  <2>3. \A k \in Nat : k \in T
    <3> HIDE DEF T
    <3> QED
      BY <2>1, <2>2, Induct
  <2>4. \A k \in 0 .. n : k \in Nat /\ k <= n
    BY <1>1
  <2> HIDE DEF f, n, V
  <2> QED
    BY <2>3, <2>4
<1>12. Join(names) = f[n]
  BY <1>1, <1>2
<1> HIDE DEF f
<1> QED
  BY <1>9, <1>10, <1>11, <1>12 DEF JoinsTo

LEMMA JoinEmpty == Join(<<>>) = <<>>
<1>1. <<>> \in Stacks /\ Len(<<>>) = 0
  BY EmptySeq DEF Stacks
<1>2. PICK f : JoinsTo(f, <<>>)
  BY <1>1, JoinRows
<1> QED
  BY <1>1, <1>2 DEF JoinsTo

LEMMA JoinAppend ==
  ASSUME NEW names \in Stacks, NEW name \in NameSet
  PROVE  /\ Join(names) \in Seq(Chars)
         /\ Join(Append(names, name)) = Join(names) \o Sep(Join(names)) \o name
<1> DEFINE more == Append(names, name)
           n == Len(names)
<1>1. /\ more \in Stacks /\ n \in Nat /\ Len(more) = n + 1 /\ more[n + 1] = name
      /\ \A k \in 1 .. n : more[k] = names[k]
  BY AppendProperties, LenProperties DEF Stacks
<1>2. PICK f : JoinsTo(f, names)
  BY JoinRows
<1>3. PICK g : JoinsTo(g, more)
  BY <1>1, JoinRows
<1> HIDE DEF more
<1>4. /\ f[0] = <<>> /\ g[0] = <<>> /\ Join(names) = f[n] /\ Join(more) = g[n + 1]
      /\ \A k \in 1 .. n : f[k] = f[k - 1] \o Sep(f[k - 1]) \o names[k]
      /\ \A k \in 1 .. n + 1 : g[k] = g[k - 1] \o Sep(g[k - 1]) \o more[k]
      /\ f[n] \in Seq(Chars)
  <2>1. n \in 0 .. n
    BY <1>1
  <2> QED
    BY <1>1, <1>2, <1>3, <2>1 DEF JoinsTo
<1> HIDE DEF n
<1> DEFINE T == {k \in Nat : k <= n => f[k] = g[k]}
<1>5. 0 \in T
  BY <1>4
<1>6. \A k \in Nat : k \in T => k + 1 \in T
  <2> SUFFICES ASSUME NEW k \in Nat, k \in T, k + 1 <= n PROVE f[k + 1] = g[k + 1]
    OBVIOUS
  <2>1. k + 1 \in 1 .. n /\ k + 1 \in 1 .. n + 1 /\ (k + 1) - 1 = k /\ f[k] = g[k]
    BY <1>1
  <2> HIDE DEF T
  <2>2. f[k + 1] = f[k] \o Sep(f[k]) \o names[k + 1]
    BY <1>4, <2>1
  <2>3. g[k + 1] = g[k] \o Sep(g[k]) \o more[k + 1]
    BY <1>4, <2>1
  <2> QED
    BY <1>1, <2>1, <2>2, <2>3
<1>7. \A k \in Nat : k \in T
  <2> HIDE DEF T
  <2> QED
    BY <1>5, <1>6, Induct
<1>8. f[n] = g[n]
  BY <1>1, <1>7
<1>9. g[n + 1] = g[n] \o Sep(g[n]) \o more[n + 1]
  <2>1. n + 1 \in 1 .. n + 1 /\ (n + 1) - 1 = n
    BY <1>1
  <2> QED
    BY <1>4, <2>1
<1> QED
  BY <1>1, <1>4, <1>8, <1>9 DEF more

LEMMA JoinText ==
  ASSUME NEW names \in Stacks
  PROVE  Join(names) \in Seq(Chars)
<1>1. PICK f : JoinsTo(f, names)
  BY JoinRows
<1>2. Len(names) \in 0 .. Len(names)
  BY StackTexts
<1> QED
  BY <1>1, <1>2 DEF JoinsTo

\* The text of a stack with one name more: longer, and the name at its end.
LEMMA JoinGrows ==
  ASSUME NEW names \in Stacks, NEW name \in NameSet
  PROVE  LET base == Join(names) \o Sep(Join(names))
             more == Join(Append(names, name))
         IN  /\ base \in Seq(Chars) /\ more \in Seq(Chars) /\ more = base \o name
             /\ Len(Join(names)) <= Len(base) /\ Len(base) < Len(more)
             /\ more # <<>>
<1> DEFINE text == Join(names)
           base == text \o Sep(text)
           more == Join(Append(names, name))
<1>1. text \in Seq(Chars) /\ Sep(text) \in Seq(Chars) /\ name \in Seq(Chars) /\ name # <<>>
  BY JoinText, SepText DEF NameSet
<1>2. base \in Seq(Chars) /\ Len(base) = Len(text) + Len(Sep(text)) /\ more = base \o name
  BY <1>1, ConcatProperties, JoinAppend
<1> HIDE DEF base, text, more
<1>3. more \in Seq(Chars) /\ Len(more) = Len(base) + Len(name)
  BY <1>1, <1>2, ConcatProperties
<1>4. Len(name) \in Nat \ {0} /\ Len(text) \in Nat /\ Len(Sep(text)) \in Nat
  BY <1>1, EmptySeq, LenProperties
<1>5. more # <<>>
  BY <1>2, <1>3, <1>4, EmptySeq
<1> QED
  BY <1>2, <1>3, <1>4, <1>5 DEF base, text, more

\* A stack is that of its first names, and the last.
LEMMA FrontLast ==
  ASSUME NEW names \in Stacks, names # <<>>
  PROVE  /\ Front(names) \in Stacks /\ Last(names) \in NameSet
         /\ names = Append(Front(names), Last(names))
         /\ Len(names) \in Nat \ {0} /\ Len(Front(names)) = Len(names) - 1
         /\ \A k \in 1 .. Len(names) - 1 : Front(names)[k] = names[k]
<1> DEFINE n == Len(names)
<1>1. n \in Nat \ {0} /\ \A k \in 1 .. n : names[k] \in NameSet
  BY StackTexts, EmptySeq DEF Stacks
<1>2. Front(names) = SubSeq(names, 1, n - 1) /\ Last(names) = names[n] /\ n \in 1 .. n
      /\ \A k \in 1 .. n - 1 : k \in 1 .. n
  BY <1>1 DEF Front, Last
<1>3. /\ Front(names) \in Stacks /\ Len(Front(names)) = n - 1
      /\ \A k \in 1 .. n - 1 : Front(names)[k] = names[k]
  <2>0. \A k \in 1 .. (n - 1) : names[k] \in NameSet
    <3> HIDE DEF n
    <3> QED
      BY <1>1, <1>2
  <2>1. /\ \A k \in 1 .. (n - 1) : names[k] \in NameSet
        /\ 1 \in Int /\ n - 1 \in Int /\ (n - 1) - 1 + 1 = n - 1 /\ (~(1 <= n - 1) => n - 1 = 0)
        /\ \A k \in 1 .. n - 1 : 1 + k - 1 = k
    <3> HIDE DEF n
    <3> QED
      BY <1>1, <2>0
  <2> HIDE DEF n
  <2>2. SubSeq(names, 1, n - 1) \in Seq(NameSet)
        /\ Len(SubSeq(names, 1, n - 1)) = IF 1 <= n - 1 THEN (n - 1) - 1 + 1 ELSE 0
    BY <2>1, SubSeqProperties
  <2>3. \A k \in 1 .. (n - 1) - 1 + 1 : SubSeq(names, 1, n - 1)[k] = names[1 + k - 1]
    BY <2>1, SubSeqProperties
  <2> QED
    BY <1>2, <2>1, <2>2, <2>3 DEF Stacks
<1>4. Last(names) \in NameSet
  BY <1>1, <1>2
<1> DEFINE m == Append(Front(names), Last(names))
<1>5. m \in Seq(NameSet) /\ Len(m) = n /\ \A k \in 1 .. n : m[k] = names[k]
  <2>1. /\ m \in Seq(NameSet) /\ Len(m) = (n - 1) + 1 /\ m[(n - 1) + 1] = Last(names)
        /\ \A k \in 1 .. n - 1 : m[k] = Front(names)[k]
    BY <1>3, <1>4, AppendProperties DEF Stacks
  <2>2. (n - 1) + 1 = n /\ \A k \in 1 .. n : k = n \/ k \in 1 .. n - 1
    BY <1>1
  <2> HIDE DEF n, m
  <2> QED
    BY <1>2, <1>3, <2>1, <2>2
<1>6. m = names
  <2> HIDE DEF m
  <2> QED
    BY <1>5, SeqEqual DEF Stacks
<1> QED
  BY <1>1, <1>3, <1>4, <1>6

LEMMA JoinNone ==
  ASSUME NEW names \in Stacks
  PROVE  Join(names) = <<>> <=> names = <<>>
BY FrontLast, JoinGrows, JoinEmpty

-----------------------------------------------------------------------------
(* The components of the path, position by position. *)

\* Nothing is taken up in a component or at a "/".
LEMMA TakeUpNone ==
  ASSUME NEW i \in 1 .. length, path[i] = "/" \/ ~EndsAt(i), length \in Nat, NEW names
  PROVE  TakeUp(names, i) = names
<1>1. ASSUME NEW b \in Bounds(path), b[2] = i PROVE FALSE
  <2>1. /\ b[1] \in 1 .. length /\ b[2] \in 1 .. length /\ b[1] <= b[2]
        /\ \A k \in b[1] .. b[2] : path[k] # "/"
        /\ b[2] = length \/ path[b[2] + 1] = "/"
    BY DEF Bounds, length
  <2>2. b[2] \in b[1] .. b[2]
    BY <2>1
  <2>3. path[i] # "/"
    BY <1>1, <2>1, <2>2
  <2>4. i = length \/ (i < length /\ path[i + 1] = "/")
    BY <1>1, <2>1
  <2> QED
    BY <2>3, <2>4 DEF EndsAt, At
<1> QED
  BY <1>1 DEF TakeUp

\* A component is taken up at its end.
LEMMA TakeUpEnd ==
  ASSUME NEW i \in 0 .. length, i = 0 \/ path[i] = "/", NEW e \in i + 1 .. length, EndsAt(e),
         \A k \in i + 1 .. e : path[k] # "/", length \in Nat, NEW names
  PROVE  TakeUp(names, e) = Resolve(names, SubSeq(path, i + 1, e))
<1> DEFINE b == <<i + 1, e>>
<1>1. i \in Nat /\ e \in Nat /\ i + 1 \in 1 .. length /\ e \in 1 .. length /\ i + 1 <= e
      /\ (i + 1) - 1 = i
  OBVIOUS
<1>2. b \in Bounds(path) /\ b[2] = e /\ b[1] = i + 1
  <2>1. e = length \/ path[e + 1] = "/"
    BY DEF EndsAt, At
  <2>2. i + 1 = 1 \/ path[(i + 1) - 1] = "/"
    BY <1>1
  <2> QED
    BY <1>1, <2>1, <2>2 DEF Bounds, length
<1>3. ASSUME NEW c \in Bounds(path), c[2] = e PROVE c[1] = i + 1
  <2>1. /\ c[1] \in 1 .. length /\ c[1] <= e
        /\ \A k \in c[1] .. e : path[k] # "/"
        /\ c[1] = 1 \/ path[c[1] - 1] = "/"
    BY <1>3 DEF Bounds, length
  <2>2. ~(c[1] < i + 1)
    <3> SUFFICES ASSUME c[1] < i + 1 PROVE FALSE
      OBVIOUS
    <3>1. i \in c[1] .. e /\ i # 0
      BY <1>1, <2>1
    <3> QED
      BY <2>1, <3>1
  <2>3. ~(c[1] > i + 1)
    <3> SUFFICES ASSUME c[1] > i + 1 PROVE FALSE
      OBVIOUS
    <3>1. c[1] - 1 \in i + 1 .. e /\ c[1] # 1
      BY <1>1, <2>1
    <3> QED
      BY <2>1, <3>1
  <2> QED
    BY <1>1, <2>1, <2>2, <2>3
<1> DEFINE d == CHOOSE c \in Bounds(path) : c[2] = e
<1>4. d \in Bounds(path) /\ d[2] = e
  <2> HIDE DEF b
  <2> QED
    BY <1>2
<1>5. d[1] = i + 1
  <2> HIDE DEF d
  <2> QED
    BY <1>3, <1>4
<1> HIDE DEF d, b
<1> QED
  BY <1>2, <1>5 DEF TakeUp, d

LEMMA ResolveStack ==
  ASSUME NEW names \in Stacks, NEW name \in NameSet
  PROVE  Resolve(names, name) \in Stacks
<1>1. CASE name = <<".">>
  BY <1>1 DEF Resolve
<1>2. CASE name # <<".">> /\ name # Up
  BY <1>2, AppendProperties DEF Resolve, Stacks
<1>3. CASE name = Up
  <2>1. name # <<".">>
    <3>1. Len(Up) = 2 /\ Len(<<".">>) = 1
      BY DEF Up
    <3> QED
      BY <1>3, <3>1
  <2>2. names # <<>> => Front(names) \in Stacks
    BY FrontLast
  <2>3. Append(names, Up) \in Stacks
    BY <1>3, AppendProperties DEF Stacks
  <2> QED
    BY <1>3, <2>1, <2>2, <2>3 DEF Resolve
<1> QED
  BY <1>1, <1>2, <1>3

LEMMA TakeUpStack ==
  ASSUME path \in Seq(Chars), NEW names \in Stacks, NEW i \in 1 .. length
  PROVE  TakeUp(names, i) \in Stacks
<1>1. ASSUME NEW b \in Bounds(path), b[2] = i PROVE SubSeq(path, b[1], i) \in NameSet
  <2>1. /\ b[1] \in 1 .. length /\ i \in 1 .. length /\ b[1] <= i
        /\ \A k \in b[1] .. i : path[k] # "/"
    BY <1>1 DEF Bounds, length
  <2> DEFINE l == b[1]
             q == SubSeq(path, l, i)
  <2>2. l \in 1 .. length /\ l <= i /\ \A k \in l .. i : path[k] # "/"
    BY <2>1
  <2> HIDE DEF l
  <2>3. length \in Nat /\ length = Len(path)
    BY LenProperties DEF length
  <2>4. l \in Int /\ i \in Int /\ \A k \in l .. i : path[k] \in Chars
    BY <2>2, <2>3, ElementOfSeq
  <2>5. /\ q \in Seq(Chars) /\ Len(q) = i - l + 1
        /\ \A k \in 1 .. i - l + 1 : q[k] = path[l + k - 1]
    BY <2>2, <2>4, SubSeqProperties
  <2>6. i - l + 1 # 0 /\ \A k \in 1 .. i - l + 1 : l + k - 1 \in l .. i
    BY <2>2, <2>4
  <2> HIDE DEF q
  <2>7. q # <<>>
    BY <2>5, <2>6, EmptySeq
  <2>8. \A k \in 1 .. Len(q) : q[k] # "/"
    BY <2>2, <2>5, <2>6
  <2> QED
    BY <2>5, <2>7, <2>8 DEF NameSet, q, l
<1>2. CASE \E b \in Bounds(path) : b[2] = i
  <2> DEFINE d == CHOOSE b \in Bounds(path) : b[2] = i
  <2>1. d \in Bounds(path) /\ d[2] = i
    BY <1>2
  <2> HIDE DEF d
  <2>2. SubSeq(path, d[1], i) \in NameSet
    BY <1>1, <2>1
  <2>3. TakeUp(names, i) = Resolve(names, SubSeq(path, d[1], i))
    BY <1>2 DEF TakeUp, d
  <2> QED
    BY <2>2, <2>3, ResolveStack
<1>3. CASE ~\E b \in Bounds(path) : b[2] = i
  BY <1>3 DEF TakeUp
<1> QED
  BY <1>2, <1>3

\* f[i] are the names that the first i characters of the path resolve to.
NamesTo(f) ==
  /\ f[0] = <<>>
  /\ \A i \in 0 .. length : f[i] \in Stacks
  /\ \A i \in 1 .. length : f[i] = TakeUp(f[i - 1], i)
  /\ Names = f[length]

\* Names takes up one component after the other.
LEMMA NamesRows ==
  ASSUME path \in Seq(Chars)
  PROVE  \E f : NamesTo(f)
<1> DEFINE n == length
           D == SUBSET (1 .. n)
           V == Stacks
           step == [p \in V \X (1 .. n) |-> TakeUp(p[1], p[2])]
           index == [i \in DOMAIN path |-> i]
           full(g) == [I \in SUBSET DOMAIN index |->
                         IF I = {} THEN <<>> ELSE TakeUp(g[I \ {Max(I)}], index[Max(I)])]
<1>1. n \in Nat /\ DOMAIN path = 1 .. n
  BY LenProperties DEF length
<1>2. Names = (CHOOSE g : g = full(g))[1 .. n]
  <2>1. DOMAIN index = 1 .. n
    BY <1>1
  <2>2. Names = (CHOOSE g : g = full(g))[DOMAIN index]
    BY DEF Names, FoldLeftDomain, FoldLeft, MapThenFoldSet
  <2> QED
    BY <2>1, <2>2
<1>3. \A v \in V, i \in 1 .. n : step[<<v, i>>] \in V /\ step[<<v, i>>] = TakeUp(v, i)
  BY TakeUpStack
<1>4. PICK g \in [D -> V] :
        g = [I \in D |-> IF I = {} THEN <<>> ELSE step[<<g[I \ {Max(I)}], Max(I)>>]]
  <2>1. <<>> \in V /\ IsStep(step, n, V)
    BY <1>3, EmptySeq DEF IsStep, Stacks
  <2>2. PICK g : IsTable(g, n, V, <<>>, step)
    <3> HIDE DEF V, step, n
    <3> QED
      BY <1>1, <2>1, FoldTable
  <2> HIDE DEF V, step, n
  <2> QED
    BY <2>2 DEF D, IsTable
<1>5. \A I \in D : I # {} => I \ {Max(I)} \in D /\ Max(I) \in 1 .. n
  BY <1>1, MaxProperties
<1>6. g = full(g)
  <2>1. \A I \in D : I # {} => g[I \ {Max(I)}] \in V
    BY <1>5
  <2>2. DOMAIN index = 1 .. n /\ \A i \in 1 .. n : index[i] = i
    BY <1>1
  <2> HIDE DEF V, step, n, index
  <2>3. full(g) = [I \in D |-> IF I = {} THEN <<>> ELSE TakeUp(g[I \ {Max(I)}], index[Max(I)])]
    BY <2>2
  <2> HIDE DEF D, full
  <2>4. \A I \in D : (IF I = {} THEN <<>> ELSE step[<<g[I \ {Max(I)}], Max(I)>>])
                   = (IF I = {} THEN <<>> ELSE TakeUp(g[I \ {Max(I)}], index[Max(I)]))
    BY <1>3, <1>5, <2>1, <2>2
  <2> QED
    BY <1>4, <2>3, <2>4
<1> DEFINE H == CHOOSE h : h = full(h)
<1>7. H = full(H)
  <2> HIDE DEF full
  <2> QED
    BY <1>6
<1> HIDE DEF H
<1>8. \A I \in D : H[I] = IF I = {} THEN <<>> ELSE TakeUp(H[I \ {Max(I)}], Max(I))
  <2>1. DOMAIN index = 1 .. n /\ \A i \in 1 .. n : index[i] = i
    BY <1>1
  <2>2. \A I \in D : H[I] = IF I = {} THEN <<>> ELSE TakeUp(H[I \ {Max(I)}], index[Max(I)])
    <3> HIDE DEF index, n
    <3> QED
      BY <1>7, <2>1
  <2> HIDE DEF index, n, D
  <2> QED
    BY <1>5, <2>1, <2>2
<1> DEFINE f == [k \in 0 .. n |-> H[1 .. k]]
<1>9. f[0] = <<>>
  <2>1. 1 .. 0 = {} /\ {} \in D /\ 0 \in 0 .. n
    BY <1>1
  <2> HIDE DEF D
  <2> QED
    BY <1>8, <2>1
<1>10. \A k \in 1 .. n : f[k] = TakeUp(f[k - 1], k)
  <2> SUFFICES ASSUME NEW k \in 1 .. n PROVE f[k] = TakeUp(f[k - 1], k)
    OBVIOUS
  <2>1. 1 .. k \in D /\ 1 .. k # {} /\ k \in 0 .. n /\ k - 1 \in 0 .. n /\ k \in Nat /\ k # 0
    <3>1. n \in Nat
      BY <1>1
    <3> HIDE DEF n
    <3>2. k \in Nat /\ k # 0 /\ k \in 0 .. n /\ k - 1 \in 0 .. n /\ k \in 1 .. k
      BY <3>1
    <3>3. \A i \in 1 .. k : i \in 1 .. n
      BY <3>1
    <3> QED
      BY <3>2, <3>3
  <2>2. Max(1 .. k) = k /\ (1 .. k) \ {k} = 1 .. k - 1
    BY <2>1, MaxOfFirst
  <2> HIDE DEF D, n
  <2> QED
    BY <1>8, <2>1, <2>2
<1>11. \A k \in 0 .. n : f[k] \in V
  <2> DEFINE T == {k \in Nat : k <= n => f[k] \in V}
  <2>1. 0 \in T
    <3>1. <<>> \in V
      BY EmptySeq DEF Stacks
    <3> HIDE DEF V, f
    <3> QED
      BY <1>9, <3>1
  <2>2. \A k \in Nat : k \in T => k + 1 \in T
    <3> SUFFICES ASSUME NEW k \in Nat, k \in T, k + 1 <= n PROVE f[k + 1] \in V
      OBVIOUS
    <3>1. f[k] \in V /\ k + 1 \in 1 .. n /\ (k + 1) - 1 = k
      BY <1>1
    <3>2. f[k + 1] = TakeUp(f[k], k + 1)
      <4> HIDE DEF f, n, T
      <4> QED
        BY <1>10, <3>1
    <3> HIDE DEF f, T
    <3> QED
      BY <3>1, <3>2, TakeUpStack
  <2>3. \A k \in Nat : k \in T
    <3> HIDE DEF T
    <3> QED
      BY <2>1, <2>2, Induct
  <2>4. \A k \in 0 .. n : k \in Nat /\ k <= n
    BY <1>1
  <2> HIDE DEF f, n, V
  <2> QED
    BY <2>3, <2>4
<1>12. Names = f[n]
  BY <1>1, <1>2 DEF H
<1> HIDE DEF f
<1> QED
  BY <1>9, <1>10, <1>11, <1>12 DEF NamesTo

-----------------------------------------------------------------------------
(* The stack of names and its text as the pass keeps them. *)

Prefix == IF rooted THEN <<"/">> ELSE <<>>

\* The first a names are the ".." that dotdot protects.
Marks(names, a, d) ==
  /\ a \in 0 .. Len(names)
  /\ \A k \in 1 .. a : names[k] = Up
  /\ \A k \in a + 1 .. Len(names) : names[k] # Up
  /\ d = Root + Len(Join(SubSeq(names, 1, a)))
  /\ rooted => a = 0

LEMMA FirstOfFront ==
  ASSUME NEW names \in Stacks, names # <<>>, NEW a \in 0 .. Len(names) - 1
  PROVE  SubSeq(Front(names), 1, a) = SubSeq(names, 1, a)
<1> DEFINE n == Len(names)
           u == SubSeq(Front(names), 1, a)
           v == SubSeq(names, 1, a)
<1>1. /\ n \in Nat \ {0} /\ Len(Front(names)) = n - 1 /\ Front(names) \in Stacks
      /\ \A k \in 1 .. n - 1 : Front(names)[k] = names[k]
  BY FrontLast
<1>2. \A k \in 1 .. n : names[k] \in NameSet
  BY StackTexts
<1>0. a \in 0 .. n - 1
  OBVIOUS
<1> HIDE DEF n
<1>3. /\ 1 \in Int /\ a \in Int /\ \A k \in 1 .. a : k \in 1 .. n /\ k \in 1 .. n - 1
      /\ \A k \in 1 .. a - 1 + 1 : k \in 1 .. a /\ 1 + k - 1 = k
      /\ (IF 1 <= a THEN a - 1 + 1 ELSE 0) = a
  BY <1>0, <1>1
<1>4. \A k \in 1 .. a : names[k] \in NameSet /\ Front(names)[k] \in NameSet
  BY <1>1, <1>2, <1>3
<1>5. u \in Stacks /\ Len(u) = a /\ \A k \in 1 .. a - 1 + 1 : u[k] = Front(names)[1 + k - 1]
  BY <1>3, <1>4, SubSeqProperties DEF Stacks
<1>6. v \in Stacks /\ Len(v) = a /\ \A k \in 1 .. a - 1 + 1 : v[k] = names[1 + k - 1]
  BY <1>3, <1>4, SubSeqProperties DEF Stacks
<1> HIDE DEF u, v
<1>7. \A k \in 1 .. a : u[k] = v[k]
  <2>1. a - 1 + 1 = a
    BY <1>3
  <2> QED
    BY <1>1, <1>3, <1>5, <1>6, <2>1
<1>8. u = v
  BY <1>5, <1>6, <1>7, SeqEqual DEF Stacks
<1> QED
  BY <1>8 DEF u, v

LEMMA AllOfStack ==
  ASSUME NEW names \in Stacks
  PROVE  SubSeq(names, 1, Len(names)) = names
BY SubSeqFull DEF Stacks

\* Fewer names have a shorter text.
LEMMA TextShorter ==
  \A names \in Stacks : \A a \in 0 .. Len(names) :
    /\ Len(Join(SubSeq(names, 1, a))) \in Nat /\ Len(Join(names)) \in Nat
    /\ Len(Join(SubSeq(names, 1, a))) <= Len(Join(names))
    /\ a # Len(names) => Len(Join(SubSeq(names, 1, a))) < Len(Join(names))
<1> DEFINE Shorter(names, a) ==
             /\ Len(Join(SubSeq(names, 1, a))) \in Nat /\ Len(Join(names)) \in Nat
             /\ Len(Join(SubSeq(names, 1, a))) <= Len(Join(names))
             /\ a # Len(names) => Len(Join(SubSeq(names, 1, a))) < Len(Join(names))
           T == {n \in Nat : \A names \in Stacks :
                               Len(names) = n => \A a \in 0 .. n : Shorter(names, a)}
<1>1. \A names \in Stacks : Shorter(names, Len(names))
  <2> SUFFICES ASSUME NEW names \in Stacks PROVE Shorter(names, Len(names))
    OBVIOUS
  <2>1. Len(Join(names)) \in Nat
    BY JoinText, LenProperties
  <2>2. SubSeq(names, 1, Len(names)) = names
    BY AllOfStack
  <2>3. Len(Join(SubSeq(names, 1, Len(names)))) = Len(Join(names))
    BY <2>2
  <2>4. \A t \in Nat : t <= t
    OBVIOUS
  <2> QED
    BY <2>1, <2>3, <2>4
<1>2. 0 \in T
  <2>1. \A a \in 0 .. 0 : a = 0
    OBVIOUS
  <2> HIDE DEF Shorter
  <2> QED
    BY <1>1, <2>1
<1>3. \A n \in Nat : n \in T => n + 1 \in T
  <2>0. \A n \in Nat : n + 1 \in Nat
    OBVIOUS
  <2> SUFFICES ASSUME NEW n \in Nat, n \in T, NEW names \in Stacks, Len(names) = n + 1,
                      NEW a \in 0 .. n + 1
               PROVE  Shorter(names, a)
    <3> HIDE DEF Shorter
    <3> QED
      BY <2>0
  <2>1. CASE a = n + 1
    <3> HIDE DEF Shorter
    <3> QED
      BY <1>1, <2>1
  <2>2. CASE a # n + 1
    <3>1. a \in 0 .. n /\ n + 1 # 0 /\ (n + 1) - 1 = n
      BY <2>2
    <3>2. names # <<>>
      BY <3>1, EmptySeq
    <3>3. /\ Front(names) \in Stacks /\ Last(names) \in NameSet /\ Len(Front(names)) = n
          /\ names = Append(Front(names), Last(names))
      BY <3>1, <3>2, FrontLast
    <3>4. SubSeq(Front(names), 1, a) = SubSeq(names, 1, a)
      BY <3>1, <3>2, FirstOfFront
    <3>5. Shorter(Front(names), a)
      <4> HIDE DEF Shorter
      <4> QED
        BY <3>1, <3>3
    <3> DEFINE F == Front(names)
               L == Last(names)
    <3>6. /\ Join(F) \in Seq(Chars) /\ Join(names) \in Seq(Chars)
          /\ Len(Join(F)) <= Len(Join(F) \o Sep(Join(F)))
          /\ Len(Join(F) \o Sep(Join(F))) < Len(Join(names))
          /\ Join(F) \o Sep(Join(F)) \in Seq(Chars)
      BY <3>3, JoinGrows, JoinText
    <3>7. /\ Len(Join(F)) \in Nat /\ Len(Join(names)) \in Nat
          /\ Len(Join(F) \o Sep(Join(F))) \in Nat
      BY <3>6, LenProperties
    <3>8. Len(Join(F)) < Len(Join(names))
      <4> HIDE DEF F
      <4> QED
        BY <3>6, <3>7
    <3> DEFINE s == Len(Join(SubSeq(names, 1, a)))
               t == Len(Join(names))
               u == Len(Join(F))
    <3>9. s \in Nat /\ u \in Nat /\ t \in Nat /\ s <= u /\ u < t
      BY <3>4, <3>5, <3>7, <3>8
    <3>10. s <= t /\ s < t
      <4> HIDE DEF s, t, u
      <4> QED
        BY <3>9
    <3> QED
      BY <3>9, <3>10
  <2> QED
    BY <2>1, <2>2
<1>4. \A n \in Nat : n \in T
  <2> HIDE DEF T
  <2> QED
    BY <1>2, <1>3, Induct
<1>5. \A names \in Stacks : Len(names) \in Nat
  BY StackTexts
<1> HIDE DEF Shorter
<1>6. \A names \in Stacks : \A a \in 0 .. Len(names) : Shorter(names, a)
  BY <1>4, <1>5
<1> QED
  BY <1>6 DEF Shorter

\* There is something to back up over where a name is not protected.
LEMMA MarksSize ==
  ASSUME NEW names \in Stacks, NEW a, NEW d, Marks(names, a, d)
  PROVE  /\ d \in Nat /\ Len(Join(names)) \in Nat /\ d <= Root + Len(Join(names))
         /\ a = Len(names) <=> d = Root + Len(Join(names))
         /\ a = Len(names) <=> names = <<>> \/ Last(names) = Up
<1>1. Len(names) \in Nat /\ a \in 0 .. Len(names) /\ Root \in Nat
  BY StackTexts DEF Marks, Root
<1>2. /\ Len(Join(SubSeq(names, 1, a))) \in Nat /\ Len(Join(names)) \in Nat
      /\ Len(Join(SubSeq(names, 1, a))) <= Len(Join(names))
      /\ a # Len(names) => Len(Join(SubSeq(names, 1, a))) < Len(Join(names))
  BY <1>1, TextShorter
<1>3. a = Len(names) => SubSeq(names, 1, a) = names
  BY AllOfStack
<1>4. /\ d \in Nat /\ d <= Root + Len(Join(names))
      /\ a = Len(names) <=> d = Root + Len(Join(names))
  <2> DEFINE s == Len(Join(SubSeq(names, 1, a)))
             t == Len(Join(names))
             n == Len(names)
  <2>1. d = Root + s /\ (a = n => s = t)
    BY <1>3 DEF Marks
  <2>2. s \in Nat /\ t \in Nat /\ Root \in Nat /\ s <= t /\ (a # n => s < t)
    BY <1>1, <1>2
  <2> HIDE DEF s, t, n
  <2>3. d \in Nat /\ d <= Root + t
    BY <2>1, <2>2
  <2>4. a = n <=> d = Root + t
    BY <2>1, <2>2
  <2> QED
    BY <2>3, <2>4 DEF t, n
<1>5. a = Len(names) <=> names = <<>> \/ Last(names) = Up
  <2>1. CASE names = <<>>
    BY <1>1, <2>1, EmptySeq
  <2>2. CASE names # <<>>
    <3>1. Len(names) \in Nat \ {0} /\ Last(names) = names[Len(names)]
      BY <2>2, FrontLast DEF Last
    <3>2. a = Len(names) => Len(names) \in 1 .. a
      BY <3>1
    <3>3. a # Len(names) => Len(names) \in a + 1 .. Len(names)
      BY <1>1, <3>1
    <3> QED
      BY <2>2, <3>1, <3>2, <3>3 DEF Marks
  <2> QED
    BY <2>1, <2>2
<1> QED
  BY <1>2, <1>4, <1>5

\* The last name is taken away, or another added: the ".." stay marked.
LEMMA MarksFront ==
  ASSUME NEW names \in Stacks, NEW a, NEW d, Marks(names, a, d), a # Len(names)
  PROVE  names # <<>> /\ Marks(Front(names), a, d)
<1>1. Len(names) \in Nat /\ a \in 0 .. Len(names)
  BY StackTexts DEF Marks
<1>2. names # <<>>
  BY <1>1, EmptySeq
<1>3. /\ Len(names) \in Nat \ {0} /\ Len(Front(names)) = Len(names) - 1
      /\ \A k \in 1 .. Len(names) - 1 : Front(names)[k] = names[k]
  BY <1>2, FrontLast
<1>4. /\ a \in 0 .. Len(names) - 1 /\ \A k \in 1 .. a : k \in 1 .. Len(names) - 1
      /\ \A k \in a + 1 .. Len(names) - 1 : k \in 1 .. Len(names) - 1 /\ k \in a + 1 .. Len(names)
  BY <1>1, <1>3
<1>5. SubSeq(Front(names), 1, a) = SubSeq(names, 1, a)
  BY <1>2, <1>4, FirstOfFront
<1> QED
  BY <1>2, <1>3, <1>4, <1>5 DEF Marks

LEMMA MarksAppend ==
  ASSUME NEW names \in Stacks, NEW a, NEW d, Marks(names, a, d), NEW name \in NameSet, name # Up
  PROVE  Marks(Append(names, name), a, d)
<1> DEFINE more == Append(names, name)
<1>1. /\ Len(names) \in Nat /\ a \in 0 .. Len(names)
      /\ more \in Stacks /\ Len(more) = Len(names) + 1 /\ more[Len(names) + 1] = name /\ more # <<>>
      /\ \A k \in 1 .. Len(names) : more[k] = names[k]
  BY StackTexts, AppendProperties DEF Marks, Stacks
<1>2. Front(more) = names
  <2>1. /\ Front(more) \in Stacks /\ Len(Front(more)) = Len(more) - 1
        /\ \A k \in 1 .. Len(more) - 1 : Front(more)[k] = more[k]
    <3> HIDE DEF more
    <3> QED
      BY <1>1, FrontLast
  <2>2. Len(more) - 1 = Len(names)
    BY <1>1
  <2> HIDE DEF more
  <2> QED
    BY <1>1, <2>1, <2>2, SeqEqual DEF Stacks
<1>3. SubSeq(names, 1, a) = SubSeq(more, 1, a)
  <2>1. a \in 0 .. Len(more) - 1
    BY <1>1
  <2> HIDE DEF more
  <2> QED
    BY <1>1, <1>2, <2>1, FirstOfFront
<1> HIDE DEF more
<1>4. a \in 0 .. Len(more) /\ \A k \in 1 .. a : more[k] = Up
  <2>1. a \in 0 .. Len(more) /\ \A k \in 1 .. a : k \in 1 .. Len(names)
    BY <1>1
  <2> QED
    BY <1>1, <2>1 DEF Marks
<1>5. ASSUME NEW k \in a + 1 .. Len(more) PROVE more[k] # Up
  <2>1. k = Len(names) + 1 \/ (k \in a + 1 .. Len(names) /\ k \in 1 .. Len(names))
    BY <1>1
  <2> QED
    BY <1>1, <2>1 DEF Marks
<1>6. Marks(more, a, d)
  BY <1>3, <1>4, <1>5 DEF Marks
<1> QED
  BY <1>6 DEF more

LEMMA MarksUp ==
  ASSUME NEW names \in Stacks, NEW d, Marks(names, Len(names), d), Up \in NameSet, ~rooted
  PROVE  Marks(Append(names, Up), Len(names) + 1, Root + Len(Join(Append(names, Up))))
<1> DEFINE more == Append(names, Up)
<1>1. /\ Len(names) \in Nat /\ more \in Stacks /\ Len(more) = Len(names) + 1
      /\ more[Len(names) + 1] = Up /\ \A k \in 1 .. Len(names) : more[k] = names[k]
  BY StackTexts, AppendProperties DEF Stacks
<1> HIDE DEF more
<1>2. SubSeq(more, 1, Len(names) + 1) = more
  BY <1>1, AllOfStack
<1>3. ASSUME NEW k \in 1 .. Len(names) + 1 PROVE more[k] = Up
  <2>1. k = Len(names) + 1 \/ k \in 1 .. Len(names)
    BY <1>1
  <2> QED
    BY <1>1, <2>1 DEF Marks
<1>4. Len(names) + 1 \in 0 .. Len(more) /\ \A k \in Len(names) + 1 + 1 .. Len(more) : FALSE
  BY <1>1
<1>5. Marks(more, Len(names) + 1, Root + Len(Join(more)))
  BY <1>2, <1>3, <1>4 DEF Marks
<1> QED
  BY <1>5 DEF more

-----------------------------------------------------------------------------
(* What was read resolves to what is written. *)

\* A component begins or ends here.
AtEdge == r = 0 \/ path[r] = "/" \/ EndsAt(r)

Written(names) == output = Prefix \o Join(names) /\ \E a \in Nat : Marks(names, a, dotdot)

NamesInv ==
  /\ ~done => AtEdge /\ \E f : NamesTo(f) /\ Written(f[r])
  /\ Correct

\* The names depend on the path alone.
LEMMA SameNames ==
  ASSUME path' = path
  PROVE  /\ Reference' = Reference /\ Prefix' = Prefix
         /\ \A f : NamesTo(f)' <=> NamesTo(f)
<1>1. length' = length /\ rooted' = rooted /\ Root' = Root
  BY SamePath
<1>2. \A names, i : TakeUp(names, i)' = TakeUp(names, i)
  BY <1>1 DEF TakeUp, Resolve
<1>3. Names' = Names
  BY DEF Names, FoldLeftDomain, FoldLeft, MapThenFoldSet, TakeUp, Resolve, rooted, length
<1>4. Reference' = Reference /\ Prefix' = Prefix
  BY <1>1, <1>3 DEF Reference, Prefix
<1>5. \A f : NamesTo(f)' <=> NamesTo(f)
  BY <1>1, <1>2, <1>3 DEF NamesTo
<1> QED
  BY <1>4, <1>5

\* A component read resolves at its end.
LEMMA NameTaken ==
  ASSUME Typed, AtEdge, NEW f, NamesTo(f), r < length, ~At(r, "/"), NEW end \in r + 1 .. length,
         EndsAt(end), \A k \in r + 1 .. end - 1 : ~EndsAt(k)
  PROVE  f[end] = Resolve(f[r], SubSeq(path, r + 1, end))
<1> DEFINE name == SubSeq(path, r + 1, end)
           T == {k \in Nat : r + k < end => f[r + k] = f[r]}
<1>1. length \in Nat /\ r \in Nat /\ end \in Nat /\ r < end /\ end <= length
  BY LenProperties DEF Typed, length
<1>2. /\ Len(name) = end - r /\ \A i \in 1 .. end - r : name[i] = path[r + i]
      /\ \A i \in 1 .. Len(name) : name[i] # "/"
  BY NameRead
<1> HIDE DEF name
<1>3. \A k \in r + 1 .. end : path[k] # "/"
  <2> SUFFICES ASSUME NEW k \in r + 1 .. end PROVE path[k] # "/"
    OBVIOUS
  <2>1. k - r \in 1 .. end - r /\ r + (k - r) = k
    BY <1>1
  <2> QED
    BY <1>2, <2>1
<1>4. 0 \in T
  BY <1>1
<1>5. \A k \in Nat : k \in T => k + 1 \in T
  <2> SUFFICES ASSUME NEW k \in Nat, k \in T, r + (k + 1) < end PROVE f[r + (k + 1)] = f[r]
    OBVIOUS
  <2> DEFINE j == r + (k + 1)
  <2>1. j - 1 = r + k /\ j \in r + 1 .. end - 1 /\ j \in 1 .. length /\ r + k < end
    BY <1>1
  <2>2. f[j - 1] = f[r] /\ ~EndsAt(j)
    BY <2>1
  <2> HIDE DEF j
  <2>3. f[j] = TakeUp(f[j - 1], j)
    BY <2>1 DEF NamesTo
  <2>4. f[j] = f[r]
    BY <1>1, <2>1, <2>2, <2>3, TakeUpNone
  <2> QED
    BY <2>4 DEF j
<1>6. \A k \in Nat : k \in T
  <2> HIDE DEF T
  <2> QED
    BY <1>4, <1>5, Induct
<1>7. f[end - 1] = f[r]
  <2>1. end - 1 - r \in Nat /\ r + (end - 1 - r) = end - 1 /\ end - 1 < end
    BY <1>1
  <2> QED
    BY <1>6, <2>1
<1>8. f[end] = TakeUp(f[r], end)
  <2>1. end \in 1 .. length
    BY <1>1
  <2> QED
    BY <1>7, <2>1 DEF NamesTo
<1>9. r = 0 \/ path[r] = "/"
  BY <1>1 DEF AtEdge, EndsAt
<1>10. TakeUp(f[r], end) = Resolve(f[r], name)
  <2>1. r \in 0 .. length
    BY <1>1
  <2> QED
    BY <1>1, <1>3, <1>9, <2>1, TakeUpEnd DEF name
<1> QED
  BY <1>8, <1>10 DEF name

\* Where a name is put behind what is written.
LEMMA TextOf ==
  ASSUME NEW names \in Stacks
  PROVE  /\ Prefix \in Seq(Chars) /\ Len(Prefix) = Root /\ Root \in Nat
         /\ Prefix \o Join(names) \in Seq(Chars)
         /\ Len(Prefix \o Join(names)) = Root + Len(Join(names))
         /\ Len(Join(names)) \in Nat
<1>1. <<>> \in Seq(Chars) /\ <<"/">> \in Seq(Chars) /\ Len(<<>>) = 0 /\ Len(<<"/">>) = 1
  BY EmptySeq DEF Chars
<1>2. Prefix \in Seq(Chars) /\ Len(Prefix) = Root /\ Root \in Nat
  BY <1>1 DEF Prefix, Root
<1> QED
  BY <1>2, JoinText, ConcatProperties, LenProperties

LEMMA ReadNames ==
  ASSUME PathInv, NamesInv, ~done
  PROVE  /\ path \in Seq(Chars) /\ length \in Nat /\ r \in Nat /\ r <= length /\ AtEdge
         /\ r \in 0 .. length
         /\ \E f : NamesTo(f) /\ Written(f[r]) /\ f[r] \in Stacks
<1>1. path \in Seq(Chars) /\ length \in Nat /\ r \in Nat /\ r <= length
  BY LenProperties DEF PathInv, Typed, length
<1>2. r \in 0 .. length
  BY <1>1
<1> QED
  BY <1>1, <1>2 DEF NamesInv, NamesTo

-----------------------------------------------------------------------------
(* The steps, as the names see them. *)

LEMMA InitNames == Init => NamesInv
<1> SUFFICES ASSUME Init PROVE NamesInv
  OBVIOUS
<1>1. path \in Seq(Chars) /\ length \in Nat /\ ~done
  BY InitPath, LenProperties DEF PathInv, Typed, length, Init
<1>2. PICK f : NamesTo(f)
  BY <1>1, NamesRows
<1>3. f[0] = <<>> /\ <<>> \in Stacks /\ Len(<<>>) = 0 /\ Join(<<>>) = <<>>
  BY <1>2, EmptySeq, JoinEmpty DEF NamesTo, Stacks
<1>4. Marks(<<>>, 0, Root)
  <2>1. SubSeq(<<>>, 1, 0) = <<>>
    BY <1>3, AllOfStack
  <2>2. Root = Root + Len(<<>>) /\ 0 \in 0 .. 0 /\ \A k \in 1 .. 0 : FALSE
    BY <1>3 DEF Root
  <2>3. \A k \in 0 + 1 .. 0 : FALSE
    OBVIOUS
  <2> QED
    BY <1>3, <2>1, <2>2, <2>3 DEF Marks
<1>5. CASE rooted
  <2>1. r = 1 /\ dotdot = 1 /\ output = <<"/">> /\ path[1] = "/" /\ 1 \in 1 .. length
    BY <1>1, <1>5 DEF Init, rooted
  <2>2. f[1] = <<>>
    BY <1>1, <1>2, <1>3, <2>1, TakeUpNone DEF NamesTo
  <2>3. Prefix \o Join(<<>>) = output /\ Root = 1
    BY <1>3, <1>5, <2>1, TextOf, ConcatEmptySeq DEF Prefix, Root
  <2> QED
    BY <1>1, <1>2, <1>4, <2>1, <2>2, <2>3 DEF NamesInv, AtEdge, Written, Correct
<1>6. CASE ~rooted
  <2>1. r = 0 /\ dotdot = 0 /\ output = <<>> /\ Root = 0 /\ Prefix = <<>>
    BY <1>6 DEF Init, Root, Prefix
  <2>2. Prefix \o Join(<<>>) = output
    BY <1>3, <2>1, EmptySeq, ConcatEmptySeq
  <2> QED
    BY <1>1, <1>2, <1>3, <1>4, <2>1, <2>2 DEF NamesInv, AtEdge, Written, Correct
<1> QED
  BY <1>5, <1>6

\* The invariant holds again once the names of what is read are written.
LEMMA NamesHold ==
  ASSUME path' = path, done' = done, ~done, NEW f, NamesTo(f), AtEdge',
         NEW a \in Nat, Marks(f[r'], a, dotdot'), output' = Prefix \o Join(f[r'])
  PROVE  NamesInv'
<1>1. NamesTo(f)' /\ Prefix' = Prefix /\ Root' = Root /\ rooted' = rooted
  BY SameNames, SamePath
<1>2. Marks(f[r], a, dotdot)'
  BY <1>1 DEF Marks
<1>3. Written(f[r])'
  BY <1>1, <1>2 DEF Written
<1> QED
  BY <1>1, <1>3 DEF NamesInv, Correct

LEMMA SkipNames ==
  ASSUME PathInv, NamesInv, Skip
  PROVE  NamesInv'
<1>1. /\ path' = path /\ r' = r + 1 /\ output' = output /\ dotdot' = dotdot
      /\ done' = done /\ ~done
  BY DEF Skip
<1>2. PICK f : NamesTo(f) /\ Written(f[r]) /\ f[r] \in Stacks
  BY <1>1, ReadNames
<1>3. PICK a \in Nat : Marks(f[r], a, dotdot)
  BY <1>2 DEF Written
<1>4. path \in Seq(Chars) /\ length \in Nat /\ r \in Nat /\ r < length /\ AtEdge
  BY <1>1, ReadNames DEF Skip, IsDot, At
<1>5. r + 1 \in 1 .. length /\ (r + 1) - 1 = r
  BY <1>4
<1>6. CASE At(r, "/")
  <2>1. path[r + 1] = "/"
    BY <1>6 DEF At
  <2>2. f[r + 1] = TakeUp(f[r], r + 1)
    BY <1>2, <1>5 DEF NamesTo
  <2>3. f[r + 1] = f[r]
    BY <1>4, <1>5, <2>1, <2>2, TakeUpNone
  <2>4. AtEdge'
    BY <1>1, <2>1 DEF AtEdge
  <2> QED
    BY <1>1, <1>2, <1>3, <2>3, <2>4, NamesHold DEF Written
<1>7. CASE IsDot
  <2>1. ~At(r, "/") /\ EndsAt(r + 1) /\ path[r + 1] = "."
    BY <1>7 DEF IsDot, At
  <2> DEFINE end == r + 1
             name == SubSeq(path, r + 1, end)
  <2>2. end \in r + 1 .. length /\ \A k \in r + 1 .. end - 1 : FALSE
    BY <1>4
  <2>3. f[end] = Resolve(f[r], name)
    BY <1>2, <1>4, <2>1, <2>2, NameTaken DEF PathInv
  <2>4. name \in Seq(Chars) /\ Len(name) = end - r /\ name[1] = "."
    <3>1. /\ name \in Seq(Chars) /\ Len(name) = end - r
          /\ \A i \in 1 .. end - r : name[i] = path[r + i]
      BY <1>4, <2>1, <2>2, NameRead DEF PathInv
    <3>2. 1 \in 1 .. end - r
      BY <1>4
    <3> QED
      BY <2>1, <3>1, <3>2
  <2>5. Len(name) = 1
    BY <1>4, <2>4
  <2>6. name = <<".">>
    <3>1. <<".">> \in Seq(Chars) /\ Len(<<".">>) = 1 /\ <<".">>[1] = "."
      BY DEF Chars
    <3>2. \A i \in 1 .. 1 : i = 1
      OBVIOUS
    <3> HIDE DEF name
    <3> QED
      BY <2>4, <2>5, <3>1, <3>2, SeqEqual
  <2>7. f[r + 1] = f[r]
    BY <2>3, <2>6 DEF Resolve
  <2>8. AtEdge'
    BY <1>1, <2>1, SamePath DEF AtEdge, EndsAt, At
  <2> QED
    BY <1>1, <1>2, <1>3, <2>7, <2>8, NamesHold DEF Written
<1> QED
  BY <1>6, <1>7 DEF Skip

LEMMA FinishNames ==
  ASSUME PathInv, NamesInv, Finish
  PROVE  NamesInv'
<1>1. /\ path' = path /\ done' = TRUE /\ ~done /\ r >= length
      /\ output' = IF Size = 0 THEN <<".">> ELSE output
  BY DEF Finish
<1>2. PICK f : NamesTo(f) /\ Written(f[r]) /\ f[r] \in Stacks
  BY <1>1, ReadNames
<1>3. r = length
  BY <1>1, ReadNames
<1>4. f[r] = Names
  BY <1>2, <1>3 DEF NamesTo
<1>5. /\ output = Prefix \o Join(Names) /\ Size = Root + Len(Join(Names))
      /\ Join(Names) \in Seq(Chars) /\ Len(Join(Names)) \in Nat
  BY <1>2, <1>4, TextOf, JoinText DEF Written, Size
<1>6. CASE rooted
  <2>1. Root = 1 /\ Prefix = <<"/">>
    BY <1>6 DEF Root, Prefix
  <2>2. Size # 0
    BY <1>5, <2>1
  <2> QED
    BY <1>1, <1>5, <1>6, <2>1, <2>2, SameNames DEF NamesInv, Correct, Reference
<1>7. CASE ~rooted
  <2>1. Root = 0 /\ Prefix = <<>>
    BY <1>7 DEF Root, Prefix
  <2>2. output = Join(Names) /\ (Size = 0 <=> Join(Names) = <<>>)
    BY <1>5, <2>1, EmptySeq, ConcatEmptySeq
  <2> QED
    BY <1>1, <1>7, <2>2, SameNames DEF NamesInv, Correct, Reference
<1> QED
  BY <1>6, <1>7

\* Backing up takes away the last name.
LEMMA BackUpName ==
  ASSUME Typed, MayBackUp, BackUp, NEW names \in Stacks, names # <<>>,
         output = Prefix \o Join(names), dotdot <= Root + Len(Join(Front(names))),
         Front(names) = <<>> => dotdot = Root
  PROVE  output' = Prefix \o Join(Front(names))
<1> DEFINE F == Front(names)
           L == Last(names)
           base == Join(F) \o Sep(Join(F))
           A == Prefix \o Join(F)
           B == Sep(Join(F)) \o L
           l == Len(A)
<1>1. F \in Stacks /\ L \in NameSet /\ names = Append(F, L) /\ L \in Seq(Chars)
  BY FrontLast DEF NameSet
<1>2. /\ A \in Seq(Chars) /\ l = Root + Len(Join(F)) /\ l \in Nat
      /\ Prefix \in Seq(Chars) /\ Join(F) \in Seq(Chars) /\ Sep(Join(F)) \in Seq(Chars)
  BY <1>1, TextOf, JoinText, SepText, LenProperties
<1>3. Join(names) = base \o L
  BY <1>1, JoinAppend
<1> HIDE DEF F, L
<1>4. output = A \o B /\ B \in Seq(Chars)
  <2> DEFINE J == Join(F)
             Q == Sep(J)
             M == Q \o L
  <2>1. J \in Seq(Chars) /\ Q \in Seq(Chars) /\ Prefix \in Seq(Chars) /\ L \in Seq(Chars)
    BY <1>1, <1>2
  <2> HIDE DEF J, Q
  <2>2. Cat(Prefix, Cat(Cat(J, Q), L)) = Cat(Cat(Prefix, J), Cat(Q, L))
    BY <2>1, Regroup
  <2>3. M \in Seq(Chars)
    BY <2>1, ConcatProperties
  <2>4. Join(names) = Cat(Cat(J, Q), L)
    BY <1>3 DEF J, Q, Cat
  <2>5. output = Cat(Prefix, Join(names))
    BY DEF Cat
  <2>6. output = Cat(Cat(Prefix, J), M)
    BY <2>2, <2>4, <2>5 DEF Cat
  <2> QED
    BY <2>3, <2>6 DEF J, Q, M, Cat
<1>5. Len(L) \in Nat \ {0} /\ \A i \in 1 .. Len(L) : L[i] # "/"
  BY <1>1, EmptySeq, LenProperties DEF NameSet
<1>6. /\ Len(Sep(Join(F))) \in 0 .. 1 /\ (Join(F) # <<>> => Sep(Join(F)) = <<"/">>)
      /\ (Join(F) # <<>> => Len(Sep(Join(F))) = 1)
  <2>1. Len(<<>>) = 0 /\ Len(<<"/">>) = 1 /\ 0 \in 0 .. 1 /\ 1 \in 0 .. 1
    BY EmptySeq
  <2> QED
    BY <2>1 DEF Sep
<1>7. /\ Len(B) = Len(Sep(Join(F))) + Len(L)
      /\ \A i \in 1 .. Len(Sep(Join(F))) + Len(L) :
           B[i] = IF i <= Len(Sep(Join(F))) THEN Sep(Join(F))[i] ELSE L[i - Len(Sep(Join(F)))]
  BY <1>1, <1>2, ConcatProperties
<1>8. /\ Size = l + Len(B)
      /\ \A i \in 1 .. l + Len(B) : output[i] = IF i <= l THEN A[i] ELSE B[i - l]
  <2> HIDE DEF A, B
  <2>1. A \in Seq(Chars) /\ B \in Seq(Chars)
    BY <1>2, <1>4
  <2>2. /\ Len(A \o B) = Len(A) + Len(B)
        /\ \A i \in 1 .. Len(A) + Len(B) :
             (A \o B)[i] = IF i <= Len(A) THEN A[i] ELSE B[i - Len(A)]
    BY <2>1, ConcatProperties
  <2>3. output = A \o B
    BY <1>4
  <2> QED
    BY <2>2, <2>3, Zenon DEF Size
<1> DEFINE s == Len(Sep(Join(F)))
           n == Len(L)
           b == Len(B)
           T == {k \in 0 .. Size - 1 : k <= dotdot \/ output[k + 1] = "/"}
           m == CHOOSE k \in T : \A j \in T : j <= k
<1>9. /\ s \in 0 .. 1 /\ n \in Nat \ {0} /\ b = s + n /\ Size = l + b /\ l \in Nat /\ b \in Nat
      /\ dotdot \in Nat /\ dotdot <= l
  BY <1>2, <1>5, <1>6, <1>7, <1>8 DEF Typed, F
<1>10. l \in T
  <2>1. l \in 0 .. Size - 1
    <3> HIDE DEF s, n, b, l
    <3> QED
      BY <1>9
  <2>2. CASE Join(F) = <<>>
    <3>1. F = <<>>
      BY <1>1, <2>2, JoinNone
    <3>2. dotdot = Root /\ Len(Join(F)) = 0
      BY <2>2, <3>1, EmptySeq DEF F
    <3>3. dotdot = l /\ l <= dotdot
      BY <1>2, <1>9, <3>2
    <3> QED
      BY <2>1, <3>3
  <2>3. CASE Join(F) # <<>>
    <3>1. s = 1 /\ <<"/">>[1] = "/" /\ Sep(Join(F)) = <<"/">>
      BY <1>6, <2>3
    <3>2. l + 1 \in 1 .. l + b /\ ~(l + 1 <= l) /\ (l + 1) - l = 1 /\ 1 \in 1 .. s + n /\ 1 <= s
      <4> HIDE DEF s, n, b, l
      <4> QED
        BY <1>9, <3>1
    <3>3. output[l + 1] = B[1]
      <4> DEFINE i == l + 1
      <4>1. i \in 1 .. l + b /\ ~(i <= l) /\ i - l = 1
        BY <3>2
      <4> HIDE DEF i, l, b, A, B
      <4>2. output[i] = B[i - l]
        BY <1>8, <4>1 DEF l, b
      <4> QED
        BY <4>1, <4>2 DEF i
    <3>4. B[1] = Sep(Join(F))[1]
      BY <1>7, <3>2
    <3>5. output[l + 1] = "/"
      BY <3>1, <3>3, <3>4
    <3> QED
      BY <2>1, <3>5
  <2> QED
    BY <2>2, <2>3
<1>11. ASSUME NEW k \in T PROVE k <= l
  <2> SUFFICES ASSUME ~(k <= l) PROVE FALSE
    OBVIOUS
  <2>1. k \in 0 .. Size - 1 /\ (k <= dotdot \/ output[k + 1] = "/")
    OBVIOUS
  <2> DEFINE i == k + 1
  <2>2. /\ ~(k <= dotdot) /\ i \in 1 .. l + b /\ ~(i <= l) /\ i - l \in 1 .. s + n
        /\ ~(i - l <= s) /\ (i - l) - s \in 1 .. n
    <3> HIDE DEF s, n, b, l, T
    <3> QED
      BY <1>9, <2>1
  <2>3. output[i] = "/"
    BY <2>1, <2>2
  <2> HIDE DEF i, T, A
  <2>4. output[i] = B[i - l]
    BY <1>8, <2>2
  <2>5. B[i - l] = L[(i - l) - s]
    BY <1>7, <2>2
  <2> QED
    BY <1>5, <2>2, <2>3, <2>4, <2>5
<1>12. m = l
  <2>1. \A k \in T : k \in Nat
    BY <1>9
  <2> HIDE DEF T, l
  <2>2. m \in T /\ \A k \in T : k <= m
    BY <1>10, <1>11
  <2>3. m <= l /\ l <= m /\ m \in Nat /\ l \in Nat
    BY <1>10, <1>11, <2>1, <2>2
  <2> HIDE DEF m
  <2> QED
    BY <2>3
<1>13. output' = SubSeq(output, 1, m)
  BY DEF BackUp
<1>14. SubSeq(output, 1, l) = A
  <2> HIDE DEF A, B
  <2> QED
    BY <1>2, <1>4, CutConcat
<1> QED
  BY <1>12, <1>13, <1>14 DEF F

\* What is written behind a text of names is the text of one name more.
LEMMA NameAppended ==
  ASSUME NEW names \in Stacks, NEW name \in NameSet, NEW text, text = Prefix \o Join(names)
  PROVE  Prefix \o Join(Append(names, name)) = (text \o Sep(Join(names))) \o name
<1> DEFINE J == Join(names)
           Q == Sep(J)
<1>1. J \in Seq(Chars) /\ Q \in Seq(Chars) /\ Prefix \in Seq(Chars) /\ name \in Seq(Chars)
  BY TextOf, JoinText, SepText DEF NameSet
<1>2. Join(Append(names, name)) = (J \o Q) \o name
  BY JoinAppend
<1> HIDE DEF J, Q
<1>3. Cat(Prefix, Cat(Cat(J, Q), name)) = Cat(Cat(Cat(Prefix, J), Q), name)
  BY <1>1, Regroup
<1>4. text = Cat(Prefix, J)
  BY DEF Cat, J
<1>5. Join(Append(names, name)) = Cat(Cat(J, Q), name)
  BY <1>2 DEF Cat
<1>6. Cat(Prefix, Join(Append(names, name))) = Cat(Cat(text, Q), name)
  BY <1>3, <1>4, <1>5
<1> QED
  BY <1>6 DEF Cat, J, Q

LEMMA UpIsName == Up \in NameSet /\ Up \in Seq(Chars) /\ Len(Up) = 2 /\ Up # <<".">>
<1>1. Up \in Seq(Chars) /\ Len(Up) = 2 /\ Up[1] = "." /\ Up[2] = "."
  BY DEF Up, Chars
<1>2. \A i \in 1 .. 2 : i = 1 \/ i = 2
  OBVIOUS
<1>3. Len(<<".">>) = 1 /\ Len(<<>>) = 0
  BY EmptySeq
<1>4. \A i \in 1 .. Len(Up) : Up[i] # "/"
  BY <1>1, <1>2
<1>5. Up # <<>> /\ Up # <<".">>
  <2> HIDE DEF Up
  <2>1. Len(Up) # 0 /\ Len(Up) # 1
    BY <1>1
  <2> QED
    BY <1>3, <2>1
<1> QED
  BY <1>1, <1>4, <1>5 DEF NameSet

LEMMA DotDotNames ==
  ASSUME PathInv, NamesInv, DotDot
  PROVE  NamesInv'
<1>1. /\ path' = path /\ done' = done /\ ~done /\ r' = r + 2
      /\ At(r, ".") /\ At(r + 1, ".") /\ EndsAt(r + 2)
  BY DEF DotDot, IsDotDot
<1>2. PICK f : NamesTo(f) /\ Written(f[r]) /\ f[r] \in Stacks
  BY <1>1, ReadNames
<1>3. PICK a \in Nat : Marks(f[r], a, dotdot)
  BY <1>2 DEF Written
<1>4. /\ path \in Seq(Chars) /\ length \in Nat /\ r \in Nat /\ r < length /\ r + 1 < length /\ AtEdge
      /\ path[r + 1] = "." /\ path[r + 2] = "." /\ ~At(r, "/") /\ ~EndsAt(r + 1)
  <2>1. path \in Seq(Chars) /\ length \in Nat /\ r \in Nat /\ AtEdge
    BY <1>1, ReadNames
  <2>2. (r + 1) + 1 = r + 2
    BY <2>1
  <2>3. r < length /\ r + 1 < length /\ path[r + 1] = "." /\ path[r + 2] = "."
    BY <1>1, <2>2 DEF At
  <2> QED
    BY <2>1, <2>2, <2>3 DEF At, EndsAt
<1> DEFINE end == r + 2
           name == SubSeq(path, r + 1, end)
           names == f[r]
<1>5. end \in r + 1 .. length /\ \A k \in r + 1 .. end - 1 : ~EndsAt(k)
  <2>1. end \in r + 1 .. length /\ \A k \in r + 1 .. end - 1 : k = r + 1
    BY <1>4
  <2> QED
    BY <1>4, <2>1
<1>6. f[end] = Resolve(names, name)
  BY <1>1, <1>2, <1>4, <1>5, NameTaken DEF PathInv
<1>7. name = Up
  <2>1. /\ name \in Seq(Chars) /\ Len(name) = end - r
        /\ \A i \in 1 .. end - r : name[i] = path[r + i]
    BY <1>1, <1>4, <1>5, NameRead DEF PathInv
  <2>2. end - r = 2 /\ 1 \in 1 .. 2 /\ 2 \in 1 .. 2 /\ \A i \in 1 .. 2 : i = 1 \/ i = 2
    BY <1>4
  <2> HIDE DEF name, end
  <2>3. Len(name) = 2 /\ name[1] = "." /\ name[2] = "."
    BY <1>4, <2>1, <2>2
  <2>4. Up[1] = "." /\ Up[2] = "."
    BY DEF Up
  <2> QED
    BY <2>1, <2>2, <2>3, <2>4, UpIsName, SeqEqual
<1>8. AtEdge' /\ r' = end
  BY <1>1, SamePath DEF AtEdge, EndsAt, At
<1> HIDE DEF name, end
<1>9. f[end] = IF names # <<>> /\ Last(names) # Up THEN Front(names)
               ELSE IF rooted THEN names ELSE Append(names, Up)
  BY <1>6, <1>7, UpIsName DEF Resolve
<1>10. /\ names \in Stacks /\ output = Prefix \o Join(names) /\ Size = Root + Len(Join(names))
       /\ dotdot \in Nat /\ Len(Join(names)) \in Nat /\ dotdot <= Root + Len(Join(names))
       /\ Root \in Nat
       /\ a = Len(names) <=> dotdot = Root + Len(Join(names))
       /\ a = Len(names) <=> names = <<>> \/ Last(names) = Up
  BY <1>2, <1>3, MarksSize, TextOf DEF Written, Size
<1> HIDE DEF names
<1>11. MayBackUp <=> a # Len(names)
  <2>1. Size \in Nat /\ dotdot <= Size /\ (a = Len(names) <=> dotdot = Size)
    BY <1>10
  <2> QED
    BY <1>10, <2>1 DEF MayBackUp
<1>12. CASE MayBackUp /\ BackUp /\ UNCHANGED dotdot
  <2>1. a # Len(names) /\ Marks(names, a, dotdot)
    BY <1>3, <1>11, <1>12 DEF names
  <2>2. names # <<>> /\ Marks(Front(names), a, dotdot) /\ Front(names) \in Stacks
    BY <1>10, <2>1, MarksFront, FrontLast
  <2>3. dotdot <= Root + Len(Join(Front(names)))
    BY <2>2, MarksSize
  <2>4. Front(names) = <<>> => dotdot = Root
    <3>1. Front(names) = <<>> => a = Len(Front(names)) /\ Len(Join(Front(names))) = 0
      BY <2>2, MarksSize, JoinEmpty, EmptySeq
    <3>2. a = Len(Front(names)) => dotdot = Root + Len(Join(Front(names)))
      BY <2>2, MarksSize
    <3> QED
      BY <1>10, <3>1, <3>2
  <2>5. output' = Prefix \o Join(Front(names))
    BY <1>10, <1>12, <2>2, <2>3, <2>4, BackUpName DEF PathInv
  <2>6. f[r'] = Front(names)
    BY <1>8, <1>9, <1>10, <2>1, <2>2
  <2> QED
    BY <1>1, <1>2, <1>8, <1>12, <2>2, <2>5, <2>6, NamesHold
<1>13. CASE /\ ~MayBackUp /\ ~rooted /\ dotdot' = Len(output')
            /\ output' = output \o (IF Size > 0 THEN <<"/">> ELSE <<>>) \o Up
  <2>1. a = Len(names) /\ Marks(names, Len(names), dotdot)
    BY <1>3, <1>11, <1>13 DEF names
  <2>2. f[r'] = Append(names, Up)
    BY <1>8, <1>9, <1>10, <1>13, <2>1
  <2>3. Root = 0 /\ (Size > 0 <=> Join(names) # <<>>)
    <3>1. Root = 0
      BY <1>13 DEF Root
    <3>2. Join(names) = <<>> <=> Len(Join(names)) = 0
      BY <1>10, JoinText, EmptySeq
    <3> QED
      BY <1>10, <3>1, <3>2
  <2>4. (IF Size > 0 THEN <<"/">> ELSE <<>>) = Sep(Join(names))
    BY <2>3 DEF Sep
  <2>5. output' = Prefix \o Join(Append(names, Up))
    <3>1. output' = (output \o Sep(Join(names))) \o Up
      BY <1>13, <2>4
    <3> QED
      BY <1>10, <3>1, NameAppended, UpIsName
  <2>6. Append(names, Up) \in Stacks /\ Len(names) + 1 \in Nat
    BY <1>10, UpIsName, AppendProperties, LenProperties DEF Stacks
  <2>7. Len(output') = Root + Len(Join(Append(names, Up)))
    BY <2>5, <2>6, TextOf
  <2>8. Marks(Append(names, Up), Len(names) + 1, dotdot')
    BY <1>10, <1>13, <2>1, <2>7, MarksUp, UpIsName
  <2> QED
    BY <1>1, <1>2, <1>8, <2>2, <2>5, <2>6, <2>8, NamesHold
<1>14. CASE ~MayBackUp /\ rooted /\ UNCHANGED <<output, dotdot>>
  <2>1. f[r'] = names
    BY <1>8, <1>9, <1>10, <1>11, <1>14
  <2>2. Marks(f[r'], a, dotdot') /\ output' = Prefix \o Join(f[r'])
    BY <1>3, <1>10, <1>14, <2>1 DEF names
  <2> QED
    BY <1>1, <1>2, <1>8, <2>2, NamesHold
<1> QED
  BY <1>12, <1>13, <1>14 DEF DotDot, KeepsDotDot, Up

LEMMA ComponentNames ==
  ASSUME PathInv, NamesInv, Component
  PROVE  NamesInv'
<1> DEFINE end == CHOOSE e \in r + 1 .. length : EndsAt(e) /\ \A k \in r + 1 .. e - 1 : ~EndsAt(k)
           name == SubSeq(path, r + 1, end)
<1>1. /\ ~done /\ r < length /\ ~At(r, "/") /\ ~IsDot /\ ~IsDotDot
      /\ path' = path /\ dotdot' = dotdot /\ done' = done
      /\ r' = end /\ output' = output \o (IF NeedsSlash THEN <<"/">> ELSE <<>>) \o name
  BY DEF Component
<1>2. end \in r + 1 .. length /\ EndsAt(end) /\ \A k \in r + 1 .. end - 1 : ~EndsAt(k)
  BY <1>1, NameEnds DEF PathInv
<1> HIDE DEF end
<1>3. PICK f : NamesTo(f) /\ Written(f[r]) /\ f[r] \in Stacks
  BY <1>1, ReadNames
<1>4. PICK a \in Nat : Marks(f[r], a, dotdot)
  BY <1>3 DEF Written
<1> DEFINE names == f[r]
<1>5. f[end] = Resolve(names, name)
  BY <1>1, <1>2, <1>3, ReadNames, NameTaken DEF PathInv
<1>6. name \in NameSet /\ name # <<".">> /\ name # Up
  <2>1. /\ name \in Seq(Chars) /\ Len(name) = end - r /\ \A i \in 1 .. Len(name) : name[i] # "/"
        /\ name # <<".">>
        /\ ~(Len(name) = 2 /\ name[1] = "." /\ name[2] = ".")
    BY <1>1, <1>2, NameRead DEF PathInv
  <2>2. Len(name) # 0
    <3>1. r \in Nat /\ length \in Nat
      BY <1>1, ReadNames
    <3> QED
      BY <1>2, <2>1, <3>1
  <2>3. name # <<>>
    BY <2>2, EmptySeq
  <2>4. Len(Up) = 2 /\ Up[1] = "." /\ Up[2] = "."
    BY DEF Up
  <2> HIDE DEF name
  <2> QED
    BY <2>1, <2>3, <2>4 DEF NameSet
<1> HIDE DEF name
<1>7. f[r'] = Append(names, name)
  BY <1>1, <1>5, <1>6 DEF Resolve
<1>8. AtEdge'
  BY <1>1, <1>2, SamePath DEF AtEdge, EndsAt, At
<1>9. /\ names \in Stacks /\ output = Prefix \o Join(names) /\ Size = Root + Len(Join(names))
      /\ Len(Join(names)) \in Nat /\ Root \in Nat
  BY <1>3, TextOf DEF Written, Size
<1>10. Marks(Append(names, name), a, dotdot')
  BY <1>1, <1>4, <1>6, <1>9, MarksAppend
<1> HIDE DEF names
<1>11. NeedsSlash <=> Join(names) # <<>>
  <2>1. Join(names) = <<>> <=> Len(Join(names)) = 0
    BY <1>9, JoinText, EmptySeq
  <2>2. NeedsSlash <=> Size # Root
    BY DEF NeedsSlash, Root
  <2> QED
    BY <1>9, <2>1, <2>2
<1>12. (IF NeedsSlash THEN <<"/">> ELSE <<>>) = Sep(Join(names))
  BY <1>11 DEF Sep
<1>13. output' = Prefix \o Join(Append(names, name))
  <2>1. output' = (output \o Sep(Join(names))) \o name
    BY <1>1, <1>12
  <2> QED
    BY <1>6, <1>9, <2>1, NameAppended
<1> QED
  BY <1>1, <1>3, <1>7, <1>8, <1>10, <1>13, NamesHold

LEMMA NamesInductive == PathInv /\ NamesInv /\ [Next]_vars => NamesInv'
<1> SUFFICES ASSUME PathInv, NamesInv, [Next]_vars PROVE NamesInv'
  OBVIOUS
<1>1. CASE UNCHANGED vars
  <2>1. /\ path' = path /\ r' = r /\ output' = output /\ dotdot' = dotdot /\ done' = done
    BY <1>1 DEF vars
  <2>2. AtEdge' = AtEdge
    BY <2>1, SamePath DEF AtEdge, EndsAt, At
  <2>3. CASE ~done
    <3>1. PICK f : NamesTo(f) /\ Written(f[r]) /\ f[r] \in Stacks
      BY <2>3, ReadNames
    <3>2. PICK a \in Nat : Marks(f[r], a, dotdot)
      BY <3>1 DEF Written
    <3>3. AtEdge' /\ output' = Prefix \o Join(f[r']) /\ Marks(f[r'], a, dotdot')
      BY <2>1, <2>2, <2>3, <3>1, <3>2 DEF NamesInv, Written
    <3> QED
      BY <2>1, <2>3, <3>1, <3>3, NamesHold
  <2>4. CASE done
    BY <2>1, <2>4, SameNames DEF NamesInv, Correct
  <2> QED
    BY <2>3, <2>4
<1> QED
  BY <1>1, SkipNames, DotDotNames, ComponentNames, FinishNames DEF Next

-----------------------------------------------------------------------------
(* The theorems. *)

\* clean_path never writes more than it has read, for a path of any length
\* (the fixed buffer of parse_url).
THEOREM BufferSuffices == Spec => []OutputFits
<1>1. PathInv => OutputFits
  BY DEF PathInv, Room
<1> QED
  BY <1>1, PathInvAlways, PTL

\* No URL, of any length and over any alphabet, leads out of the directory
\* served: what clean_path makes of a rooted path is rooted and free of "..".
THEOREM RootKept == Spec => []InsideRoot
<1>1. PathInv => InsideRoot
  <2> SUFFICES ASSUME PathInv, rooted, NEW b \in Bounds(output), SubSeq(output, b[1], b[2]) = Up
               PROVE  FALSE
    BY DEF PathInv, Inside, InsideRoot
  <2>1. output \in Seq(Chars) /\ Len(output) \in Nat /\ NoUp(output)
    BY LenProperties DEF PathInv, Typed, Inside
  <2> DEFINE k == b[1]
             l == b[2]
  <2>2. /\ k \in 1 .. Len(output) /\ l \in 1 .. Len(output) /\ k <= l
        /\ k = 1 \/ output[k - 1] = "/"
        /\ l = Len(output) \/ output[l + 1] = "/"
    BY DEF Bounds
  <2>3. SubSeq(output, k, l) = Up
    OBVIOUS
  <2> HIDE DEF k, l
  <2>4. Len(Up) = 2 /\ Up[1] = "." /\ Up[2] = "."
    BY DEF Up
  <2>5. k \in Int /\ l \in Int /\ \A i \in k .. l : i \in 1 .. Len(output)
    BY <2>1, <2>2
  <2>6. \A i \in k .. l : output[i] \in Chars
    BY <2>1, <2>5, ElementOfSeq
  <2>7. /\ Len(Up) = IF k <= l THEN l - k + 1 ELSE 0
        /\ \A i \in 1 .. l - k + 1 : Up[i] = output[k + i - 1]
    BY <2>3, <2>5, <2>6, SubSeqProperties
  <2>8. l = k + 1 /\ l + 1 = k + 2 /\ l - k + 1 = 2 /\ k + 1 - 1 = k /\ k + 2 - 1 = k + 1
    <3>1. l - k + 1 = 2
      BY <2>2, <2>4, <2>7
    <3>2. k \in Int /\ l \in Int
      BY <2>5
    <3> QED
      BY <3>1, <3>2
  <2>9. output[k] = "." /\ output[k + 1] = "."
    <3>1. 1 \in 1 .. l - k + 1 /\ 2 \in 1 .. l - k + 1
      BY <2>8
    <3>2. Up[1] = output[k + 1 - 1] /\ Up[2] = output[k + 2 - 1]
      BY <2>7, <3>1
    <3> QED
      BY <2>4, <2>8, <3>2
  <2>10. k \in 1 .. Len(output) - 1
    BY <2>1, <2>2, <2>8
  <2>11. k + 1 = Len(output) \/ output[k + 2] = "/"
    BY <2>2, <2>8
  <2> QED
    BY <2>1, <2>2, <2>9, <2>10, <2>11 DEF NoUp
<1> QED
  BY <1>1, PathInvAlways, PTL

\* clean_path resolves: for every path, of any length and over any alphabet,
\* what the one pass writes is what the components of the path come to.
THEOREM PathResolved == Spec => []Correct
<1>1. NamesInv => Correct
  BY DEF NamesInv
<1>2. Init => NamesInv
  BY InitNames
<1>3. PathInv /\ NamesInv /\ [Next]_vars => NamesInv'
  BY NamesInductive
<1> QED
  BY <1>1, <1>2, <1>3, PathInvAlways, PTL DEF Spec
==============================================================================
