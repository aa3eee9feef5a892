------------------------------ MODULE ListenFds ------------------------------
(***************************************************************************)
(* The descriptors of the listening sockets on their way to the next       *)
(* generation: listen_fds=<numbers in decimal, separated by blanks>.  A    *)
(* character is its digit, or Blank.                                       *)
(***************************************************************************)
EXTENDS Integers, SequencesExt

Blank == 10
Digits == 0 .. 9

\* What the buffer is made for: "max size per pid is 5".
FiveDigits == 0 .. 99999

Decimal(n) ==
  LET Of[k \in 0 .. n] == IF k < 10 THEN <<k>> ELSE Append(Of[k \div 10], k % 10)
  IN  Of[n]

\* create_listen_fds_env: no blank after the last number.
CreateListenFdsEnv(fds) ==
  FlattenSeq([i \in 1 .. Len(fds) |->
                IF i < Len(fds) THEN Append(Decimal(fds[i]), Blank) ELSE Decimal(fds[i])])

\* The room that is allocated for the text behind "listen_fds=".
EnvRoom(n) == n * 5 + n - 1

Value(digits) == FoldLeft(LAMBDA value, digit : 10 * value + digit, 0, digits)

\* atoi(): the digits from i up to the first other character.
Atoi(env, i) ==
  LET end == CHOOSE j \in i .. (Len(env) + 1) :
               /\ j = Len(env) + 1 \/ env[j] \notin Digits
               /\ \A k \in i .. (j - 1) : env[k] \in Digits
  IN  Value(SubSeq(env, i, end - 1))

\* Where iter stands in parse_listen_fds_env: at the start and behind each blank.
Starts(env) ==
  FoldLeftDomain(LAMBDA starts, i : IF i = 1 \/ env[i - 1] = Blank THEN Append(starts, i) ELSE starts,
                 <<>>, env)

\* parse_listen_fds_env: an array of n entries, zero where the text has no number.
ParseListenFdsEnv(env, n) ==
  LET starts == Starts(env)
  IN  [k \in 1 .. n |-> IF k <= Len(starts) THEN Atoi(env, starts[k]) ELSE 0]
==============================================================================
