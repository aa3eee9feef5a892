---------------------------- MODULE UpgradeProofs ----------------------------
(***************************************************************************)
(* Theorems about Upgrade for any number of generations, of workers and of *)
(* runs of upgrade_yotta.sh: the service is kept, the pid files name the   *)
(* living, nobody stops who was not meant to, and the sockets are handed   *)
(* on.                                                                     *)
(*                                                                         *)
(* What carries them is that a generation upgrades once at most, and that  *)
(* the one that has not is the youngest: so the name of the pid file, its  *)
(* suffix and the flag "upgraded" say where in the chain a generation is.  *)
(***************************************************************************)
EXTENDS Upgrade, SequenceLemmas

-----------------------------------------------------------------------------
(* The number a text of digits stands for. *)

\* f[k] is the number of the first k digits.
ValuesTo(f, digits) ==
  /\ f[0] = 0 /\ \A k \in 0 .. Len(digits) : f[k] \in Nat
  /\ \A k \in 1 .. Len(digits) : f[k] = 10 * f[k - 1] + digits[k]
  /\ Value(digits) = f[Len(digits)]

\* A text of digits as a function.
LEMMA DigitSeq ==
  ASSUME NEW digits \in Seq(Digits)
  PROVE  /\ Len(digits) \in Nat /\ DOMAIN digits = 1 .. Len(digits)
         /\ \A k \in 1 .. Len(digits) : digits[k] \in Digits /\ digits[k] \in Nat
BY LenProperties, ElementOfSeq DEF Digits

\* Value takes one digit after the other.
LEMMA ValueRows ==
  ASSUME NEW digits \in Seq(Digits)
  PROVE  \E f : ValuesTo(f, digits)
<1> DEFINE n == Len(digits)
           D == SUBSET (1 .. n)
           step == [p \in Nat \X (1 .. n) |-> 10 * p[1] + digits[p[2]]]
           table(g) == [I \in D |-> IF I = {} THEN 0
                                    ELSE 10 * g[I \ {Max(I)}] + digits[Max(I)]]
           G == CHOOSE g : g = table(g)
<1>1. n \in Nat /\ DOMAIN digits = 1 .. n /\ \A k \in 1 .. n : digits[k] \in Nat
  BY DigitSeq
<1>2. Value(digits) = G[1 .. n]
  BY <1>1 DEF Value, FoldLeft, MapThenFoldSet
<1>3. \A v \in Nat, i \in 1 .. n : 10 * v + digits[i] \in Nat
  BY <1>1
<1>4. \A v \in Nat, i \in 1 .. n : step[<<v, i>>] \in Nat /\ step[<<v, i>>] = 10 * v + digits[i]
  BY <1>3
<1>5. PICK g \in [D -> Nat] :
        g = [I \in D |-> IF I = {} THEN 0 ELSE step[<<g[I \ {Max(I)}], Max(I)>>]]
  <2>1. 0 \in Nat /\ IsStep(step, n, Nat)
    BY <1>4 DEF IsStep
  <2>2. PICK g : IsTable(g, n, Nat, 0, step)
    <3> HIDE DEF step, n
    <3> QED
      BY <1>1, <2>1, FoldTable
  <2> HIDE DEF step, n
  <2> QED
    BY <2>2 DEF D, IsTable
<1>6. g = table(g)
  <2>1. \A I \in D : I # {} => I \ {Max(I)} \in D /\ Max(I) \in 1 .. n
    BY <1>1, MaxProperties
  <2>2. \A I \in D : I # {} => g[I \ {Max(I)}] \in Nat
    BY <2>1
  <2> HIDE DEF step, n, D
  <2>3. \A I \in D : (IF I = {} THEN 0 ELSE step[<<g[I \ {Max(I)}], Max(I)>>])
                   = (IF I = {} THEN 0 ELSE 10 * g[I \ {Max(I)}] + digits[Max(I)])
    BY <1>4, <2>1, <2>2
  <2>4. table(g) = [I \in D |-> IF I = {} THEN 0 ELSE step[<<g[I \ {Max(I)}], Max(I)>>]]
    BY <2>3
  <2> QED
    BY <1>5, <2>4
<1>7. G = table(G)
  <2> HIDE DEF table
  <2> QED
    BY <1>6
<1> HIDE DEF G
<1>8. \A I \in D : G[I] = IF I = {} THEN 0 ELSE 10 * G[I \ {Max(I)}] + digits[Max(I)]
  BY <1>7
<1> DEFINE f == [k \in 0 .. n |-> G[1 .. k]]
<1>9. f[0] = 0
  <2>1. 1 .. 0 = {} /\ {} \in D /\ 0 \in 0 .. n
    BY <1>1
  <2> HIDE DEF D
  <2> QED
    BY <1>8, <2>1
<1>10. \A k \in 1 .. n : f[k] = 10 * f[k - 1] + digits[k]
  <2> SUFFICES ASSUME NEW k \in 1 .. n PROVE f[k] = 10 * f[k - 1] + digits[k]
    OBVIOUS
  <2>1. 1 .. k \in D /\ 1 .. k # {} /\ k \in 0 .. n /\ k - 1 \in 0 .. n /\ k \in Nat /\ k # 0
    <3>1. n \in Nat
      BY <1>1
    <3> HIDE DEF n
    <3>2. k \in Nat /\ k # 0 /\ k \in 0 .. n /\ k - 1 \in 0 .. n /\ k \in 1 .. k
      BY <3>1
    <3>3. \A i \in 1 .. k : i \in 1 .. n
      BY <3>1
    <3> QED
      BY <3>2, <3>3
  <2>2. Max(1 .. k) = k /\ (1 .. k) \ {k} = 1 .. k - 1
    BY <2>1, MaxOfFirst
  <2> HIDE DEF D, n
  <2> QED
    BY <1>8, <2>1, <2>2
<1>11. \A k \in 0 .. n : f[k] \in Nat
  <2> DEFINE T == {k \in Nat : k <= n => f[k] \in Nat}
  <2>1. 0 \in T
    <3> HIDE DEF f
    <3> QED
      BY <1>9
  <2>2. \A k \in Nat : k \in T => k + 1 \in T
    <3> SUFFICES ASSUME NEW k \in Nat, k \in T, k + 1 <= n PROVE f[k + 1] \in Nat
      OBVIOUS
    <3>1. f[k] \in Nat /\ k + 1 \in 1 .. n /\ (k + 1) - 1 = k
      BY <1>1
    <3>2. f[k + 1] = 10 * f[k] + digits[k + 1]
      <4> HIDE DEF f, n, T
      <4> QED
        BY <1>10, <3>1
    <3> HIDE DEF f, n, T
    <3> QED
      BY <1>3, <3>1, <3>2
  <2>3. \A k \in Nat : k \in T
    <3> HIDE DEF T
    <3> QED
      BY <2>1, <2>2, Induct
  <2>4. \A k \in 0 .. n : k \in Nat /\ k <= n
    BY <1>1
  <2> HIDE DEF f, n
  <2> QED
    BY <2>3, <2>4
<1>12. Value(digits) = f[n]
  BY <1>1, <1>2
<1> HIDE DEF f
<1> QED
  BY <1>9, <1>10, <1>11, <1>12 DEF ValuesTo

\* A digit more: what is read so far, times ten, and the digit.
LEMMA ValueAppend ==
  ASSUME NEW digits \in Seq(Digits), NEW digit \in Digits
  PROVE  Value(digits) \in Nat /\ Value(Append(digits, digit)) = 10 * Value(digits) + digit
<1> DEFINE more == Append(digits, digit)
           n == Len(digits)
<1>1. /\ more \in Seq(Digits) /\ n \in Nat /\ Len(more) = n + 1 /\ more[n + 1] = digit
      /\ \A k \in 1 .. n : more[k] = digits[k]
  BY AppendProperties, LenProperties
<1>2. PICK f : ValuesTo(f, digits)
  BY ValueRows
<1>3. PICK g : ValuesTo(g, more)
  BY <1>1, ValueRows
<1> HIDE DEF more
<1>4. /\ f[0] = 0 /\ g[0] = 0 /\ Value(digits) = f[n] /\ Value(more) = g[n + 1]
      /\ \A k \in 1 .. n : f[k] = 10 * f[k - 1] + digits[k]
      /\ \A k \in 1 .. n + 1 : g[k] = 10 * g[k - 1] + more[k]
      /\ f[n] \in Nat
  <2>1. n \in 0 .. n
    BY <1>1
  <2> QED
    BY <1>1, <1>2, <1>3, <2>1 DEF ValuesTo
<1> HIDE DEF n
<1> DEFINE T == {k \in Nat : k <= n => f[k] = g[k]}
<1>5. 0 \in T
  BY <1>4
<1>6. \A k \in Nat : k \in T => k + 1 \in T
  <2> SUFFICES ASSUME NEW k \in Nat, k \in T, k + 1 <= n PROVE f[k + 1] = g[k + 1]
    OBVIOUS
  <2>1. k + 1 \in 1 .. n /\ k + 1 \in 1 .. n + 1 /\ (k + 1) - 1 = k /\ f[k] = g[k]
    BY <1>1
  <2> HIDE DEF T
  <2>2. f[k + 1] = 10 * f[k] + digits[k + 1]
    BY <1>4, <2>1
  <2>3. g[k + 1] = 10 * g[k] + more[k + 1]
    BY <1>4, <2>1
  <2> QED
    BY <1>1, <2>1, <2>2, <2>3
<1>7. \A k \in Nat : k \in T
  <2> HIDE DEF T
  <2> QED
    BY <1>5, <1>6, Induct
<1>8. f[n] = g[n]
  BY <1>1, <1>7
<1>9. g[n + 1] = 10 * g[n] + more[n + 1]
  <2>1. n + 1 \in 1 .. n + 1 /\ (n + 1) - 1 = n
    BY <1>1
  <2> QED
    BY <1>4, <2>1
<1> QED
  BY <1>1, <1>4, <1>8, <1>9 DEF more

LEMMA ValueOne ==
  ASSUME NEW digit \in Digits
  PROVE  Value(<<digit>>) = digit
<1>1. <<digit>> \in Seq(Digits) /\ Len(<<digit>>) = 1 /\ <<digit>>[1] = digit
  OBVIOUS
<1>2. PICK f : ValuesTo(f, <<digit>>)
  BY <1>1, ValueRows
<1>3. f[0] = 0 /\ Value(<<digit>>) = f[1] /\ f[1] = 10 * f[1 - 1] + digit
  <2>1. 1 \in 1 .. 1
    OBVIOUS
  <2> QED
    BY <1>1, <1>2, <2>1 DEF ValuesTo
<1>4. digit \in Nat
  BY DEF Digits
<1> QED
  BY <1>3, <1>4

-----------------------------------------------------------------------------
(* The digits of a number. *)

\* What Decimal computes with: one digit, or those of a tenth and one more.
IsDecimal(g, n) ==
  /\ Decimal(n) = g[n]
  /\ \A k \in 0 .. n : g[k] \in Seq(Digits)
  /\ \A k \in 0 .. n : g[k] = IF k < 10 THEN <<k>> ELSE Append(g[k \div 10], k % 10)

LEMMA Tenth ==
  ASSUME NEW k \in Nat, k >= 10
  PROVE  /\ k \div 10 \in Nat /\ k \div 10 < k /\ k % 10 \in Digits
         /\ 10 * (k \div 10) + (k % 10) = k
<1>1. k \div 10 \in Nat /\ k % 10 \in 0 .. 9 /\ 10 * (k \div 10) + (k % 10) = k
  OBVIOUS
<1> QED
  BY <1>1 DEF Digits

LEMMA DecimalRows ==
  ASSUME NEW n \in Nat
  PROVE  \E g : IsDecimal(g, n)
<1> DEFINE S == 0 .. n
           V == Seq(Digits)
           leaf == {k \in S : k < 10}
           rank == [k \in S |-> k]
           pred == [k \in S |-> k \div 10]
           base == [k \in S |-> <<k>>]
           step == [p \in S \X V |-> Append(p[2], p[1] % 10)]
           table(g) == [k \in S |-> IF k < 10 THEN <<k>> ELSE Append(g[k \div 10], k % 10)]
           G == CHOOSE g : g = table(g)
<1>1. Decimal(n) = G[n]
  BY DEF Decimal
<1>2. \A k \in S : k \in Nat /\ k <= n
  OBVIOUS
<1>3. \A k \in S : ~(k < 10) => k \div 10 \in S /\ k \div 10 < k /\ k % 10 \in Digits
  BY Tenth
<1>4. \A k \in S : k < 10 => <<k>> \in V
  BY DEF Digits
<1>5. Founded(S, V, n, rank, leaf, pred, base, step)
  <2>1. \A k \in S : k \notin leaf => pred[k] \in S /\ rank[pred[k]] < rank[k]
    <3> HIDE DEF S
    <3> QED
      BY <1>3
  <2>2. \A k \in S : k \notin leaf => \A v \in V : step[<<k, v>>] \in V
    <3> SUFFICES ASSUME NEW k \in S, k \notin leaf, NEW v \in V PROVE step[<<k, v>>] \in V
      OBVIOUS
    <3>1. step[<<k, v>>] = Append(v, k % 10)
      BY <<k, v>> \in S \X V
    <3>2. k % 10 \in Digits
      <4> HIDE DEF S
      <4> QED
        BY <1>3
    <3> HIDE DEF step
    <3> QED
      BY <3>1, <3>2, AppendProperties
  <2>3. rank \in [S -> 0 .. n] /\ \A k \in S : k \in leaf => base[k] \in V
    BY <1>4
  <2> HIDE DEF S, V, leaf, rank, pred, base, step
  <2> QED
    BY <2>1, <2>2, <2>3 DEF Founded
<1>6. PICK g : Solves(g, S, V, leaf, pred, base, step)
  <2> HIDE DEF S, V, leaf, rank, pred, base, step
  <2> QED
    BY <1>5, Recursion
<1>7. /\ g \in [S -> V]
      /\ \A k \in S : g[k] = IF k < 10 THEN <<k>> ELSE Append(g[k \div 10], k % 10)
  <2>1. g \in [S -> V] /\ \A k \in S : g[k] = IF k \in leaf THEN base[k] ELSE step[<<k, g[pred[k]]>>]
    BY <1>6 DEF Solves
  <2> SUFFICES ASSUME NEW k \in S
               PROVE  g[k] = IF k < 10 THEN <<k>> ELSE Append(g[k \div 10], k % 10)
    BY <2>1
  <2>2. CASE k < 10
    BY <2>1, <2>2
  <2>3. CASE ~(k < 10)
    <3>1. pred[k] = k \div 10 /\ k \div 10 \in S
      BY <1>3, <2>3
    <3>2. g[k \div 10] \in V
      BY <2>1, <3>1
    <3>3. step[<<k, g[k \div 10]>>] = Append(g[k \div 10], k % 10)
      <4> DEFINE v == g[k \div 10]
      <4>1. v \in V
        BY <3>2
      <4> HIDE DEF v
      <4>2. step[<<k, v>>] = Append(v, k % 10)
        BY <4>1
      <4> QED
        BY <4>2 DEF v
    <3>4. k \notin leaf
      BY <2>3
    <3> HIDE DEF step, pred, leaf, S, V
    <3> QED
      BY <2>1, <2>3, <3>1, <3>3, <3>4
  <2> QED
    BY <2>2, <2>3
<1>8. g = table(g)
  <2> HIDE DEF S, V
  <2> QED
    BY <1>7
<1>9. G = table(G)
  <2> HIDE DEF table
  <2> QED
    BY <1>8
<1> HIDE DEF G
<1>10. \A k \in S : G[k] = IF k < 10 THEN <<k>> ELSE Append(G[k \div 10], k % 10)
  BY <1>9
<1>11. \A k \in S : G[k] = g[k]
  <2> DEFINE U == {k \in S : G[k] # g[k]}
  <2> SUFFICES ASSUME U # {} PROVE FALSE
    OBVIOUS
  <2>1. U \subseteq Nat
    BY <1>2
  <2>2. PICK m \in U : \A k \in U : m <= k
    <3> HIDE DEF U
    <3> QED
      BY <2>1, LeastExists
  <2>3. m \in S /\ G[m] # g[m]
    OBVIOUS
  <2>4. CASE m < 10
    <3> HIDE DEF S, V, U
    <3> QED
      BY <1>7, <1>10, <2>3, <2>4
  <2>5. CASE ~(m < 10)
    <3>1. m \div 10 \in S /\ m \div 10 < m /\ m \in Nat /\ m \div 10 \in Nat
      BY <1>2, <1>3, <2>3, <2>5
    <3>2. m \div 10 \notin U
      <4> DEFINE k == m \div 10
      <4>1. k \in Nat /\ k < m /\ m \in Nat
        BY <3>1
      <4> HIDE DEF k, U
      <4>2. k \notin U
        BY <2>2, <4>1
      <4> QED
        BY <4>2 DEF k
    <3>3. G[m \div 10] = g[m \div 10]
      BY <3>1, <3>2
    <3> HIDE DEF S, V, U
    <3> QED
      BY <1>7, <1>10, <2>3, <2>5, <3>3
  <2> QED
    BY <2>4, <2>5
<1>12. n \in S
  OBVIOUS
<1> HIDE DEF S, V
<1>13. IsDecimal(g, n)
  <2>1. Decimal(n) = g[n]
    BY <1>1, <1>11, <1>12
  <2>2. \A k \in S : g[k] \in V
    BY <1>7
  <2> QED
    BY <1>7, <2>1, <2>2 DEF IsDecimal, S, V
<1> QED
  BY <1>13

\* Decimal writes digits that Value reads back; five of them at most for what
\* is below 100000.
LEMMA DecimalRead ==
  ASSUME NEW n \in Nat
  PROVE  /\ Decimal(n) \in Seq(Digits) /\ Len(Decimal(n)) \in Nat \ {0}
         /\ Value(Decimal(n)) = n
         /\ n \in FiveDigits => Len(Decimal(n)) <= 5
<1>1. PICK g : IsDecimal(g, n)
  BY DecimalRows
<1>2. /\ Decimal(n) = g[n] /\ \A k \in 0 .. n : g[k] \in Seq(Digits)
      /\ \A k \in 0 .. n : k < 10 => g[k] = <<k>>
      /\ \A k \in 0 .. n : ~(k < 10) => g[k] = Append(g[k \div 10], k % 10)
  BY <1>1 DEF IsDecimal
<1>3. \A k \in 0 .. n : ~(k < 10) => /\ k \div 10 \in 0 .. n /\ k \div 10 < k /\ k % 10 \in Digits
                                    /\ 10 * (k \div 10) + (k % 10) = k
  BY Tenth
<1>4. \A k \in 0 .. n : Value(g[k]) = k
  <2> DEFINE U == {k \in 0 .. n : Value(g[k]) # k}
  <2> SUFFICES ASSUME U # {} PROVE FALSE
    OBVIOUS
  <2>1. U \subseteq Nat
    OBVIOUS
  <2>2. PICK m \in U : \A k \in U : m <= k
    <3> HIDE DEF U
    <3> QED
      BY <2>1, LeastExists
  <2>3. m \in 0 .. n /\ Value(g[m]) # m
    OBVIOUS
  <2>4. CASE m < 10
    <3>1. m \in Digits
      BY <2>3, <2>4 DEF Digits
    <3>2. g[m] = <<m>>
      BY <1>2, <2>3, <2>4
    <3> QED
      BY <2>3, <3>1, <3>2, ValueOne
  <2>5. CASE ~(m < 10)
    <3> DEFINE k == m \div 10
               d == m % 10
    <3>1. /\ k \in 0 .. n /\ k < m /\ d \in Digits /\ 10 * k + d = m
          /\ g[m] = Append(g[k], d)
      BY <1>2, <1>3, <2>3, <2>5
    <3> HIDE DEF k, d
    <3>2. k \notin U
      <4>1. ~(m <= k)
        BY <2>3, <3>1
      <4> HIDE DEF U
      <4> QED
        BY <2>2, <4>1
    <3>3. Value(g[k]) = k
      BY <3>1, <3>2
    <3>4. Value(g[m]) = 10 * k + d
      BY <1>2, <3>1, <3>3, ValueAppend
    <3> QED
      BY <2>3, <3>1, <3>4
  <2> QED
    BY <2>4, <2>5
<1>5. \A k \in 0 .. n : Len(g[k]) \in Nat
  BY <1>2, LenProperties
<1>6. \A k \in 0 .. n : k < 10 => Len(g[k]) = 1
  <2>1. \A k \in 0 .. n : Len(<<k>>) = 1
    OBVIOUS
  <2> QED
    BY <1>2, <2>1
<1>7. \A k \in 0 .. n : ~(k < 10) => Len(g[k]) = Len(g[k \div 10]) + 1
  BY <1>2, <1>3, AppendProperties
<1> DEFINE Within(b, c) == \A k \in 0 .. n : k < b => Len(g[k]) <= c
<1>8. \A b, c \in Nat : 1 <= c /\ Within(b, c) => Within(10 * b, c + 1)
  <2> SUFFICES ASSUME NEW b \in Nat, NEW c \in Nat, 1 <= c, Within(b, c),
                      NEW k \in 0 .. n, k < 10 * b
               PROVE  Len(g[k]) <= c + 1
    OBVIOUS
  <2>1. CASE k < 10
    BY <1>6, <2>1
  <2>2. CASE ~(k < 10)
    <3> DEFINE t == k \div 10
               s == k % 10
    <3>1. t \in 0 .. n /\ s \in 0 .. 9 /\ 10 * t + s = k /\ Len(g[k]) = Len(g[t]) + 1
      BY <1>3, <1>7, <2>2 DEF Digits
    <3> HIDE DEF t, s
    <3>2. t < b
      BY <3>1
    <3>3. Len(g[t]) <= c /\ Len(g[t]) \in Nat
      BY <1>5, <3>1, <3>2
    <3> QED
      BY <3>1, <3>3
  <2> QED
    BY <2>1, <2>2
<1>9. Within(10, 1)
  <2>1. 1 <= 1
    OBVIOUS
  <2> QED
    BY <1>6, <2>1
<1> HIDE DEF Within
<1>10. Within(100, 2)
  <2>1. Within(10 * 10, 1 + 1)
    BY <1>8, <1>9
  <2> QED
    BY <2>1
<1>11. Within(1000, 3)
  <2>1. Within(10 * 100, 2 + 1)
    BY <1>8, <1>10
  <2> QED
    BY <2>1
<1>12. Within(10000, 4)
  <2>1. Within(10 * 1000, 3 + 1)
    BY <1>8, <1>11
  <2> QED
    BY <2>1
<1>13. \A k \in 0 .. n : k < 100000 => Len(g[k]) <= 5
  <2>1. Within(10 * 10000, 4 + 1)
    BY <1>8, <1>12
  <2>2. Within(100000, 5)
    BY <2>1
  <2> QED
    BY <2>2 DEF Within
<1>14. Len(g[n]) # 0
  <2>0. n \in 0 .. n
    OBVIOUS
  <2>1. CASE n < 10
    <3>1. Len(g[n]) = 1
      BY <1>6, <2>0, <2>1
    <3> QED
      BY <3>1
  <2>2. CASE ~(n < 10)
    <3>1. n \div 10 \in 0 .. n
      BY <1>3, <2>2
    <3> DEFINE t == n \div 10
    <3>2. Len(g[t]) \in Nat /\ Len(g[n]) = Len(g[t]) + 1
      BY <1>5, <1>7, <2>2, <3>1
    <3> HIDE DEF t
    <3> QED
      BY <3>2
  <2> QED
    BY <2>1, <2>2
<1>15. n \in 0 .. n
  OBVIOUS
<1>16. n \in FiveDigits => Len(g[n]) <= 5
  <2>1. n \in FiveDigits => n < 100000
    BY SMT DEF FiveDigits
  <2> QED
    BY <1>13, <1>15, <2>1
<1> QED
  BY <1>2, <1>4, <1>5, <1>14, <1>15, <1>16

-----------------------------------------------------------------------------
(* The text of descriptors, read back. *)

Cells == Digits \cup {Blank}

\* The text of fds: behind o[i - 1] characters the digits of the i-th, and a
\* blank unless it is the last.
Spells(env, fds, o) ==
  LET n == Len(fds) IN
  /\ o[0] = 0 /\ \A i \in 0 .. n : o[i] \in Nat
  /\ Len(env) = o[n]
  /\ \A i \in 1 .. n : \A j \in 1 .. Len(Decimal(fds[i])) :
       env[o[i - 1] + j] = Decimal(fds[i])[j]
  /\ \A i \in 1 .. n : i < n => o[i] = o[i - 1] + Len(Decimal(fds[i])) + 1 /\ env[o[i]] = Blank
  /\ o[n] = o[n - 1] + Len(Decimal(fds[n]))

\* create_listen_fds_env writes such a text.
LEMMA EnvSpells ==
  ASSUME NEW fds \in Seq(Nat), Len(fds) # 0
  PROVE  CreateListenFdsEnv(fds) \in Seq(Cells) /\ \E o : Spells(CreateListenFdsEnv(fds), fds, o)
<1> DEFINE n == Len(fds)
           env == CreateListenFdsEnv(fds)
           d(i) == Decimal(fds[i])
           pieces == [i \in 1 .. n |-> IF i < n THEN Append(d(i), Blank) ELSE d(i)]
<1>1. n \in Nat \ {0} /\ \A i \in 1 .. n : fds[i] \in Nat
  BY LenProperties, ElementOfSeq
<1>2. \A i \in 1 .. n : d(i) \in Seq(Digits) /\ d(i) \in Seq(Cells) /\ Len(d(i)) \in Nat \ {0}
  <2>1. \A s : s \in Seq(Digits) => s \in Seq(Cells)
    <3> SUFFICES ASSUME NEW s \in Seq(Digits) PROVE s \in Seq(Cells)
      OBVIOUS
    <3>1. s \in [1 .. Len(s) -> Digits] /\ Len(s) \in Nat
      BY LenProperties
    <3>2. s \in [1 .. Len(s) -> Cells]
      BY <3>1 DEF Cells
    <3> QED
      BY <3>1, <3>2, SeqDef
  <2>2. ASSUME NEW i \in 1 .. n
        PROVE  Decimal(fds[i]) \in Seq(Digits) /\ Len(Decimal(fds[i])) \in Nat \ {0}
    <3> DEFINE m == fds[i]
    <3>1. m \in Nat
      BY <1>1
    <3> HIDE DEF m
    <3>2. Decimal(m) \in Seq(Digits) /\ Len(Decimal(m)) \in Nat \ {0}
      BY <3>1, DecimalRead, Zenon
    <3> QED
      BY <3>2 DEF m
  <2> HIDE DEF n
  <2> QED
    BY <2>1, <2>2
<1>3. env = FlattenSeq(pieces)
  BY DEF CreateListenFdsEnv
<1> HIDE DEF env, n, d
<1>4. \A i \in 1 .. n : Append(d(i), Blank) \in Seq(Cells) /\ Len(Append(d(i), Blank)) = Len(d(i)) + 1
                       /\ Append(d(i), Blank)[Len(d(i)) + 1] = Blank
                       /\ \A j \in 1 .. Len(d(i)) : Append(d(i), Blank)[j] = d(i)[j]
  <2>1. Blank \in Cells
    BY DEF Cells
  <2> QED
    BY <1>2, <2>1, AppendProperties
<1>5. pieces \in Seq(Seq(Cells)) /\ Len(pieces) = n
  <2>1. \A i \in 1 .. n : (IF i < n THEN Append(d(i), Blank) ELSE d(i)) \in Seq(Cells)
    BY <1>2, <1>4
  <2>2. pieces \in [1 .. n -> Seq(Cells)]
    BY <2>1
  <2>3. pieces \in Seq(Seq(Cells))
    <3> HIDE DEF pieces
    <3> QED
      BY <1>1, <2>2, SeqDef
  <2>4. Len(pieces) \in Nat /\ DOMAIN pieces = 1 .. Len(pieces)
    <3> HIDE DEF pieces
    <3> QED
      BY <2>3, LenProperties
  <2>5. DOMAIN pieces = 1 .. n
    OBVIOUS
  <2> HIDE DEF pieces
  <2>6. \A a \in Nat, b \in Nat : 1 .. a = 1 .. b /\ b # 0 => a = b
    <3> SUFFICES ASSUME NEW a \in Nat, NEW b \in Nat, 1 .. a = 1 .. b, b # 0, a # b PROVE FALSE
      OBVIOUS
    <3>1. b \in 1 .. a
      OBVIOUS
    <3>2. a \in 1 .. b
      BY <3>1
    <3> QED
      BY <3>1, <3>2
  <2>7. Len(pieces) = n
    <3>1. 1 .. Len(pieces) = 1 .. n
      BY <2>4, <2>5
    <3> QED
      BY <1>1, <2>4, <2>6, <3>1
  <2> QED
    BY <2>3, <2>7
<1>6. \A i \in 1 .. n : pieces[i] = IF i < n THEN Append(d(i), Blank) ELSE d(i)
  OBVIOUS
<1> HIDE DEF pieces
<1>7. env \in Seq(Cells)
  BY <1>1, <1>3, <1>5, FlattenLays
<1>8. PICK o : Lays(env, pieces, o)
  BY <1>1, <1>3, <1>5, FlattenLays
<1>9. /\ o[0] = 0 /\ \A i \in 0 .. n : o[i] \in Nat
      /\ \A i \in 1 .. n : o[i] = o[i - 1] + Len(pieces[i])
      /\ Len(env) = o[n]
      /\ \A i \in 1 .. n : \A j \in 1 .. Len(pieces[i]) : env[o[i - 1] + j] = pieces[i][j]
  BY <1>5, <1>8 DEF Lays
<1>10. \A i \in 1 .. n : Len(pieces[i]) = Len(d(i)) + (IF i < n THEN 1 ELSE 0)
  <2> SUFFICES ASSUME NEW i \in 1 .. n
               PROVE  Len(pieces[i]) = Len(d(i)) + (IF i < n THEN 1 ELSE 0)
    OBVIOUS
  <2>1. CASE i < n
    BY <1>4, <1>6, <2>1
  <2>2. CASE ~(i < n)
    <3>1. Len(d(i)) \in Nat
      BY <1>2
    <3>2. Len(d(i)) + 0 = Len(d(i))
      BY <3>1
    <3> QED
      BY <1>6, <2>2, <3>2
  <2> QED
    BY <2>1, <2>2
<1>11. ASSUME NEW i \in 1 .. n, NEW j \in 1 .. Len(d(i))
       PROVE  env[o[i - 1] + j] = d(i)[j]
  <2>1. j \in 1 .. Len(pieces[i])
    BY <1>2, <1>10
  <2>2. pieces[i][j] = d(i)[j]
    BY <1>4, <1>6
  <2> QED
    BY <1>9, <2>1, <2>2
<1>12. ASSUME NEW i \in 1 .. n, i < n
       PROVE  o[i] = o[i - 1] + Len(d(i)) + 1 /\ env[o[i]] = Blank
  <2> DEFINE l == Len(d(i))
             k == l + 1
             a == o[i - 1]
  <2>1. l \in Nat /\ k \in 1 .. Len(pieces[i]) /\ a \in Nat /\ o[i] = a + k /\ a + k = a + l + 1
    <3>1. l \in Nat /\ Len(pieces[i]) = k
      BY <1>2, <1>10, <1>12
    <3>2. a \in Nat
      <4>1. i - 1 \in 0 .. n
        BY <1>1
      <4> QED
        BY <1>9, <4>1
    <3>3. o[i] = a + Len(pieces[i])
      BY <1>9
    <3>4. k \in 1 .. k /\ a + k = a + l + 1
      <4> HIDE DEF l, a
      <4> QED
        BY <3>1, <3>2
    <3> QED
      BY <3>1, <3>2, <3>3, <3>4
  <2>2. pieces[i][k] = Blank
    BY <1>4, <1>6, <1>12
  <2> HIDE DEF k
  <2>3. env[o[i - 1] + k] = Blank
    BY <1>9, <2>1, <2>2
  <2> QED
    BY <2>1, <2>3
<1>13. o[n] = o[n - 1] + Len(d(n))
  <2>1. n \in 1 .. n /\ ~(n < n) /\ Len(d(n)) + 0 = Len(d(n))
    BY <1>1, <1>2
  <2> QED
    BY <1>9, <1>10, <2>1
<1>14. Spells(env, fds, o)
  BY <1>9, <1>11, <1>12, <1>13 DEF Spells, n, d
<1> QED
  BY <1>7, <1>14 DEF env

\* The room that is allocated: five digits and a blank for each.
LEMMA EnvFits ==
  ASSUME NEW fds \in Seq(Nat), Len(fds) # 0, NEW env, NEW o, Spells(env, fds, o)
  PROVE  /\ Len(env) # 0
         /\ (\A i \in 1 .. Len(fds) : fds[i] \in FiveDigits) => Len(env) <= EnvRoom(Len(fds))
<1> DEFINE n == Len(fds)
           d(i) == Decimal(fds[i])
           w(i) == Len(d(i))
<1>1. /\ n \in Nat \ {0}
      /\ \A i \in 1 .. n : w(i) \in Nat \ {0} /\ (fds[i] \in FiveDigits => w(i) <= 5)
  <2>1. n \in Nat \ {0} /\ \A i \in 1 .. n : fds[i] \in Nat
    BY LenProperties, ElementOfSeq
  <2>2. ASSUME NEW i \in 1 .. n
        PROVE  w(i) \in Nat \ {0} /\ (fds[i] \in FiveDigits => w(i) <= 5)
    <3> DEFINE m == fds[i]
    <3>1. m \in Nat
      BY <2>1
    <3> HIDE DEF m
    <3>2. Len(Decimal(m)) \in Nat \ {0} /\ (m \in FiveDigits => Len(Decimal(m)) <= 5)
      BY <3>1, DecimalRead, Zenon
    <3> QED
      BY <3>2 DEF m
  <2> QED
    BY <2>1, <2>2
<1>2. /\ o[0] = 0 /\ \A i \in 0 .. n : o[i] \in Nat
      /\ Len(env) = o[n] /\ o[n] = o[n - 1] + w(n)
      /\ \A i \in 1 .. n : i < n => o[i] = o[i - 1] + w(i) + 1
  BY DEF Spells
<1> HIDE DEF n, w
<1>3. n \in 1 .. n /\ n - 1 \in 0 .. n
  BY <1>1
<1>4. Len(env) # 0
  <2>1. o[n - 1] \in Nat /\ w(n) \in Nat \ {0}
    BY <1>1, <1>2, <1>3
  <2> QED
    BY <1>2, <2>1
<1>5. ASSUME \A i \in 1 .. n : fds[i] \in FiveDigits
      PROVE  Len(env) <= EnvRoom(n)
  <2> DEFINE T == {i \in Nat : i < n => o[i] <= 6 * i}
  <2>1. 0 \in T
    BY <1>2
  <2>2. \A i \in Nat : i \in T => i + 1 \in T
    <3> SUFFICES ASSUME NEW i \in Nat, i \in T, i + 1 < n PROVE o[i + 1] <= 6 * (i + 1)
      OBVIOUS
    <3> DEFINE k == i + 1
    <3>1. k \in 1 .. n /\ k < n /\ k - 1 = i /\ i \in 0 .. n /\ i < n /\ k \in Nat
      BY <1>1
    <3>2. o[i] <= 6 * i
      BY <3>1
    <3> HIDE DEF k, T
    <3>3. w(k) \in Nat /\ w(k) <= 5 /\ o[i] \in Nat /\ o[k] = o[i] + w(k) + 1
      BY <1>1, <1>2, <1>5, <3>1
    <3>4. o[k] <= 6 * i + 6
      BY <3>2, <3>3
    <3> QED
      BY <3>4 DEF k
  <2>3. \A i \in Nat : i \in T
    <3> HIDE DEF T
    <3> QED
      BY <2>1, <2>2, Induct
  <2>4. o[n - 1] <= 6 * (n - 1)
    <3>1. n - 1 \in Nat /\ n - 1 < n
      BY <1>1
    <3> QED
      BY <2>3, <3>1
  <2>5. o[n - 1] \in Nat /\ w(n) \in Nat /\ w(n) <= 5
    BY <1>1, <1>2, <1>3, <1>5
  <2>6. o[n - 1] + w(n) <= n * 5 + n - 1
    BY <1>1, <2>4, <2>5
  <2> QED
    BY <1>2, <2>6 DEF EnvRoom
<1> QED
  BY <1>4, <1>5 DEF n

-----------------------------------------------------------------------------
(* Where parse_listen_fds_env starts to read a number. *)

\* One step of Starts.
Mark(env, starts, i) == IF i = 1 \/ env[i - 1] = Blank THEN Append(starts, i) ELSE starts

\* f[k] are the starts in the first k characters.
StartsTo(f, env) ==
  /\ f[0] = <<>>
  /\ \A k \in 1 .. Len(env) : f[k] = Mark(env, f[k - 1], k)
  /\ Starts(env) = f[Len(env)]

LEMMA StartsRows ==
  ASSUME NEW env \in Seq(Cells)
  PROVE  \E f : StartsTo(f, env)
<1> DEFINE n == Len(env)
           D == SUBSET (1 .. n)
           V == Seq(Nat)
           step == [p \in V \X (1 .. n) |-> Mark(env, p[1], p[2])]
           index == [i \in DOMAIN env |-> i]
           full(g) == [I \in SUBSET DOMAIN index |->
                         IF I = {} THEN <<>> ELSE Mark(env, g[I \ {Max(I)}], index[Max(I)])]
<1>1. n \in Nat /\ DOMAIN env = 1 .. n
  BY LenProperties
<1>2. Starts(env) = (CHOOSE g : g = full(g))[1 .. n]
  <2>1. DOMAIN index = 1 .. n
    BY <1>1
  <2>2. Starts(env) = (CHOOSE g : g = full(g))[DOMAIN index]
    BY DEF Starts, FoldLeftDomain, FoldLeft, MapThenFoldSet, Mark
  <2> QED
    BY <2>1, <2>2
<1>3. \A v \in V, i \in 1 .. n : step[<<v, i>>] \in V /\ step[<<v, i>>] = Mark(env, v, i)
  <2>1. \A v \in V, i \in 1 .. n : Mark(env, v, i) \in V
    <3> SUFFICES ASSUME NEW v \in V, NEW i \in 1 .. n PROVE Mark(env, v, i) \in V
      OBVIOUS
    <3>1. i \in Nat
      BY <1>1
    <3>2. Append(v, i) \in V
      BY <3>1, AppendProperties
    <3> QED
      BY <3>2 DEF Mark
  <2> QED
    BY <2>1
<1>4. PICK g \in [D -> V] :
        g = [I \in D |-> IF I = {} THEN <<>> ELSE step[<<g[I \ {Max(I)}], Max(I)>>]]
  <2>1. <<>> \in V /\ IsStep(step, n, V)
    BY <1>3, EmptySeq DEF IsStep
  <2>2. PICK g : IsTable(g, n, V, <<>>, step)
    <3> HIDE DEF V, step, n
    <3> QED
      BY <1>1, <2>1, FoldTable
  <2> HIDE DEF V, step, n
  <2> QED
    BY <2>2 DEF D, IsTable
<1>5. \A I \in D : I # {} => I \ {Max(I)} \in D /\ Max(I) \in 1 .. n
  BY <1>1, MaxProperties
<1>6. g = full(g)
  <2>1. \A I \in D : I # {} => g[I \ {Max(I)}] \in V
    BY <1>5
  <2>2. DOMAIN index = 1 .. n /\ \A i \in 1 .. n : index[i] = i
    BY <1>1
  <2> HIDE DEF V, step, n, index
  <2>3. full(g) = [I \in D |-> IF I = {} THEN <<>> ELSE Mark(env, g[I \ {Max(I)}], index[Max(I)])]
    BY <2>2
  <2> HIDE DEF D, full
  <2>4. \A I \in D : (IF I = {} THEN <<>> ELSE step[<<g[I \ {Max(I)}], Max(I)>>])
                   = (IF I = {} THEN <<>> ELSE Mark(env, g[I \ {Max(I)}], index[Max(I)]))
    BY <1>3, <1>5, <2>1, <2>2
  <2> QED
    BY <1>4, <2>3, <2>4
<1> DEFINE H == CHOOSE h : h = full(h)
<1>7. H = full(H)
  <2> HIDE DEF full
  <2> QED
    BY <1>6
<1> HIDE DEF H
<1>8. \A I \in D : H[I] = IF I = {} THEN <<>> ELSE Mark(env, H[I \ {Max(I)}], Max(I))
  <2>1. DOMAIN index = 1 .. n /\ \A i \in 1 .. n : index[i] = i
    BY <1>1
  <2>2. \A I \in D : H[I] = IF I = {} THEN <<>> ELSE Mark(env, H[I \ {Max(I)}], index[Max(I)])
    <3> HIDE DEF index, n
    <3> QED
      BY <1>7, <2>1
  <2> HIDE DEF index, n, D
  <2> QED
    BY <1>5, <2>1, <2>2
<1> DEFINE f == [k \in 0 .. n |-> H[1 .. k]]
<1>9. f[0] = <<>>
  <2>1. 1 .. 0 = {} /\ {} \in D /\ 0 \in 0 .. n
    BY <1>1
  <2> HIDE DEF D
  <2> QED
    BY <1>8, <2>1
<1>10. \A k \in 1 .. n : f[k] = Mark(env, f[k - 1], k)
  <2> SUFFICES ASSUME NEW k \in 1 .. n PROVE f[k] = Mark(env, f[k - 1], k)
    OBVIOUS
  <2>1. 1 .. k \in D /\ 1 .. k # {} /\ k \in 0 .. n /\ k - 1 \in 0 .. n /\ k \in Nat /\ k # 0
    <3>1. n \in Nat
      BY <1>1
    <3> HIDE DEF n
    <3>2. k \in Nat /\ k # 0 /\ k \in 0 .. n /\ k - 1 \in 0 .. n /\ k \in 1 .. k
      BY <3>1
    <3>3. \A i \in 1 .. k : i \in 1 .. n
      BY <3>1
    <3> QED
      BY <3>2, <3>3
  <2>2. Max(1 .. k) = k /\ (1 .. k) \ {k} = 1 .. k - 1
    BY <2>1, MaxOfFirst
  <2> HIDE DEF D, n
  <2> QED
    BY <1>8, <2>1, <2>2
<1>11. Starts(env) = f[n]
  BY <1>1, <1>2 DEF H
<1> HIDE DEF f
<1> QED
  BY <1>9, <1>10, <1>11 DEF StartsTo

-----------------------------------------------------------------------------
\* Where the numbers of a spelled text begin.
Begins(o, n) == [k \in 1 .. n |-> o[k - 1] + 1]

\* The digits of the i-th number and the places around it.
LEMMA SpelledPart ==
  ASSUME NEW fds \in Seq(Nat), NEW env, NEW o, Spells(env, fds, o), NEW i \in 1 .. Len(fds)
  PROVE  /\ o[i - 1] \in Nat /\ o[i] \in Nat /\ i - 1 \in 0 .. Len(fds) /\ fds[i] \in Nat
         /\ Decimal(fds[i]) \in Seq(Digits) /\ Len(Decimal(fds[i])) \in Nat \ {0}
         /\ Value(Decimal(fds[i])) = fds[i]
         /\ \A j \in 1 .. Len(Decimal(fds[i])) :
              env[o[i - 1] + j] = Decimal(fds[i])[j] /\ env[o[i - 1] + j] \in Digits
         /\ i < Len(fds) => o[i] = o[i - 1] + Len(Decimal(fds[i])) + 1 /\ env[o[i]] = Blank
         /\ i = Len(fds) => o[i] = o[i - 1] + Len(Decimal(fds[i])) /\ o[i] = Len(env)
<1> DEFINE m == fds[i]
           n == Len(fds)
<1>1. m \in Nat /\ n \in Nat
  BY LenProperties, ElementOfSeq
<1>2. i - 1 \in 0 .. n /\ i \in 0 .. n
  BY <1>1
<1>3. /\ o[i - 1] \in Nat /\ o[i] \in Nat
      /\ \A j \in 1 .. Len(Decimal(m)) : env[o[i - 1] + j] = Decimal(m)[j]
      /\ i < n => o[i] = o[i - 1] + Len(Decimal(m)) + 1 /\ env[o[i]] = Blank
      /\ i = n => o[i] = o[i - 1] + Len(Decimal(m)) /\ o[i] = Len(env)
  BY <1>2 DEF Spells
<1> HIDE DEF m, n
<1>4. /\ Decimal(m) \in Seq(Digits) /\ Len(Decimal(m)) \in Nat \ {0}
      /\ Value(Decimal(m)) = m
  BY <1>1, DecimalRead
<1>5. \A j \in 1 .. Len(Decimal(m)) : Decimal(m)[j] \in Digits
  BY <1>4, ElementOfSeq
<1> QED
  BY <1>1, <1>2, <1>3, <1>4, <1>5 DEF m, n

\* One more begins behind the i-th number and its blank.
LEMMA BeginsNext ==
  ASSUME NEW o, NEW i \in Nat, \A k \in 0 .. i : o[k] \in Nat
  PROVE  /\ Begins(o, i) \in Seq(Nat) /\ Len(Begins(o, i)) = i
         /\ Append(Begins(o, i), o[i] + 1) = Begins(o, i + 1)
<1>0. \A k \in Nat : (\A l \in 0 .. k - 1 : o[l] \in Nat) =>
        Begins(o, k) \in Seq(Nat) /\ Len(Begins(o, k)) = k
  <2> SUFFICES ASSUME NEW k \in Nat, \A l \in 0 .. k - 1 : o[l] \in Nat
               PROVE  Begins(o, k) \in Seq(Nat) /\ Len(Begins(o, k)) = k
    OBVIOUS
  <2>1. \A l \in 1 .. k : o[l - 1] + 1 \in Nat
    <3>1. \A l \in 1 .. k : l - 1 \in 0 .. k - 1
      OBVIOUS
    <3>2. \A l \in 1 .. k : o[l - 1] \in Nat
      BY <3>1
    <3> QED
      BY <3>2
  <2>2. Begins(o, k) \in [1 .. k -> Nat]
    BY <2>1 DEF Begins
  <2>3. Begins(o, k) \in Seq(Nat)
    BY <2>2, SeqDef
  <2>4. Len(Begins(o, k)) = k
    BY DEF Begins
  <2> QED
    BY <2>3, <2>4
<1>1. Begins(o, i) \in Seq(Nat) /\ Len(Begins(o, i)) = i
  <2>1. \A l \in 0 .. i - 1 : o[l] \in Nat
    OBVIOUS
  <2> QED
    BY <1>0, <2>1
<1>2. Begins(o, i + 1) \in Seq(Nat) /\ Len(Begins(o, i + 1)) = i + 1
  <2>1. i + 1 \in Nat /\ \A l \in 0 .. (i + 1) - 1 : l \in 0 .. i
    OBVIOUS
  <2> QED
    BY <1>0, <2>1
<1>3. o[i] + 1 \in Nat
  OBVIOUS
<1> DEFINE s == Begins(o, i)
           t == Begins(o, i + 1)
           e == o[i] + 1
<1>4. /\ Append(s, e) \in Seq(Nat) /\ Len(Append(s, e)) = i + 1
      /\ \A k \in 1 .. i : Append(s, e)[k] = s[k]
      /\ Append(s, e)[i + 1] = e
  <2> HIDE DEF s, e
  <2>1. s \in Seq(Nat) /\ e \in Nat /\ Len(s) = i
    BY <1>1, <1>3 DEF s, e
  <2> QED
    BY <2>1, AppendProperties
<1>5. ASSUME NEW k \in 1 .. i + 1 PROVE Append(s, e)[k] = t[k]
  <2>1. CASE k = i + 1
    <3>1. t[i + 1] = o[(i + 1) - 1] + 1 /\ (i + 1) - 1 = i
      BY DEF Begins
    <3> QED
      BY <1>4, <2>1, <3>1
  <2>2. CASE k # i + 1
    <3>1. k \in 1 .. i
      BY <2>2
    <3>2. t[k] = o[k - 1] + 1 /\ s[k] = o[k - 1] + 1
      BY <3>1 DEF Begins
    <3> QED
      BY <1>4, <3>1, <3>2
  <2> QED
    BY <2>1, <2>2
<1>6. Append(s, e) = t
  <2>1. t \in Seq(Nat) /\ Len(t) = i + 1
    BY <1>2
  <2> HIDE DEF s, t, e
  <2> QED
    BY <1>4, <1>5, <2>1, SeqEqual
<1> QED
  BY <1>1, <1>6

\* There is a start where each number begins, and nowhere else.
LEMMA StartsSpelled ==
  ASSUME NEW fds \in Seq(Nat), Len(fds) # 0, NEW env \in Seq(Cells), NEW o, Spells(env, fds, o)
  PROVE  Starts(env) = Begins(o, Len(fds))
<1> DEFINE n == Len(fds)
           w(i) == Len(Decimal(fds[i]))
<1>1. n \in Nat \ {0} /\ Len(env) \in Nat
  BY LenProperties
<1>2. o[0] = 0 /\ Len(env) = o[n] /\ \A i \in 0 .. n : o[i] \in Nat
  BY DEF Spells
<1>3. \A i \in 1 .. n :
        /\ o[i - 1] \in Nat /\ o[i] \in Nat /\ i - 1 \in 0 .. n /\ w(i) \in Nat \ {0}
        /\ \A j \in 1 .. w(i) : env[o[i - 1] + j] \in Digits
        /\ i < n => o[i] = o[i - 1] + w(i) + 1 /\ env[o[i]] = Blank
        /\ i = n => o[i] = o[i - 1] + w(i)
  BY SpelledPart
<1>4. PICK f : StartsTo(f, env)
  BY StartsRows
<1>5. f[0] = <<>> /\ Starts(env) = f[o[n]]
      /\ \A k \in 1 .. o[n] : f[k] = Mark(env, f[k - 1], k)
  BY <1>2, <1>4 DEF StartsTo
<1> HIDE DEF n, w
<1>6. \A i \in 1 .. n : o[i - 1] < o[i] /\ i \in Nat /\ (i < n \/ i = n)
  <2> SUFFICES ASSUME NEW i \in 1 .. n PROVE o[i - 1] < o[i] /\ i \in Nat /\ (i < n \/ i = n)
    OBVIOUS
  <2>1. i \in Nat /\ (i < n \/ i = n)
    BY <1>1
  <2>2. o[i - 1] \in Nat /\ w(i) \in Nat \ {0}
    BY <1>3
  <2>3. o[i] = o[i - 1] + w(i) + 1 \/ o[i] = o[i - 1] + w(i)
    BY <1>3, <2>1
  <2> QED
    BY <2>1, <2>2, <2>3
<1> DEFINE T == {c \in Nat : c \in 1 .. o[n] =>
                   \A i \in 1 .. n : o[i - 1] < c /\ c <= o[i] => f[c] = Begins(o, i)}
<1>7. 0 \in T
  OBVIOUS
<1>8. \A c \in Nat : c \in T => c + 1 \in T
  <2>0. \A c \in Nat : c + 1 \in Nat
    OBVIOUS
  <2> SUFFICES ASSUME NEW c \in Nat, c \in T, c + 1 \in 1 .. o[n], NEW i \in 1 .. n,
                      o[i - 1] < c + 1, c + 1 <= o[i]
               PROVE  f[c + 1] = Begins(o, i)
    BY <2>0
  <2> DEFINE e == c + 1
             a == o[i - 1]
             b == o[i]
  <2>1. /\ e \in Nat /\ e - 1 = c /\ e \in 1 .. o[n] /\ a < e /\ e <= b
        /\ (c # 0 => c \in 1 .. o[n] /\ e # 1)
    <3>1. o[n] \in Nat
      BY <1>1, <1>2
    <3> QED
      BY <3>1
  <2>2. a \in Nat /\ b \in Nat /\ i - 1 \in 0 .. n /\ w(i) \in Nat \ {0}
    BY <1>3
  <2>3. \A k \in 1 .. n : c # 0 /\ o[k - 1] < c /\ c <= o[k] => f[c] = Begins(o, k)
    BY <2>1
  <2> HIDE DEF T, e
  <2>4. f[e] = Mark(env, f[c], e)
    BY <1>5, <2>1
  <2>5. CASE e = a + 1
    <3>1. c = a
      BY <2>1, <2>2, <2>5
    <3>2. f[c] = Begins(o, i - 1) /\ (e = 1 \/ env[e - 1] = Blank)
      <4>1. CASE i = 1
        <5>1. a = 0 /\ i - 1 = 0
          BY <1>2, <4>1
        <5>2. Begins(o, 0) = <<>>
          <6>1. Begins(o, 0) \in Seq(Nat) /\ Len(Begins(o, 0)) = 0
            <7>1. 0 \in Nat /\ \A k \in 0 .. 0 : o[k] \in Nat
              <8>1. \A k \in 0 .. 0 : k = 0
                OBVIOUS
              <8> QED
                BY <1>2, <8>1
            <7> QED
              BY <7>1, BeginsNext
          <6> QED
            BY <6>1, EmptySeq
        <5>3. e = 1
          <6> HIDE DEF a
          <6> QED
            BY <2>5, <5>1
        <5>4. f[c] = <<>>
          BY <1>5, <3>1, <5>1
        <5> QED
          BY <5>1, <5>2, <5>3, <5>4
      <4>2. CASE i # 1
        <5> DEFINE h == i - 1
        <5>1. h \in 1 .. n /\ h < n
          BY <1>1, <4>2
        <5>2. o[h] = a
          OBVIOUS
        <5> HIDE DEF h, a
        <5>3. o[h - 1] < o[h] /\ o[h - 1] \in Nat /\ env[o[h]] = Blank
          BY <1>3, <1>6, <5>1
        <5>4. c # 0 /\ o[h - 1] < c /\ c <= o[h]
          BY <2>2, <3>1, <5>2, <5>3
        <5>5. f[c] = Begins(o, h)
          BY <2>3, <5>1, <5>4
        <5>6. env[e - 1] = Blank
          BY <2>1, <3>1, <5>2, <5>3
        <5> QED
          BY <5>5, <5>6 DEF h
      <4> QED
        BY <4>1, <4>2
    <3>3. Append(Begins(o, i - 1), o[i - 1] + 1) = Begins(o, i)
      <4> DEFINE h == i - 1
      <4>1. h \in Nat /\ h + 1 = i /\ \A k \in 0 .. h : k \in 0 .. n
        BY <1>1
      <4> HIDE DEF h
      <4>2. \A k \in 0 .. h : o[k] \in Nat
        BY <1>2, <4>1
      <4>3. Append(Begins(o, h), o[h] + 1) = Begins(o, h + 1)
        BY <4>1, <4>2, BeginsNext
      <4> QED
        BY <4>1, <4>3 DEF h
    <3>4. f[e] = Append(f[c], e)
      BY <2>4, <3>2 DEF Mark
    <3>5. f[e] = Begins(o, i)
      BY <2>5, <3>2, <3>3, <3>4
    <3> QED
      BY <3>5 DEF e
  <2>6. CASE e # a + 1
    <3> DEFINE j == c - a
    <3>1. c # 0 /\ a < c /\ c <= b /\ e # 1
      <4> HIDE DEF a, b
      <4> QED
        BY <2>1, <2>2, <2>6
    <3>2. f[c] = Begins(o, i)
      BY <2>3, <3>1
    <3>3. j \in 1 .. w(i) /\ a + j = c
      <4>1. b = a + w(i) + 1 \/ b = a + w(i)
        BY <1>3, <1>6
      <4> HIDE DEF a, b
      <4> QED
        BY <2>1, <2>2, <3>1, <4>1
    <3> HIDE DEF j
    <3>4. env[a + j] \in Digits
      BY <1>3, <3>3
    <3>5. env[e - 1] # Blank
      <4>1. e - 1 = a + j
        BY <2>1, <3>3
      <4>2. Blank \notin Digits
        BY DEF Digits, Blank
      <4> HIDE DEF a
      <4> QED
        BY <3>4, <4>1, <4>2
    <3>6. f[e] = f[c]
      BY <2>4, <3>1, <3>5 DEF Mark
    <3> QED
      BY <3>2, <3>6 DEF e
  <2> QED
    BY <2>5, <2>6
<1>9. \A c \in Nat : c \in T
  <2> HIDE DEF T
  <2> QED
    BY <1>7, <1>8, Induct
<1>10. n \in 1 .. n /\ o[n] \in Nat /\ o[n - 1] \in Nat /\ o[n - 1] < o[n]
  <2>1. n \in 1 .. n
    BY <1>1
  <2> QED
    BY <1>3, <1>6, <2>1
<1>11. o[n] \in 1 .. o[n] /\ o[n] <= o[n]
  BY <1>10
<1>12. f[o[n]] = Begins(o, n)
  BY <1>9, <1>10, <1>11
<1> QED
  BY <1>5, <1>12 DEF n

\* No number ends behind the end of the text.
LEMMA NumbersInText ==
  ASSUME NEW fds \in Seq(Nat), Len(fds) # 0, NEW env, NEW o, Spells(env, fds, o)
  PROVE  \A i \in 0 .. Len(fds) : o[i] <= Len(env)
<1> DEFINE n == Len(fds)
           T == {k \in Nat : k <= n => o[n - k] <= o[n]}
<1>1. n \in Nat \ {0}
  BY LenProperties
<1>2. Len(env) = o[n] /\ \A i \in 0 .. n : o[i] \in Nat
  BY DEF Spells
<1>3. \A i \in 1 .. n : o[i - 1] <= o[i]
  <2> SUFFICES ASSUME NEW i \in 1 .. n PROVE o[i - 1] <= o[i]
    OBVIOUS
  <2> DEFINE w == Len(Decimal(fds[i]))
  <2>1. /\ o[i - 1] \in Nat /\ o[i] \in Nat /\ w \in Nat
        /\ i < n => o[i] = o[i - 1] + w + 1
        /\ i = n => o[i] = o[i - 1] + w
    BY SpelledPart
  <2> HIDE DEF w, n
  <2>2. i < n \/ i = n
    BY <1>1
  <2> QED
    BY <2>1, <2>2
<1> HIDE DEF n
<1>4. 0 \in T
  <2>1. n - 0 = n /\ o[n] \in Nat
    <3>1. n \in 0 .. n /\ n - 0 = n
      BY <1>1
    <3> QED
      BY <1>2, <3>1
  <2>2. o[n] <= o[n]
    BY <2>1
  <2> QED
    BY <2>1, <2>2
<1>5. \A k \in Nat : k \in T => k + 1 \in T
  <2>0. \A k \in Nat : k + 1 \in Nat
    OBVIOUS
  <2> SUFFICES ASSUME NEW k \in Nat, k \in T, k + 1 <= n PROVE o[n - (k + 1)] <= o[n]
    BY <2>0
  <2> DEFINE i == n - k
             j == n - (k + 1)
  <2>1. i \in 1 .. n /\ i - 1 = j /\ i \in 0 .. n /\ j \in 0 .. n /\ n \in 0 .. n /\ k <= n
    BY <1>1
  <2>2. o[i] <= o[n]
    BY <2>1
  <2> HIDE DEF T, i, j
  <2>3. o[j] <= o[i] /\ o[j] \in Nat /\ o[i] \in Nat /\ o[n] \in Nat
    BY <1>2, <1>3, <2>1
  <2>4. o[j] <= o[n]
    BY <2>2, <2>3
  <2> QED
    BY <2>4 DEF j
<1>6. \A k \in Nat : k \in T
  <2> HIDE DEF T
  <2> QED
    BY <1>4, <1>5, Induct
<1>7. ASSUME NEW i \in 0 .. n PROVE o[i] <= o[n]
  <2>1. n - i \in Nat /\ n - i <= n /\ n - (n - i) = i
    BY <1>1
  <2> QED
    BY <1>6, <2>1
<1> QED
  BY <1>2, <1>7 DEF n

\* atoi, called where the i-th number begins, stops at its blank.
LEMMA AtoiSpelled ==
  ASSUME NEW fds \in Seq(Nat), Len(fds) # 0, NEW env \in Seq(Cells), NEW o, Spells(env, fds, o),
         NEW i \in 1 .. Len(fds)
  PROVE  Atoi(env, o[i - 1] + 1) = fds[i]
<1> DEFINE d == Decimal(fds[i])
           w == Len(d)
           a == o[i - 1] + 1
           l == Len(env)
           end == a + w
           Ends(j) == /\ j = l + 1 \/ env[j] \notin Digits
                      /\ \A k \in a .. (j - 1) : env[k] \in Digits
<1>1. /\ o[i - 1] \in Nat /\ o[i] \in Nat /\ d \in Seq(Digits) /\ w \in Nat \ {0}
      /\ Value(d) = fds[i]
      /\ \A j \in 1 .. w : env[o[i - 1] + j] = d[j] /\ env[o[i - 1] + j] \in Digits
      /\ i < Len(fds) => o[i] = o[i - 1] + w + 1 /\ env[o[i]] = Blank
      /\ i = Len(fds) => o[i] = o[i - 1] + w /\ o[i] = l
  BY SpelledPart
<1>2. l \in Nat /\ Len(fds) \in Nat
  BY LenProperties
<1>3. o[i] <= l
  <2>1. i \in 0 .. Len(fds)
    BY <1>2
  <2> QED
    BY <2>1, NumbersInText
<1>4. i < Len(fds) \/ i = Len(fds)
  BY <1>2
<1> HIDE DEF d, w, l
<1>5. /\ end \in a .. l + 1 /\ a \in Nat /\ end \in Nat /\ a \in Int /\ end - 1 \in Int
      /\ end - 1 - a + 1 = w /\ (a <= end - 1)
  <2> DEFINE b == o[i - 1]
             c == o[i]
  <2>1. b \in Nat /\ c \in Nat /\ w \in Nat \ {0} /\ c <= l /\ (c = b + w + 1 \/ c = b + w)
    BY <1>1, <1>3, <1>4
  <2> HIDE DEF b, c
  <2>2. b + 1 + w \in (b + 1) .. (l + 1) /\ (b + 1 + w) - 1 - (b + 1) + 1 = w /\ b + 1 <= (b + 1 + w) - 1
        /\ b + 1 \in Nat /\ b + 1 + w \in Nat /\ (b + 1 + w) - 1 \in Int
    BY <1>2, <2>1
  <2>3. a = b + 1 /\ end = b + 1 + w
    BY DEF b
  <2> HIDE DEF a, end
  <2> QED
    BY <2>2, <2>3
<1>6. end = l + 1 \/ env[end] \notin Digits
  <2>1. CASE i = Len(fds)
    BY <1>1, <2>1
  <2>2. CASE i < Len(fds)
    <3>1. end = o[i] /\ env[o[i]] = Blank
      BY <1>1, <2>2
    <3>2. Blank \notin Digits
      BY DEF Blank, Digits
    <3> HIDE DEF end
    <3> QED
      BY <3>1, <3>2
  <2> QED
    BY <1>4, <2>1, <2>2
<1>7. \A k \in a .. end - 1 : env[k] \in Digits /\ k - o[i - 1] \in 1 .. w
  <2> SUFFICES ASSUME NEW k \in a .. end - 1
               PROVE  env[k] \in Digits /\ k - o[i - 1] \in 1 .. w
    OBVIOUS
  <2> DEFINE j == k - o[i - 1]
  <2>1. j \in 1 .. w /\ o[i - 1] + j = k
    <3> DEFINE b == o[i - 1]
    <3>1. b \in Nat /\ w \in Nat /\ k \in (b + 1) .. (b + 1 + w - 1)
      BY <1>1
    <3> HIDE DEF b
    <3>2. k - b \in 1 .. w /\ b + (k - b) = k
      BY <3>1
    <3> QED
      BY <3>2 DEF b
  <2>2. env[o[i - 1] + j] \in Digits
    <3> HIDE DEF j
    <3> QED
      BY <1>1, <2>1
  <2> HIDE DEF j
  <2> QED
    BY <2>1, <2>2 DEF j
<1> HIDE DEF end, a
<1>8. Ends(end)
  BY <1>6, <1>7
<1>9. ASSUME NEW j \in a .. l + 1, Ends(j) PROVE j = end
  <2>1. j \in Nat
    BY <1>2, <1>5
  <2>2. ~(j < end)
    <3> SUFFICES ASSUME j < end PROVE FALSE
      OBVIOUS
    <3>1. j \in a .. end - 1 /\ j # l + 1
      BY <1>2, <1>5, <2>1
    <3> QED
      BY <1>7, <1>9, <3>1
  <2>3. ~(end < j)
    <3> SUFFICES ASSUME end < j PROVE FALSE
      OBVIOUS
    <3>1. end \in a .. (j - 1) /\ end # l + 1
      BY <1>2, <1>5, <2>1
    <3> QED
      BY <1>6, <1>9, <3>1
  <2> QED
    BY <1>5, <2>1, <2>2, <2>3
<1>10. (CHOOSE j \in a .. (l + 1) : Ends(j)) = end
  <2> HIDE DEF Ends
  <2> QED
    BY <1>5, <1>8, <1>9
<1>11. Atoi(env, a) = Value(SubSeq(env, a, end - 1))
  BY <1>10 DEF Atoi, l
<1> DEFINE t == SubSeq(env, a, end - 1)
<1>12. /\ t \in Seq(Digits) /\ Len(t) = w
       /\ \A j \in 1 .. w : t[j] = env[a + j - 1]
  <2>1. \A k \in a .. end - 1 : env[k] \in Digits
    BY <1>7
  <2>2. /\ t \in Seq(Digits)
        /\ Len(t) = IF a <= end - 1 THEN end - 1 - a + 1 ELSE 0
        /\ \A j \in 1 .. end - 1 - a + 1 : t[j] = env[a + j - 1]
    BY <1>5, <2>1, SubSeqProperties
  <2> HIDE DEF t
  <2> QED
    BY <1>5, <2>2
<1>13. \A j \in 1 .. w : t[j] = d[j]
  <2> SUFFICES ASSUME NEW j \in 1 .. w PROVE t[j] = d[j]
    OBVIOUS
  <2>1. a + j - 1 = o[i - 1] + j
    BY <1>1 DEF a
  <2> HIDE DEF t
  <2> QED
    BY <1>1, <1>12, <2>1
<1>14. t = d
  <2> HIDE DEF t
  <2>1. Len(d) = w
    BY DEF w
  <2> QED
    BY <1>1, <1>12, <1>13, <2>1, SeqEqual
<1> QED
  BY <1>1, <1>11, <1>14 DEF a

\* parse_listen_fds_env reads what create_listen_fds_env wrote, and the room suffices.
LEMMA ReadBack ==
  ASSUME NEW fds \in Seq(Nat), Len(fds) # 0, \A i \in 1 .. Len(fds) : fds[i] \in FiveDigits
  PROVE  /\ CreateListenFdsEnv(fds) # <<>>
         /\ Len(CreateListenFdsEnv(fds)) <= EnvRoom(Len(fds))
         /\ Len(Starts(CreateListenFdsEnv(fds))) = Len(fds)
         /\ ParseListenFdsEnv(CreateListenFdsEnv(fds), Len(fds)) = fds
<1> DEFINE n == Len(fds)
           env == CreateListenFdsEnv(fds)
<1>1. n \in Nat /\ DOMAIN fds = 1 .. n /\ fds \in [1 .. n -> Nat]
  BY LenProperties
<1>2. env \in Seq(Cells)
  BY EnvSpells
<1>3. PICK o : Spells(env, fds, o)
  BY EnvSpells
<1> HIDE DEF env
<1>4. Len(env) # 0 /\ Len(env) <= EnvRoom(n)
  BY <1>3, EnvFits
<1>5. env # <<>>
  <2>1. Len(<<>>) = 0
    OBVIOUS
  <2> QED
    BY <1>4, <2>1
<1>6. Starts(env) = Begins(o, n)
  BY <1>2, <1>3, StartsSpelled
<1>7. Len(Starts(env)) = n /\ \A k \in 1 .. n : Starts(env)[k] = o[k - 1] + 1
  BY <1>1, <1>6 DEF Begins
<1>8. \A k \in 1 .. n : Atoi(env, Starts(env)[k]) = fds[k]
  BY <1>2, <1>3, <1>7, AtoiSpelled
<1>9. ParseListenFdsEnv(env, n) = [k \in 1 .. n |-> fds[k]]
  <2>1. \A k \in 1 .. n : k <= Len(Starts(env))
    BY <1>1, <1>7
  <2> HIDE DEF n
  <2> QED
    BY <1>8, <2>1 DEF ParseListenFdsEnv
<1>10. [k \in 1 .. n |-> fds[k]] = fds
  BY <1>1
<1> QED
  BY <1>4, <1>5, <1>7, <1>9, <1>10 DEF env

-----------------------------------------------------------------------------

-----------------------------------------------------------------------------
(* What holds of the generations. *)

Stages == {"none", "failed", "stopping", "gone"} \cup Booting \cup Running

IsInstance(i) ==
  /\ i = [stage |-> i.stage, group |-> i.group, blocked |-> i.blocked, env |-> i.env,
          fds |-> i.fds, name |-> i.name, handler |-> i.handler, upgraded |-> i.upgraded,
          worker |-> i.worker]
  /\ i.stage \in Stages /\ i.group \in 0 .. MaxGens /\ i.name \in {NoName, 0, 1}
  /\ i.handler \in {"idle", "renamed", "cut"} /\ i.upgraded \in BOOLEAN

Typed ==
  /\ gen = [g \in Gens |-> gen[g]] /\ \A g \in Gens : IsInstance(gen[g])
  /\ signals \in [Gens -> SUBSET {"USR1", "QUIT"}]
  /\ files \in [Names -> Gens \cup {NoGen}]
  /\ told \subseteq Gens /\ closing \in BOOLEAN

\* What the name of its file tells of a generation.
NameTells(i) ==
  /\ i.stage \in {"none", "starting"} \cup Booting => i.name = NoName
  /\ i.stage \in {"named", "serving"} => i.name # NoName
  /\ i.handler # "idle" => i.name = 0
  /\ i.upgraded <=> i.name = 1
NamesTell == \A g \in Gens : NameTells(gen[g])

\* SIGUSR1 is sent to the owner of the pid file, before its upgrade.
SignalTells(i, sigs) ==
  /\ i.stage = "none" => sigs = {}
  /\ "USR1" \in sigs =>
       i.stage \in {"named", "serving", "stopping"} /\ i.name = 0 /\ i.handler = "idle"
SignalsTell ==
  \A g \in Gens : /\ SignalTells(gen[g], signals[g])
                  /\ "QUIT" \in signals[g] /\ gen[g].stage = "named" => closing

Youngest(g) == \A h \in Gens : h > g => gen[h].stage = "none"

\* Generations are born in order, each by the youngest.
Chain == \A g \in Gens : ~gen[g].upgraded => Youngest(g)

\* Who a file may name.
Named(i) ==
  \/ i.stage \in {"named", "serving", "stopping", "failed"}
  \/ i.stage = "gone" /\ i.handler = "cut"
FilesOwned == \A n \in Names, g \in Gens : files[n] = g => OwnName(g) = n /\ Named(gen[g])

\* As long as the service is to go on, it is the youngest that goes on.
YoungestServes ==
  closing \/ Failed \/ (\E g \in Gens : Interrupted(g))
    \/ \E g \in Gens : /\ Youngest(g) /\ gen[g].stage \in Booting \cup Running
                       /\ "QUIT" \notin signals[g]

UInv == Typed /\ NamesTell /\ SignalsTell /\ Chain /\ FilesOwned /\ YoungestServes

\* With -g, a generation has a process group of its own as soon as it has sockets.
HasSockets == {"bound"} \cup Running \cup {"stopping"}

GroupsOwn ==
  \A g \in Gens :
    /\ gen[g].stage \in {"none", "forked", "booting"} => gen[g].group < g /\ gen[g].fds = NoFds
    /\ gen[g].stage \in {"session"} \cup HasSockets => gen[g].group = g

\* Where the sockets of a generation are: in the environment, then in listen_fds.
SocketsKnown ==
  /\ gen[1].env = <<>> /\ gen[1].stage \notin {"none", "forked"}
  /\ \A g \in Gens :
       /\ gen[g].stage = "none" => gen[g].env = <<>>
       /\ gen[g].stage \in HasSockets => gen[1].fds \in FdLists /\ gen[g].fds = gen[1].fds
       /\ g # 1 /\ gen[g].stage # "none" =>
            /\ gen[g].env = CreateListenFdsEnv(gen[1].fds)
            /\ gen[1].fds \in FdLists /\ gen[1].stage \notin {"booting", "session"}

-----------------------------------------------------------------------------
(* The steps of one generation. *)

\* gen' is a function of instances; only generation g changes.
OnlyOf(g) ==
  /\ gen' = [h \in Gens |-> gen'[h]] /\ \A h \in Gens : IsInstance(gen'[h])
  /\ \A h \in Gens : h # g => gen'[h] = gen[h]

LEMMA OneChanges ==
  ASSUME Typed, NEW g \in Gens, NEW j, IsInstance(j), gen' = [gen EXCEPT ![g] = j]
  PROVE  OnlyOf(g) /\ gen'[g] = j
<1>1. gen = [h \in Gens |-> gen[h]] /\ \A h \in Gens : IsInstance(gen[h])
  BY DEF Typed
<1>2. gen'[g] = j /\ \A h \in Gens : h # g => gen'[h] = gen[h]
  BY <1>1
<1>3. gen' = [h \in Gens |-> gen'[h]]
  BY <1>1
<1>4. \A h \in Gens : IsInstance(gen'[h])
  <2> TAKE h \in Gens
  <2>1. CASE h = g
    BY <1>2, <2>1
  <2>2. CASE h # g
    <3>1. gen'[h] = gen[h]
      BY <1>2, <2>2
    <3> QED
      BY <1>1, <3>1
  <2> QED
    BY <2>1, <2>2
<1> QED
  BY <1>2, <1>3, <1>4 DEF OnlyOf

\* A change of the stage, and of nothing the properties see.
LEMMA StageChanges ==
  ASSUME Typed, NEW g \in Gens, NEW st \in Stages,
         gen' = [gen EXCEPT ![g].stage = st]
  PROVE  /\ OnlyOf(g) /\ gen'[g].stage = st
         /\ gen'[g].name = gen[g].name /\ gen'[g].handler = gen[g].handler
         /\ gen'[g].upgraded = gen[g].upgraded /\ gen'[g].group = gen[g].group
         /\ gen'[g].env = gen[g].env /\ gen'[g].fds = gen[g].fds
<1> DEFINE i == gen[g]
           j == [i EXCEPT !.stage = st]
<1>1. IsInstance(i)
  BY DEF Typed
<1>2. /\ IsInstance(j) /\ j.stage = st
      /\ j.name = i.name /\ j.handler = i.handler /\ j.upgraded = i.upgraded
      /\ j.group = i.group /\ j.env = i.env /\ j.fds = i.fds
  <2> HIDE DEF i
  <2> QED
    BY <1>1 DEF IsInstance
<1>3. gen' = [gen EXCEPT ![g] = j]
  BY DEF Typed
<1>4. OnlyOf(g) /\ gen'[g] = j
  <2> HIDE DEF j
  <2> QED
    BY <1>2, <1>3, OneChanges
<1> QED
  BY <1>2, <1>4

LEMMA WorkerChanges ==
  ASSUME Typed, NEW g \in Gens, NEW s, NEW w, gen' = [gen EXCEPT ![g].worker[s] = w]
  PROVE  /\ OnlyOf(g) /\ gen'[g].stage = gen[g].stage
         /\ gen'[g].name = gen[g].name /\ gen'[g].handler = gen[g].handler
         /\ gen'[g].upgraded = gen[g].upgraded /\ gen'[g].group = gen[g].group
         /\ gen'[g].env = gen[g].env /\ gen'[g].fds = gen[g].fds
<1> DEFINE i == gen[g]
           v == [i.worker EXCEPT ![s] = w]
           j == [i EXCEPT !.worker = v]
<1>1. IsInstance(i)
  BY DEF Typed
<1>2. /\ IsInstance(j) /\ j.stage = i.stage
      /\ j.name = i.name /\ j.handler = i.handler /\ j.upgraded = i.upgraded
      /\ j.group = i.group /\ j.env = i.env /\ j.fds = i.fds
  <2> HIDE DEF i, v
  <2> QED
    BY <1>1 DEF IsInstance
<1>3. gen' = [gen EXCEPT ![g] = j]
  BY DEF Typed
<1>4. OnlyOf(g) /\ gen'[g] = j
  <2> HIDE DEF j
  <2> QED
    BY <1>2, <1>3, OneChanges
<1> QED
  BY <1>2, <1>4

\* The steps of a start that change more than the stage.
LEMMA StartChanges ==
  ASSUME Typed, NEW g \in Gens
  PROVE  /\ Daemonize(g) =>
              /\ OnlyOf(g) /\ gen'[g].stage = "session"
              /\ gen'[g].name = gen[g].name /\ gen'[g].handler = gen[g].handler
              /\ gen'[g].upgraded = gen[g].upgraded
              /\ gen'[g].group = IF Daemon THEN g ELSE gen[g].group
              /\ gen'[g].env = gen[g].env /\ gen'[g].fds = gen[g].fds
         /\ GetListenFds(g) =>
              /\ OnlyOf(g) /\ gen'[g].stage = "bound"
              /\ gen'[g].name = gen[g].name /\ gen'[g].handler = gen[g].handler
              /\ gen'[g].upgraded = gen[g].upgraded /\ gen'[g].group = gen[g].group
              /\ gen'[g].env = gen[g].env
              /\ gen'[g].fds \in IF gen[g].env = <<>> THEN FdLists
                                 ELSE {ParseListenFdsEnv(gen[g].env, Workers)}
         /\ InstallHandlers(g) =>
              /\ OnlyOf(g) /\ gen'[g].stage = "starting"
              /\ gen'[g].name = gen[g].name /\ gen'[g].handler = gen[g].handler
              /\ gen'[g].upgraded = gen[g].upgraded /\ gen'[g].group = gen[g].group
              /\ gen'[g].env = gen[g].env /\ gen'[g].fds = gen[g].fds
         /\ ForkWorkers(g) =>
              /\ OnlyOf(g) /\ gen'[g].stage = "serving"
              /\ gen'[g].name = gen[g].name /\ gen'[g].handler = gen[g].handler
              /\ gen'[g].upgraded = gen[g].upgraded /\ gen'[g].group = gen[g].group
              /\ gen'[g].env = gen[g].env /\ gen'[g].fds = gen[g].fds
<1> DEFINE i == gen[g]
<1>1. IsInstance(i)
  BY DEF Typed
<1>2. ASSUME Daemonize(g)
      PROVE  /\ OnlyOf(g) /\ gen'[g].stage = "session"
             /\ gen'[g].name = gen[g].name /\ gen'[g].handler = gen[g].handler
             /\ gen'[g].upgraded = gen[g].upgraded
             /\ gen'[g].group = IF Daemon THEN g ELSE gen[g].group
             /\ gen'[g].env = gen[g].env /\ gen'[g].fds = gen[g].fds
  <2> DEFINE own == IF Daemon THEN g ELSE i.group
             k == [i EXCEPT !.stage = "session"]
             j == [k EXCEPT !.group = own]
  <2>1. own \in 0 .. MaxGens
    BY <1>1 DEF IsInstance, Gens
  <2>2. /\ IsInstance(j) /\ j.stage = "session" /\ j.name = i.name /\ j.handler = i.handler
        /\ j.upgraded = i.upgraded /\ j.group = own /\ j.env = i.env /\ j.fds = i.fds
    <3>1. /\ IsInstance(k) /\ k.stage = "session" /\ k.name = i.name /\ k.handler = i.handler
          /\ k.upgraded = i.upgraded /\ k.group = i.group /\ k.env = i.env /\ k.fds = i.fds
      <4> HIDE DEF i
      <4> QED
        BY <1>1 DEF IsInstance, Stages, Booting, Running
    <3> HIDE DEF k, own
    <3> QED
      BY <3>1, <2>1 DEF IsInstance
  <2>3. gen' = [gen EXCEPT ![g] = j]
    BY <1>2 DEF Typed, Daemonize
  <2>4. OnlyOf(g) /\ gen'[g] = j
    <3> HIDE DEF j
    <3> QED
      BY <2>2, <2>3, OneChanges
  <2> QED
    BY <2>2, <2>4
<1>3. ASSUME GetListenFds(g)
      PROVE  /\ OnlyOf(g) /\ gen'[g].stage = "bound"
             /\ gen'[g].name = gen[g].name /\ gen'[g].handler = gen[g].handler
             /\ gen'[g].upgraded = gen[g].upgraded /\ gen'[g].group = gen[g].group
             /\ gen'[g].env = gen[g].env
             /\ gen'[g].fds \in IF gen[g].env = <<>> THEN FdLists
                                ELSE {ParseListenFdsEnv(gen[g].env, Workers)}
  <2> DEFINE lists == IF gen[g].env = <<>> THEN FdLists
                      ELSE {ParseListenFdsEnv(gen[g].env, Workers)}
  <2>1. PICK list \in lists : gen' = [gen EXCEPT ![g].stage = "bound", ![g].fds = list]
    BY <1>3 DEF GetListenFds
  <2> HIDE DEF lists
  <2> DEFINE k == [i EXCEPT !.stage = "bound"]
             j == [k EXCEPT !.fds = list]
  <2>2. /\ IsInstance(j) /\ j.stage = "bound" /\ j.name = i.name /\ j.handler = i.handler
        /\ j.upgraded = i.upgraded /\ j.group = i.group /\ j.env = i.env /\ j.fds = list
    <3>1. /\ IsInstance(k) /\ k.stage = "bound" /\ k.name = i.name /\ k.handler = i.handler
          /\ k.upgraded = i.upgraded /\ k.group = i.group /\ k.env = i.env /\ k.fds = i.fds
      <4> HIDE DEF i
      <4> QED
        BY <1>1 DEF IsInstance, Stages, Booting, Running
    <3> HIDE DEF k
    <3> QED
      BY <3>1 DEF IsInstance
  <2>3. gen' = [gen EXCEPT ![g] = j]
    BY <2>1 DEF Typed
  <2>4. OnlyOf(g) /\ gen'[g] = j
    <3> HIDE DEF j
    <3> QED
      BY <2>2, <2>3, OneChanges
  <2>5. gen'[g].fds \in lists
    BY <2>2, <2>4
  <2> QED
    BY <2>2, <2>4, <2>5 DEF lists
<1>4. ASSUME InstallHandlers(g)
      PROVE  /\ OnlyOf(g) /\ gen'[g].stage = "starting"
             /\ gen'[g].name = gen[g].name /\ gen'[g].handler = gen[g].handler
             /\ gen'[g].upgraded = gen[g].upgraded /\ gen'[g].group = gen[g].group
             /\ gen'[g].env = gen[g].env /\ gen'[g].fds = gen[g].fds
  <2> DEFINE k == [i EXCEPT !.stage = "starting"]
             no == {}
             j == [k EXCEPT !.blocked = no]
  <2>2. /\ IsInstance(j) /\ j.stage = "starting" /\ j.name = i.name /\ j.handler = i.handler
        /\ j.upgraded = i.upgraded /\ j.group = i.group /\ j.env = i.env /\ j.fds = i.fds
    <3>1. /\ IsInstance(k) /\ k.stage = "starting" /\ k.name = i.name /\ k.handler = i.handler
          /\ k.upgraded = i.upgraded /\ k.group = i.group /\ k.env = i.env /\ k.fds = i.fds
      <4> HIDE DEF i
      <4> QED
        BY <1>1 DEF IsInstance, Stages, Booting, Running
    <3> HIDE DEF k, no
    <3> QED
      BY <3>1 DEF IsInstance
  <2>3. gen' = [gen EXCEPT ![g] = j]
    BY <1>4 DEF Typed, InstallHandlers
  <2>4. OnlyOf(g) /\ gen'[g] = j
    <3> HIDE DEF j
    <3> QED
      BY <2>2, <2>3, OneChanges
  <2> QED
    BY <2>2, <2>4
<1>5. ASSUME ForkWorkers(g)
      PROVE  /\ OnlyOf(g) /\ gen'[g].stage = "serving"
             /\ gen'[g].name = gen[g].name /\ gen'[g].handler = gen[g].handler
             /\ gen'[g].upgraded = gen[g].upgraded /\ gen'[g].group = gen[g].group
             /\ gen'[g].env = gen[g].env /\ gen'[g].fds = gen[g].fds
  <2> DEFINE all == [s \in Slots |-> "serving"]
             k == [i EXCEPT !.stage = "serving"]
             j == [k EXCEPT !.worker = all]
  <2>2. /\ IsInstance(j) /\ j.stage = "serving" /\ j.name = i.name /\ j.handler = i.handler
        /\ j.upgraded = i.upgraded /\ j.group = i.group /\ j.env = i.env /\ j.fds = i.fds
    <3>1. /\ IsInstance(k) /\ k.stage = "serving" /\ k.name = i.name /\ k.handler = i.handler
          /\ k.upgraded = i.upgraded /\ k.group = i.group /\ k.env = i.env /\ k.fds = i.fds
      <4> HIDE DEF i
      <4> QED
        BY <1>1 DEF IsInstance, Stages, Booting, Running
    <3> HIDE DEF k, all
    <3> QED
      BY <3>1 DEF IsInstance
  <2>3. gen' = [gen EXCEPT ![g] = j]
    BY <1>5 DEF Typed, ForkWorkers
  <2>4. OnlyOf(g) /\ gen'[g] = j
    <3> HIDE DEF j
    <3> QED
      BY <2>2, <2>3, OneChanges
  <2> QED
    BY <2>2, <2>4
<1> QED
  BY <1>2, <1>3, <1>4, <1>5

\* exit(1), with any workers.
LEMMA ExitChanges ==
  ASSUME Typed, NEW g \in Gens, NEW i, IsInstance(i), Exit1(g, i),
         i.name = gen[g].name, i.handler = gen[g].handler, i.upgraded = gen[g].upgraded,
         i.group = gen[g].group, i.env = gen[g].env, i.fds = gen[g].fds
  PROVE  /\ OnlyOf(g) /\ gen'[g].stage = "failed"
         /\ gen'[g].name = gen[g].name /\ gen'[g].handler = gen[g].handler
         /\ gen'[g].upgraded = gen[g].upgraded /\ gen'[g].group = gen[g].group
         /\ gen'[g].env = gen[g].env /\ gen'[g].fds = gen[g].fds
<1> DEFINE j == [i EXCEPT !.stage = "failed"]
<1>1. /\ IsInstance(j) /\ j.stage = "failed"
      /\ j.name = i.name /\ j.handler = i.handler /\ j.upgraded = i.upgraded
      /\ j.group = i.group /\ j.env = i.env /\ j.fds = i.fds
  BY DEF IsInstance, Stages
<1>2. gen' = [gen EXCEPT ![g] = j]
  BY DEF Exit1
<1>3. OnlyOf(g) /\ gen'[g] = j
  <2> HIDE DEF j
  <2> QED
    BY <1>1, <1>2, OneChanges
<1> QED
  BY <1>1, <1>3

\* Where a generation can be when it fails, and what that does to the files.
LEMMA FailChanges ==
  ASSUME Typed, NEW g \in Gens, Fail(g)
  PROVE  /\ OnlyOf(g) /\ gen'[g].stage = "failed"
         /\ gen'[g].name = gen[g].name /\ gen'[g].handler = gen[g].handler
         /\ gen'[g].upgraded = gen[g].upgraded /\ gen'[g].group = gen[g].group
         /\ gen'[g].env = gen[g].env /\ gen'[g].fds = gen[g].fds
         /\ signals' = [signals EXCEPT ![g] = {}] /\ UNCHANGED <<told, closing>>
         /\ gen[g].stage \in Booting \cup {"starting", "named", "serving", "stopping"}
         /\ \/ UNCHANGED files
            \/ gen[g].stage = "starting" /\ files' = [files EXCEPT ![0] = NoGen]
<1>1. IsInstance(gen[g])
  BY DEF Typed
<1>2. ASSUME Exit1(g, gen[g])
      PROVE  /\ OnlyOf(g) /\ gen'[g].stage = "failed"
             /\ gen'[g].name = gen[g].name /\ gen'[g].handler = gen[g].handler
             /\ gen'[g].upgraded = gen[g].upgraded /\ gen'[g].group = gen[g].group
             /\ gen'[g].env = gen[g].env /\ gen'[g].fds = gen[g].fds
             /\ signals' = [signals EXCEPT ![g] = {}] /\ UNCHANGED <<told, closing>>
  <2>1. signals' = [signals EXCEPT ![g] = {}] /\ UNCHANGED <<told, closing>>
    BY <1>2 DEF Exit1, operator
  <2> QED
    BY <1>1, <1>2, <2>1, ExitChanges
<1>3. CASE StartAborts(g)
  BY <1>2, <1>3 DEF StartAborts
<1>4. CASE WriteAborts(g)
  BY <1>2, <1>4 DEF WriteAborts
<1>5. CASE ForkAborts(g)
  <2> DEFINE Team(n) == [s \in Slots |-> IF s <= n THEN "serving" ELSE "none"]
  <2>1. PICK n \in 0 .. (Workers - 1) : Exit1(g, [gen[g] EXCEPT !.worker = Team(n)])
    BY <1>5 DEF ForkAborts
  <2>2. UNCHANGED files /\ gen[g].stage = "named"
    BY <1>5 DEF ForkAborts
  <2> DEFINE v == Team(n)
             p == gen[g]
             i == [p EXCEPT !.worker = v]
  <2>3. /\ IsInstance(i) /\ i.name = p.name /\ i.handler = p.handler
        /\ i.upgraded = p.upgraded /\ i.group = p.group /\ i.env = p.env /\ i.fds = p.fds
    <3> HIDE DEF v
    <3>1. IsInstance(p)
      BY <1>1
    <3> HIDE DEF p
    <3> QED
      BY <3>1 DEF IsInstance
  <2>4. Exit1(g, i)
    BY <2>1
  <2>5. signals' = [signals EXCEPT ![g] = {}] /\ UNCHANGED <<told, closing>>
    BY <2>1 DEF Exit1, operator
  <2> HIDE DEF i, v
  <2> QED
    BY <2>2, <2>3, <2>4, <2>5, ExitChanges
<1>6. CASE RespawnAborts(g)
  BY <1>2, <1>6 DEF RespawnAborts
<1>7. CASE UpgradeAborts(g)
  BY <1>2, <1>7 DEF UpgradeAborts, Renamed
<1> QED
  BY <1>3, <1>4, <1>5, <1>6, <1>7 DEF Fail

\* What WritePidfile and RenamePidfile change of a generation.
LEMMA InstanceChanges ==
  ASSUME Typed, NEW g \in Gens
  PROVE  /\ gen' = [gen EXCEPT ![g].stage = "named", ![g].name = 0] =>
              /\ OnlyOf(g) /\ gen'[g].stage = "named" /\ gen'[g].name = 0
              /\ gen'[g].handler = gen[g].handler /\ gen'[g].upgraded = gen[g].upgraded
              /\ gen'[g].group = gen[g].group
              /\ gen'[g].env = gen[g].env /\ gen'[g].fds = gen[g].fds
         /\ gen' = [gen EXCEPT ![g].handler = "renamed", ![g].blocked = @ \cup {"USR1"}] =>
              /\ OnlyOf(g) /\ gen'[g].stage = gen[g].stage /\ gen'[g].name = gen[g].name
              /\ gen'[g].handler = "renamed" /\ gen'[g].upgraded = gen[g].upgraded
              /\ gen'[g].group = gen[g].group
              /\ gen'[g].env = gen[g].env /\ gen'[g].fds = gen[g].fds
<1> DEFINE i == gen[g]
<1>1. IsInstance(i)
  BY DEF Typed
<1>2. ASSUME gen' = [gen EXCEPT ![g].stage = "named", ![g].name = 0]
      PROVE  /\ OnlyOf(g) /\ gen'[g].stage = "named" /\ gen'[g].name = 0
             /\ gen'[g].handler = gen[g].handler /\ gen'[g].upgraded = gen[g].upgraded
             /\ gen'[g].group = gen[g].group
             /\ gen'[g].env = gen[g].env /\ gen'[g].fds = gen[g].fds
  <2> DEFINE k == [i EXCEPT !.stage = "named"]
             j == [k EXCEPT !.name = 0]
  <2>1. /\ IsInstance(k) /\ k.stage = "named" /\ k.name = i.name /\ k.handler = i.handler
        /\ k.upgraded = i.upgraded /\ k.group = i.group /\ k.env = i.env /\ k.fds = i.fds
    <3> HIDE DEF i
    <3> QED
      BY <1>1 DEF IsInstance, Stages, Booting, Running
  <2>2. /\ IsInstance(j) /\ j.stage = "named" /\ j.name = 0 /\ j.handler = i.handler
        /\ j.upgraded = i.upgraded /\ j.group = i.group /\ j.env = i.env /\ j.fds = i.fds
    <3> HIDE DEF k
    <3> QED
      BY <2>1 DEF IsInstance
  <2>3. gen' = [gen EXCEPT ![g] = j]
    BY <1>2 DEF Typed
  <2>4. OnlyOf(g) /\ gen'[g] = j
    <3> HIDE DEF j
    <3> QED
      BY <2>2, <2>3, OneChanges
  <2> QED
    BY <2>2, <2>4
<1>3. ASSUME gen' = [gen EXCEPT ![g].handler = "renamed", ![g].blocked = @ \cup {"USR1"}]
      PROVE  /\ OnlyOf(g) /\ gen'[g].stage = gen[g].stage /\ gen'[g].name = gen[g].name
             /\ gen'[g].handler = "renamed" /\ gen'[g].upgraded = gen[g].upgraded
             /\ gen'[g].group = gen[g].group
             /\ gen'[g].env = gen[g].env /\ gen'[g].fds = gen[g].fds
  <2> DEFINE k == [i EXCEPT !.handler = "renamed"]
             more == i.blocked \cup {"USR1"}
             j == [k EXCEPT !.blocked = more]
  <2>1. /\ IsInstance(k) /\ k.stage = i.stage /\ k.name = i.name /\ k.handler = "renamed"
        /\ k.upgraded = i.upgraded /\ k.group = i.group /\ k.env = i.env /\ k.fds = i.fds
    <3> HIDE DEF i
    <3> QED
      BY <1>1 DEF IsInstance
  <2>2. /\ IsInstance(j) /\ j.stage = i.stage /\ j.name = i.name /\ j.handler = "renamed"
        /\ j.upgraded = i.upgraded /\ j.group = i.group /\ j.env = i.env /\ j.fds = i.fds
    <3> HIDE DEF k, more
    <3> QED
      BY <2>1 DEF IsInstance
  <2>3. gen' = [gen EXCEPT ![g] = j]
    BY <1>3 DEF Typed
  <2>4. OnlyOf(g) /\ gen'[g] = j
    <3> HIDE DEF j
    <3> QED
      BY <2>2, <2>3, OneChanges
  <2> QED
    BY <2>2, <2>4
<1> QED
  BY <1>2, <1>3

\* What the end of upgrade_handler changes of its generation, and signal_handler.
LEMMA UpgradedInstance ==
  ASSUME NEW i, IsInstance(i), i.name = 0
  PROVE  /\ IsInstance(Upgraded(i)) /\ Upgraded(i).name = 1 /\ Upgraded(i).upgraded = TRUE
         /\ Upgraded(i).handler = "idle" /\ Upgraded(i).stage = i.stage
         /\ Upgraded(i).group = i.group /\ Upgraded(i).env = i.env /\ Upgraded(i).fds = i.fds
<1> DEFINE yes == TRUE
           rest == i.blocked \ {"USR1"}
           i1 == [i EXCEPT !.name = 1]
           i2 == [i1 EXCEPT !.upgraded = yes]
           i3 == [i2 EXCEPT !.handler = "idle"]
           i4 == [i3 EXCEPT !.blocked = rest]
<1>1. /\ IsInstance(i1) /\ i1.name = 1 /\ i1.stage = i.stage /\ i1.group = i.group
      /\ i1.env = i.env /\ i1.fds = i.fds
  BY DEF IsInstance
<1>2. /\ IsInstance(i2) /\ i2.name = 1 /\ i2.upgraded = yes /\ i2.stage = i.stage
      /\ i2.group = i.group /\ i2.env = i.env /\ i2.fds = i.fds
  <2>1. yes \in BOOLEAN
    OBVIOUS
  <2> HIDE DEF i1, yes
  <2> QED
    BY <1>1, <2>1 DEF IsInstance
<1>3. /\ IsInstance(i3) /\ i3.name = 1 /\ i3.upgraded = yes /\ i3.handler = "idle"
      /\ i3.stage = i.stage /\ i3.group = i.group /\ i3.env = i.env /\ i3.fds = i.fds
  <2> HIDE DEF i2, yes
  <2> QED
    BY <1>2 DEF IsInstance
<1>4. /\ IsInstance(i4) /\ i4.name = 1 /\ i4.upgraded = yes /\ i4.handler = "idle"
      /\ i4.stage = i.stage /\ i4.group = i.group /\ i4.env = i.env /\ i4.fds = i.fds
  <2> HIDE DEF i3, yes, rest
  <2> QED
    BY <1>3 DEF IsInstance
<1>5. Upgraded(i) = i4
  BY DEF Upgraded
<1> QED
  BY <1>4, <1>5

LEMMA StoppingInstance ==
  ASSUME NEW i, IsInstance(i)
  PROVE  /\ IsInstance(Stopping(i)) /\ Stopping(i).stage = "stopping"
         /\ Stopping(i).handler = IF i.handler = "renamed" THEN "cut" ELSE i.handler
         /\ Stopping(i).name = i.name /\ Stopping(i).upgraded = i.upgraded
         /\ Stopping(i).group = i.group /\ Stopping(i).env = i.env /\ Stopping(i).fds = i.fds
<1> DEFINE team == Drain(i.worker)
           mask == i.blocked \cup {"QUIT"}
           han == IF i.handler = "renamed" THEN "cut" ELSE i.handler
           i1 == [i EXCEPT !.stage = "stopping"]
           i2 == [i1 EXCEPT !.worker = team]
           i3 == [i2 EXCEPT !.blocked = mask]
           i4 == [i3 EXCEPT !.handler = han]
<1>1. /\ IsInstance(i1) /\ i1.stage = "stopping" /\ i1.handler = i.handler /\ i1.name = i.name
      /\ i1.upgraded = i.upgraded /\ i1.group = i.group /\ i1.env = i.env /\ i1.fds = i.fds
  BY DEF IsInstance, Stages
<1>2. /\ IsInstance(i2) /\ i2.stage = "stopping" /\ i2.handler = i.handler /\ i2.name = i.name
      /\ i2.upgraded = i.upgraded /\ i2.group = i.group /\ i2.env = i.env /\ i2.fds = i.fds
  <2> HIDE DEF i1, team
  <2> QED
    BY <1>1 DEF IsInstance
<1>3. /\ IsInstance(i3) /\ i3.stage = "stopping" /\ i3.handler = i.handler /\ i3.name = i.name
      /\ i3.upgraded = i.upgraded /\ i3.group = i.group /\ i3.env = i.env /\ i3.fds = i.fds
  <2> HIDE DEF i2, mask
  <2> QED
    BY <1>2 DEF IsInstance
<1>4. /\ IsInstance(i4) /\ i4.stage = "stopping" /\ i4.handler = han /\ i4.name = i.name
      /\ i4.upgraded = i.upgraded /\ i4.group = i.group /\ i4.env = i.env /\ i4.fds = i.fds
  <2>1. han \in {"idle", "renamed", "cut"}
    BY DEF IsInstance
  <2> HIDE DEF i3, han
  <2> QED
    BY <1>3, <2>1 DEF IsInstance
<1>5. Stopping(i) = i4
  BY DEF Stopping
<1> HIDE DEF i4
<1> QED
  BY <1>4, <1>5

\* The two ends of a generation that is told: at its turn in upgrade_handler or after it.
LEMMA QuitChanges ==
  ASSUME Typed, NamesTell, NEW g \in Gens, HandleQuit(g)
  PROVE  /\ OnlyOf(g) /\ gen'[g].stage = "stopping" /\ gen'[g].group = gen[g].group
         /\ gen'[g].env = gen[g].env /\ gen'[g].fds = gen[g].fds
         /\ \/ /\ gen'[g].name = gen[g].name /\ gen'[g].upgraded = gen[g].upgraded
               /\ gen'[g].handler = IF gen[g].handler = "renamed" THEN "cut" ELSE gen[g].handler
            \/ /\ Renamed(g)
               /\ gen'[g].name = 1 /\ gen'[g].upgraded = TRUE /\ gen'[g].handler = "idle"
<1> DEFINE i == gen[g]
<1>1. IsInstance(i)
  BY DEF Typed
<1>2. CASE gen' = [gen EXCEPT ![g] = Stopping(@)]
  <2> DEFINE j == Stopping(i)
  <2>1. /\ IsInstance(j) /\ j.stage = "stopping" /\ j.name = i.name /\ j.upgraded = i.upgraded
        /\ j.handler = IF i.handler = "renamed" THEN "cut" ELSE i.handler
        /\ j.group = i.group /\ j.env = i.env /\ j.fds = i.fds
    BY <1>1, StoppingInstance
  <2>2. gen' = [gen EXCEPT ![g] = j]
    BY <1>2
  <2> HIDE DEF j
  <2>3. OnlyOf(g) /\ gen'[g] = j
    BY <2>1, <2>2, OneChanges
  <2> QED
    BY <2>1, <2>3
<1>3. CASE Renamed(g) /\ gen' = [gen EXCEPT ![g] = Stopping(Upgraded(@))]
  <2> DEFINE u == Upgraded(i)
             j == Stopping(u)
  <2>1. i.name = 0
    BY <1>3 DEF Renamed, NamesTell, NameTells
  <2>2. /\ IsInstance(u) /\ u.name = 1 /\ u.upgraded = TRUE /\ u.handler = "idle"
        /\ u.group = i.group /\ u.env = i.env /\ u.fds = i.fds
    BY <1>1, <2>1, UpgradedInstance
  <2>3. /\ IsInstance(j) /\ j.stage = "stopping" /\ j.name = 1 /\ j.upgraded = TRUE
        /\ j.handler = "idle" /\ j.group = i.group /\ j.env = i.env /\ j.fds = i.fds
    <3> HIDE DEF u
    <3> QED
      BY <2>2, StoppingInstance
  <2>4. gen' = [gen EXCEPT ![g] = j]
    BY <1>3
  <2> HIDE DEF j
  <2>5. OnlyOf(g) /\ gen'[g] = j
    BY <2>3, <2>4, OneChanges
  <2> QED
    BY <1>3, <2>3, <2>5
<1> QED
  BY <1>2, <1>3 DEF HandleQuit

\* What names, flags and files tell is not touched, and the stage goes on.
Calm(g) ==
  /\ OnlyOf(g) /\ UNCHANGED <<signals, files, told, closing>>
  /\ gen'[g].name = gen[g].name /\ gen'[g].handler = gen[g].handler
  /\ gen'[g].upgraded = gen[g].upgraded
  /\ \/ gen'[g].stage = gen[g].stage
     \/ gen[g].stage \in Booting /\ gen'[g].stage \in Booting \cup {"starting"}
     \/ gen[g].stage = "named" /\ gen'[g].stage = "serving"

LEMMA CalmSteps ==
  ASSUME Typed, NEW g \in Gens
  PROVE  /\ Execve(g) \/ Daemonize(g) \/ GetListenFds(g) \/ InstallHandlers(g)
              \/ ForkWorkers(g) => Calm(g)
         /\ \A s \in Slots : Respawn(g, s) \/ Drained(g, s) \/ WorkerDies(g, s) => Calm(g)
<1>1. ASSUME Execve(g) PROVE Calm(g)
  <2>1. /\ UNCHANGED <<signals, files, told, closing>> /\ gen[g].stage = "forked"
        /\ gen' = [gen EXCEPT ![g].stage = "booting"]
    BY <1>1 DEF Execve, Local, operator
  <2>2. "booting" \in Stages
    BY DEF Stages, Booting
  <2> QED
    BY <2>1, <2>2, StageChanges DEF Calm, Booting
<1>3. ASSUME Daemonize(g) PROVE Calm(g)
  <2>1. UNCHANGED <<signals, files, told, closing>> /\ gen[g].stage = "booting"
    BY <1>3 DEF Daemonize, Local, operator
  <2> QED
    BY <1>3, <2>1, StartChanges DEF Calm, Booting
<1>4. ASSUME GetListenFds(g) PROVE Calm(g)
  <2>1. UNCHANGED <<signals, files, told, closing>> /\ gen[g].stage = "session"
    BY <1>4 DEF GetListenFds, Local, operator
  <2> QED
    BY <1>4, <2>1, StartChanges DEF Calm, Booting
<1>5. ASSUME InstallHandlers(g) PROVE Calm(g)
  <2>1. UNCHANGED <<signals, files, told, closing>> /\ gen[g].stage = "bound"
    BY <1>5 DEF InstallHandlers, Local, operator
  <2> QED
    BY <1>5, <2>1, StartChanges DEF Calm, Booting
<1>6. ASSUME ForkWorkers(g) PROVE Calm(g)
  <2>1. UNCHANGED <<signals, files, told, closing>> /\ gen[g].stage = "named"
    BY <1>6 DEF ForkWorkers, Local, operator
  <2> QED
    BY <1>6, <2>1, StartChanges DEF Calm, Booting
<1>7. ASSUME NEW s \in Slots, Respawn(g, s) PROVE Calm(g)
  <2>1. UNCHANGED <<signals, files, told, closing>> /\ gen' = [gen EXCEPT ![g].worker[s] = "serving"]
    BY <1>7 DEF Respawn, Local, operator
  <2> QED
    BY <2>1, WorkerChanges DEF Calm
<1>8. ASSUME NEW s \in Slots, Drained(g, s) PROVE Calm(g)
  <2>1. UNCHANGED <<signals, files, told, closing>> /\ gen' = [gen EXCEPT ![g].worker[s] = "none"]
    BY <1>8 DEF Drained, Local, operator
  <2> QED
    BY <2>1, WorkerChanges DEF Calm
<1>9. ASSUME NEW s \in Slots, WorkerDies(g, s) PROVE Calm(g)
  <2>1. UNCHANGED <<signals, files, told, closing>> /\ gen' = [gen EXCEPT ![g].worker[s] = "none"]
    BY <1>9 DEF WorkerDies, operator
  <2> QED
    BY <2>1, WorkerChanges DEF Calm
<1> QED
  BY <1>1, <1>3, <1>4, <1>5, <1>6, <1>7, <1>8, <1>9

-----------------------------------------------------------------------------
(* What a step of one generation has to keep. *)

LEMMA NamesOwned ==
  ASSUME Typed, NamesTell, NEW g \in Gens
  PROVE  /\ OwnName(g) \in {NoName, 0, 1}
         /\ OwnName(g) = NoName <=> gen[g].name = NoName
         /\ OwnName(g) = 0 => gen[g].name = 0 /\ gen[g].handler = "idle" /\ ~gen[g].upgraded
         /\ OwnName(g) = 1 => \/ gen[g].handler \in {"renamed", "cut"} /\ gen[g].name = 0
                              \/ gen[g].upgraded
         /\ gen[g].handler # "idle" => gen[g].name = 0 /\ OwnName(g) = 1 /\ ~gen[g].upgraded
<1>1. /\ gen[g].name \in {NoName, 0, 1} /\ gen[g].handler \in {"idle", "renamed", "cut"}
      /\ gen[g].upgraded \in BOOLEAN
  BY DEF Typed, IsInstance
<1>2. /\ gen[g].handler # "idle" => gen[g].name = 0
      /\ gen[g].upgraded <=> gen[g].name = 1
  BY DEF NamesTell, NameTells
<1> QED
  BY <1>1, <1>2 DEF OwnName, NoName

\* Only g changes, to what its name and its signals tell; others get no SIGUSR1, and
\* SIGQUIT only from an operator who ends the service; a file is given to g only, and
\* g takes it for its own.
Fits(g) ==
  /\ OnlyOf(g) /\ NameTells(gen'[g])
  /\ signals' \in [Gens -> SUBSET {"USR1", "QUIT"}]
  /\ SignalTells(gen'[g], signals'[g])
  /\ "QUIT" \in signals'[g] /\ gen'[g].stage = "named" => closing'
  /\ \A h \in Gens : h # g =>
       /\ "USR1" \in signals'[h] => "USR1" \in signals[h]
       /\ gen[h].stage = "none" => signals'[h] = signals[h]
       /\ "QUIT" \in signals'[h] => "QUIT" \in signals[h] \/ closing'
  /\ closing' \in BOOLEAN /\ (closing => closing') /\ told' \subseteq Gens
  /\ files' \in [Names -> Gens \cup {NoGen}]
  /\ \A n \in Names : files'[n] # NoGen => files'[n] \in {files[n], g}
  /\ \A n \in Names : files'[n] = g => OwnName(g)' = n /\ Named(gen'[g])

LEMMA FitsKept ==
  ASSUME UInv, NEW g \in Gens, Fits(g)
  PROVE  Typed' /\ NamesTell' /\ SignalsTell' /\ FilesOwned'
<1>1. Typed /\ NamesTell /\ SignalsTell /\ FilesOwned
  BY DEF UInv
<1>2. ASSUME NEW h \in Gens, h # g
      PROVE  gen'[h] = gen[h]
  BY <1>2 DEF Fits, OnlyOf
<1>3. Typed'
  <2>1. gen' = [h \in Gens |-> gen'[h]] /\ \A h \in Gens : IsInstance(gen'[h])
    BY DEF Fits, OnlyOf
  <2>2. \A h \in Gens : IsInstance(gen[h])'
    BY <2>1 DEF IsInstance
  <2> QED
    BY <2>1, <2>2 DEF Fits, Typed
<1>4. NamesTell'
  <2> SUFFICES ASSUME NEW h \in Gens PROVE NameTells(gen'[h])
    BY DEF NamesTell, NameTells
  <2>1. CASE h = g
    BY <2>1 DEF Fits
  <2>2. CASE h # g
    BY <1>1, <1>2, <2>2 DEF NamesTell
  <2> QED
    BY <2>1, <2>2
<1>5. SignalsTell'
  <2> SUFFICES ASSUME NEW h \in Gens
               PROVE  /\ SignalTells(gen'[h], signals'[h])
                      /\ "QUIT" \in signals'[h] /\ gen'[h].stage = "named" => closing'
    BY DEF SignalsTell, SignalTells
  <2>1. CASE h = g
    BY <2>1 DEF Fits
  <2>2. CASE h # g
    <3>1. gen'[h] = gen[h]
      BY <1>2, <2>2
    <3>2. /\ SignalTells(gen[h], signals[h])
          /\ "QUIT" \in signals[h] /\ gen[h].stage = "named" => closing
      BY <1>1 DEF SignalsTell
    <3>3. /\ "USR1" \in signals'[h] => "USR1" \in signals[h]
          /\ gen[h].stage = "none" => signals'[h] = signals[h]
          /\ "QUIT" \in signals'[h] => "QUIT" \in signals[h] \/ closing'
          /\ closing => closing'
      BY <2>2 DEF Fits
    <3> QED
      BY <3>1, <3>2, <3>3 DEF SignalTells
  <2> QED
    BY <2>1, <2>2
<1>6. FilesOwned'
  <2> SUFFICES ASSUME NEW n \in Names, NEW h \in Gens, files'[n] = h
               PROVE  OwnName(h)' = n /\ Named(gen'[h])
    BY DEF FilesOwned, Named
  <2>1. CASE h = g
    BY <2>1 DEF Fits
  <2>2. CASE h # g
    <3>1. files[n] = h
      BY <2>2 DEF Fits, NoGen, Gens
    <3>2. gen'[h] = gen[h]
      BY <1>2, <2>2
    <3> QED
      BY <1>1, <3>1, <3>2 DEF FilesOwned, OwnName
  <2> QED
    BY <2>1, <2>2
<1> QED
  BY <1>3, <1>4, <1>5, <1>6

\* A step of g after which it is as far in the chain as before.
LEMMA SameKept ==
  ASSUME UInv, NEW g \in Gens, Fits(g), YoungestServes',
         gen'[g].stage = "none" <=> gen[g].stage = "none", gen'[g].upgraded = gen[g].upgraded
  PROVE  UInv'
<1>1. ASSUME NEW h \in Gens
      PROVE  /\ gen'[h].stage = "none" <=> gen[h].stage = "none"
             /\ gen'[h].upgraded = gen[h].upgraded
  BY DEF Fits, OnlyOf
<1>2. Chain'
  BY <1>1 DEF UInv, Chain, Youngest
<1> QED
  BY <1>2, FitsKept DEF UInv

\* The upgrade of a generation that nobody comes after.
LEMMA UpgradedKept ==
  ASSUME UInv, NEW g \in Gens, Fits(g), ~gen[g].upgraded, gen'[g].upgraded,
         gen[g].stage # "none", gen'[g].stage # "none"
  PROVE  UInv'
<1>1. ASSUME NEW h \in Gens
      PROVE  /\ gen'[h].stage = "none" <=> gen[h].stage = "none"
             /\ ~gen'[h].upgraded => ~gen[h].upgraded
  BY DEF Fits, OnlyOf
<1>2. Chain' /\ Youngest(g)'
  BY <1>1 DEF UInv, Chain, Youngest
<1>3. Failed'
  BY <1>2 DEF Failed, Youngest
<1> QED
  BY <1>2, <1>3, FitsKept DEF UInv, YoungestServes

LEMMA ServiceGoesOn ==
  ASSUME YoungestServes, NEW g \in Gens, OnlyOf(g), closing => closing',
         gen'[g].stage = "none" <=> gen[g].stage = "none", gen'[g].upgraded = gen[g].upgraded,
         gen[g].stage = "failed" => gen'[g].stage = "failed",
         closing' \/ \A h \in Gens : h # g => signals'[h] = signals[h],
         Interrupted(g) => Interrupted(g)',
         gen[g].stage \in Booting \cup Running /\ "QUIT" \notin signals[g] =>
           \/ Interrupted(g)'
           \/ gen'[g].stage \in Booting \cup Running /\ "QUIT" \notin signals'[g]
  PROVE  YoungestServes'
<1>1. ASSUME NEW h \in Gens
      PROVE  /\ gen'[h].stage = "none" <=> gen[h].stage = "none"
             /\ gen'[h].upgraded = gen[h].upgraded
             /\ gen[h].stage = "failed" => gen'[h].stage = "failed"
  BY DEF OnlyOf
<1>2. CASE closing'
  BY <1>2 DEF YoungestServes
<1>3. CASE Failed
  <2>1. Failed'
    BY <1>1, <1>3 DEF Failed
  <2> QED
    BY <2>1 DEF YoungestServes
<1>4. CASE ~closing' /\ \E h \in Gens : Interrupted(h)
  <2>1. PICK h \in Gens : Interrupted(h)
    BY <1>4
  <2>2. CASE h = g
    BY <2>1, <2>2 DEF YoungestServes
  <2>3. CASE h # g
    <3>1. gen'[h] = gen[h] /\ signals'[h] = signals[h]
      BY <1>4, <2>3 DEF OnlyOf
    <3>2. Interrupted(h)'
      BY <2>1, <3>1 DEF Interrupted
    <3> QED
      BY <3>2 DEF YoungestServes
  <2> QED
    BY <2>2, <2>3
<1>5. CASE ~closing' /\ \E h \in Gens : /\ Youngest(h) /\ gen[h].stage \in Booting \cup Running
                                        /\ "QUIT" \notin signals[h]
  <2>1. PICK h \in Gens : /\ Youngest(h) /\ gen[h].stage \in Booting \cup Running
                          /\ "QUIT" \notin signals[h]
    BY <1>5
  <2>2. Youngest(h)'
    BY <1>1, <2>1 DEF Youngest
  <2>3. CASE h = g
    BY <2>1, <2>2, <2>3 DEF YoungestServes
  <2>4. CASE h # g
    <3>1. gen'[h] = gen[h] /\ signals'[h] = signals[h]
      BY <1>5, <2>4 DEF OnlyOf
    <3> QED
      BY <2>1, <2>2, <3>1 DEF YoungestServes
  <2> QED
    BY <2>3, <2>4
<1> QED
  BY <1>2, <1>3, <1>4, <1>5 DEF YoungestServes

\* A step of g that gives nobody a file, and leaves g the name it has.
LEMMA FitsSo ==
  ASSUME UInv, NEW g \in Gens, OnlyOf(g), NameTells(gen'[g]),
         signals' \in [Gens -> SUBSET {"USR1", "QUIT"}],
         SignalTells(gen'[g], signals'[g]),
         "QUIT" \in signals'[g] /\ gen'[g].stage = "named" => closing',
         \A h \in Gens : h # g =>
           /\ "USR1" \in signals'[h] => "USR1" \in signals[h]
           /\ gen[h].stage = "none" => signals'[h] = signals[h]
           /\ "QUIT" \in signals'[h] => "QUIT" \in signals[h] \/ closing',
         UNCHANGED <<told, closing>>,
         files' \in [Names -> Gens \cup {NoGen}],
         \A n \in Names : files'[n] \in {files[n], NoGen},
         OwnName(g)' = OwnName(g),
         \A n \in Names : files'[n] = g /\ OwnName(g) = n /\ Named(gen[g]) => Named(gen'[g])
  PROVE  Fits(g)
<1>1. Typed /\ FilesOwned
  BY DEF UInv
<1>2. closing' \in BOOLEAN /\ (closing => closing') /\ told' \subseteq Gens
  BY <1>1 DEF Typed
<1>3. ASSUME NEW n \in Names, files'[n] # NoGen
      PROVE  files'[n] \in {files[n], g}
  BY <1>3
<1>4. ASSUME NEW n \in Names, files'[n] = g
      PROVE  OwnName(g)' = n /\ Named(gen'[g])
  <2>1. files[n] = g
    BY <1>4 DEF Gens, NoGen
  <2>2. OwnName(g) = n /\ Named(gen[g])
    BY <1>1, <2>1 DEF FilesOwned
  <2> QED
    BY <1>4, <2>2
<1> QED
  BY <1>2, <1>3, <1>4 DEF Fits

LEMMA CalmStep ==
  ASSUME UInv, NEW g \in Gens, Calm(g)
  PROVE  UInv'
<1>1. Typed /\ NamesTell /\ SignalsTell /\ YoungestServes
  BY DEF UInv
<1>2. /\ OnlyOf(g) /\ UNCHANGED <<signals, files, told, closing>>
      /\ gen'[g].name = gen[g].name /\ gen'[g].handler = gen[g].handler
      /\ gen'[g].upgraded = gen[g].upgraded
      /\ \/ gen'[g].stage = gen[g].stage
         \/ gen[g].stage \in Booting /\ gen'[g].stage \in Booting \cup {"starting"}
         \/ gen[g].stage = "named" /\ gen'[g].stage = "serving"
  BY DEF Calm
<1>3. NameTells(gen[g]) /\ SignalTells(gen[g], signals[g])
  BY <1>1 DEF NamesTell, SignalsTell
<1>4. NameTells(gen'[g])
  BY <1>2, <1>3 DEF NameTells, Booting
<1>5. SignalTells(gen'[g], signals'[g])
  BY <1>2, <1>3 DEF SignalTells, Booting
<1>6. "QUIT" \in signals'[g] /\ gen'[g].stage = "named" => closing'
  BY <1>1, <1>2 DEF SignalsTell, Booting
<1>7. OwnName(g)' = OwnName(g)
  BY <1>2 DEF OwnName
<1>8. Named(gen[g]) => Named(gen'[g])
  BY <1>2 DEF Named, Booting
<1>9. Fits(g)
  <2>1. signals' \in [Gens -> SUBSET {"USR1", "QUIT"}] /\ files' \in [Names -> Gens \cup {NoGen}]
    BY <1>1, <1>2 DEF Typed
  <2>2. \A h \in Gens : h # g =>
          /\ "USR1" \in signals'[h] => "USR1" \in signals[h]
          /\ gen[h].stage = "none" => signals'[h] = signals[h]
          /\ "QUIT" \in signals'[h] => "QUIT" \in signals[h] \/ closing'
    BY <1>2
  <2>3. \A n \in Names : files'[n] \in {files[n], NoGen}
    BY <1>2
  <2> QED
    BY <1>2, <1>4, <1>5, <1>6, <1>7, <1>8, <2>1, <2>2, <2>3, FitsSo
<1>10. gen'[g].stage = "none" <=> gen[g].stage = "none"
  BY <1>2 DEF Booting
<1>11. YoungestServes'
  <2>1. Interrupted(g) => Interrupted(g)'
    BY <1>2 DEF Interrupted, Running, Booting
  <2>2. gen[g].stage \in Booting \cup Running => gen'[g].stage \in Booting \cup Running
    BY <1>2 DEF Running
  <2>3. gen[g].stage = "failed" => gen'[g].stage = "failed"
    BY <1>2 DEF Booting
  <2>4. (closing => closing') /\ \A h \in Gens : signals'[h] = signals[h]
    BY <1>2
  <2> QED
    BY <1>1, <1>2, <1>10, <2>1, <2>2, <2>3, <2>4, ServiceGoesOn
<1> QED
  BY <1>2, <1>9, <1>10, <1>11, SameKept

\* exit(1) leaves the file to name a process that has failed.
LEMMA FailStep ==
  ASSUME ConstantsAssumption, UInv, NEW g \in Gens, Fail(g)
  PROVE  UInv'
<1>1. Typed /\ NamesTell
  BY DEF UInv
<1>2. /\ OnlyOf(g) /\ gen'[g].stage = "failed"
      /\ gen'[g].name = gen[g].name /\ gen'[g].handler = gen[g].handler
      /\ gen'[g].upgraded = gen[g].upgraded
      /\ signals' = [signals EXCEPT ![g] = {}] /\ UNCHANGED <<told, closing>>
      /\ gen[g].stage \in Booting \cup {"starting", "named", "serving", "stopping"}
      /\ \/ UNCHANGED files
         \/ files' = [files EXCEPT ![0] = NoGen]
  BY <1>1, FailChanges
<1>3. /\ signals' \in [Gens -> SUBSET {"USR1", "QUIT"}] /\ signals'[g] = {}
      /\ \A h \in Gens : h # g => signals'[h] = signals[h]
  BY <1>1, <1>2 DEF Typed
<1>4. /\ files' \in [Names -> Gens \cup {NoGen}]
      /\ \A n \in Names : files'[n] \in {files[n], NoGen}
  BY <1>1, <1>2, ConstantsAssumption DEF Typed, Names
<1>5. NameTells(gen[g])
  BY <1>1 DEF NamesTell
<1>6. NameTells(gen'[g]) /\ OwnName(g)' = OwnName(g)
  BY <1>2, <1>5 DEF NameTells, Booting, OwnName
<1>7. SignalTells(gen'[g], signals'[g]) /\ Named(gen'[g])
  BY <1>2, <1>3 DEF SignalTells, Named
<1>8. Fits(g)
  BY <1>2, <1>3, <1>4, <1>6, <1>7, FitsSo
<1>9. YoungestServes'
  <2>1. Failed'
    BY <1>2 DEF Failed
  <2> QED
    BY <2>1 DEF YoungestServes
<1>10. gen'[g].stage = "none" <=> gen[g].stage = "none"
  BY <1>2 DEF Booting
<1> QED
  BY <1>2, <1>8, <1>9, <1>10, SameKept

LEMMA WritePidfileStep ==
  ASSUME ConstantsAssumption, UInv, NEW g \in Gens, "QUIT" \notin signals[g], WritePidfile(g)
  PROVE  UInv'
<1>1. Typed /\ NamesTell /\ SignalsTell /\ FilesOwned /\ YoungestServes
  BY DEF UInv
<1>2. /\ gen[g].stage = "starting" /\ UNCHANGED <<signals, told, closing>>
      /\ files' = [files EXCEPT ![0] = g]
  BY DEF WritePidfile, operator
<1>3. /\ OnlyOf(g) /\ gen'[g].stage = "named" /\ gen'[g].name = 0
      /\ gen'[g].handler = gen[g].handler /\ gen'[g].upgraded = gen[g].upgraded
  BY <1>1, InstanceChanges DEF WritePidfile
<1>4. /\ gen[g].name = NoName /\ gen[g].handler = "idle" /\ ~gen[g].upgraded
      /\ OwnName(g) = NoName /\ "USR1" \notin signals[g]
  <2>1. NameTells(gen[g]) /\ SignalTells(gen[g], signals[g])
    BY <1>1 DEF NamesTell, SignalsTell
  <2> QED
    BY <1>2, <2>1 DEF NameTells, SignalTells, NoName, OwnName
<1>5. 0 \in Names /\ files \in [Names -> Gens \cup {NoGen}]
  BY <1>1, ConstantsAssumption DEF Typed, Names
<1>6. /\ files' \in [Names -> Gens \cup {NoGen}] /\ files'[0] = g
      /\ \A n \in Names : n # 0 => files'[n] = files[n]
  BY <1>2, <1>5
<1>7. OwnName(g)' = 0 /\ ~Interrupted(g)
  BY <1>3, <1>4 DEF OwnName, Interrupted
<1>8. Fits(g)
  <2>1. NameTells(gen'[g])
    BY <1>3, <1>4 DEF NameTells, NoName, Booting
  <2>2. /\ signals' \in [Gens -> SUBSET {"USR1", "QUIT"}] /\ closing' \in BOOLEAN
        /\ told' \subseteq Gens
    BY <1>1, <1>2 DEF Typed
  <2>3. SignalTells(gen'[g], signals'[g]) /\ "QUIT" \notin signals'[g]
    BY <1>2, <1>3, <1>4 DEF SignalTells
  <2>4. \A n \in Names : files'[n] # NoGen => files'[n] \in {files[n], g}
    BY <1>6
  <2>5. ASSUME NEW n \in Names, files'[n] = g
        PROVE  OwnName(g)' = n /\ Named(gen'[g])
    <3>1. n = 0
      BY <1>1, <1>4, <1>6, <2>5 DEF FilesOwned, Names, NoName
    <3> QED
      BY <1>3, <1>7, <3>1 DEF Named
  <2> QED
    BY <1>2, <1>3, <1>6, <2>1, <2>2, <2>3, <2>4, <2>5 DEF Fits
<1>9. gen'[g].stage = "none" <=> gen[g].stage = "none"
  BY <1>2, <1>3
<1>10. YoungestServes'
  <2>1. (closing => closing') /\ \A h \in Gens : h # g => signals'[h] = signals[h]
    BY <1>2
  <2>2. gen'[g].stage \in Booting \cup Running /\ "QUIT" \notin signals'[g]
    BY <1>2, <1>3 DEF Running
  <2>3. gen[g].stage # "failed"
    BY <1>2
  <2> QED
    BY <1>1, <1>3, <1>7, <1>9, <2>1, <2>2, <2>3, ServiceGoesOn
<1> QED
  BY <1>3, <1>8, <1>9, <1>10, SameKept

\* Who has not upgraded is the youngest, and there is only one.
LEMMA OneYoungest ==
  ASSUME Chain, NEW g \in Gens, NEW h \in Gens, ~gen[g].upgraded, ~gen[h].upgraded,
         gen[g].stage # "none", gen[h].stage # "none"
  PROVE  g = h
<1>1. ~(h > g) /\ ~(g > h)
  BY DEF Chain, Youngest
<1> QED
  BY <1>1 DEF Gens

\* The pid file renamed is its own: nobody else has not upgraded.
LEMMA OwnFile ==
  ASSUME UInv, NEW g \in Gens, gen[g].stage # "none", ~gen[g].upgraded, 0 \in Names
  PROVE  /\ files[0] \in {g, NoGen}
         /\ \A h \in Gens : h # g /\ gen[h].stage # "none" => OwnName(h) # 0
<1>1. Typed /\ NamesTell /\ Chain /\ FilesOwned
  BY DEF UInv
<1>2. ASSUME NEW h \in Gens, gen[h].stage # "none", OwnName(h) = 0
      PROVE  h = g
  <2>1. ~gen[h].upgraded
    BY <1>1, <1>2, NamesOwned
  <2> QED
    BY <1>1, <1>2, <2>1, OneYoungest
<1>3. files[0] \in Gens \cup {NoGen}
  BY <1>1 DEF Typed
<1>4. ASSUME files[0] \in Gens
      PROVE  files[0] = g
  <2>1. OwnName(files[0]) = 0 /\ gen[files[0]].stage # "none"
    BY <1>1, <1>4 DEF FilesOwned, Named
  <2> QED
    BY <1>2, <1>4, <2>1
<1> QED
  BY <1>2, <1>3, <1>4

LEMMA RenameStep ==
  ASSUME ConstantsAssumption, UInv, NEW g \in Gens, RenamePidfile(g)
  PROVE  UInv'
<1>1. Typed /\ NamesTell /\ SignalsTell /\ FilesOwned /\ YoungestServes
  BY DEF UInv
<1>2. /\ gen[g].stage \in {"named", "serving", "stopping"} /\ "USR1" \in signals[g]
      /\ UNCHANGED <<told, closing>> /\ signals' = [signals EXCEPT ![g] = @ \ {"USR1"}]
  BY DEF RenamePidfile, operator
<1>3. NameTells(gen[g]) /\ SignalTells(gen[g], signals[g])
  BY <1>1 DEF NamesTell, SignalsTell
<1>4. /\ gen[g].name = 0 /\ gen[g].handler = "idle" /\ OwnName(g) = 0
      /\ ~gen[g].upgraded /\ ~Interrupted(g)
  BY <1>2, <1>3 DEF SignalTells, NameTells, OwnName, Interrupted
<1>5. 0 \in Names /\ 1 \in Names /\ files \in [Names -> Gens \cup {NoGen}]
  BY <1>1, ConstantsAssumption DEF Typed, Names
<1>6. /\ signals' \in [Gens -> SUBSET {"USR1", "QUIT"}] /\ "USR1" \notin signals'[g]
      /\ "QUIT" \in signals'[g] <=> "QUIT" \in signals[g]
      /\ \A h \in Gens : h # g => signals'[h] = signals[h]
  BY <1>1, <1>2 DEF Typed
<1>7. CASE UNCHANGED <<gen, files>>
  <2>1. OnlyOf(g) /\ gen'[g] = gen[g]
    BY <1>1, <1>7 DEF OnlyOf, Typed
  <2>2. NameTells(gen'[g]) /\ SignalTells(gen'[g], signals'[g])
    BY <1>2, <1>3, <1>6, <2>1 DEF SignalTells
  <2>3. "QUIT" \in signals'[g] /\ gen'[g].stage = "named" => closing'
    BY <1>1, <1>2, <1>6, <2>1 DEF SignalsTell
  <2>4. /\ OwnName(g)' = OwnName(g) /\ files' \in [Names -> Gens \cup {NoGen}]
        /\ \A n \in Names : files'[n] \in {files[n], NoGen}
    BY <1>5, <1>7, <2>1 DEF OwnName
  <2>5. Fits(g)
    BY <1>2, <1>6, <2>1, <2>2, <2>3, <2>4, FitsSo
  <2>6. YoungestServes'
    BY <1>1, <1>2, <1>4, <1>6, <2>1, ServiceGoesOn
  <2> QED
    BY <2>1, <2>5, <2>6, SameKept
<1>8. CASE ~UNCHANGED <<gen, files>>
  <2>1. /\ files[0] # NoGen
        /\ files' = [files EXCEPT ![0 + 1] = files[0], ![0] = NoGen]
        /\ gen' = [gen EXCEPT ![g].handler = "renamed", ![g].blocked = @ \cup {"USR1"}]
    BY <1>4, <1>8 DEF RenamePidfile
  <2>2. files[0] = g
    BY <1>2, <1>4, <1>5, <2>1, OwnFile
  <2>3. /\ files' \in [Names -> Gens \cup {NoGen}] /\ files'[0] = NoGen /\ files'[1] = g
        /\ \A n \in Names : n # 0 /\ n # 1 => files'[n] = files[n]
    BY <1>5, <2>1, <2>2
  <2>4. /\ OnlyOf(g) /\ gen'[g].stage = gen[g].stage /\ gen'[g].name = gen[g].name
        /\ gen'[g].handler = "renamed" /\ gen'[g].upgraded = gen[g].upgraded
    BY <1>1, <2>1, InstanceChanges
  <2>5. OwnName(g)' = 1
    BY <1>4, <2>4 DEF OwnName
  <2>6. Fits(g)
    <3>1. NameTells(gen'[g]) /\ SignalTells(gen'[g], signals'[g])
      BY <1>2, <1>3, <1>4, <1>6, <2>4 DEF NameTells, SignalTells
    <3>2. "QUIT" \in signals'[g] /\ gen'[g].stage = "named" => closing'
      BY <1>1, <1>2, <1>6, <2>4 DEF SignalsTell
    <3>3. closing' \in BOOLEAN /\ (closing => closing') /\ told' \subseteq Gens
      BY <1>1, <1>2 DEF Typed
    <3>4. \A n \in Names : files'[n] # NoGen => files'[n] \in {files[n], g}
      BY <2>3
    <3>5. ASSUME NEW n \in Names, files'[n] = g
          PROVE  OwnName(g)' = n /\ Named(gen'[g])
      <4>1. n = 1
        BY <1>1, <1>4, <2>3, <3>5 DEF FilesOwned, Gens, NoGen
      <4> QED
        BY <1>2, <2>4, <2>5, <4>1 DEF Named
    <3> QED
      BY <1>6, <2>3, <2>4, <3>1, <3>2, <3>3, <3>4, <3>5 DEF Fits
  <2>7. YoungestServes'
    <3>1. closing => closing'
      BY <1>2
    <3> QED
      BY <1>1, <1>2, <1>4, <1>6, <2>4, <3>1, ServiceGoesOn
  <2> QED
    BY <2>4, <2>6, <2>7, SameKept
<1> QED
  BY <1>7, <1>8

LEMMA StartFailsStep ==
  ASSUME UInv, NEW g \in Gens, StartFails(g)
  PROVE  UInv'
<1>1. Typed /\ NamesTell /\ SignalsTell
  BY DEF UInv
<1>2. /\ gen[g].handler = "renamed" /\ gen[g].stage \in {"named", "serving", "stopping"}
      /\ gen' = [gen EXCEPT ![g] = Upgraded(gen[g])]
      /\ UNCHANGED <<signals, files, told, closing>>
  BY DEF StartFails, Renamed, Local, operator
<1>3. gen[g].name = 0 /\ OwnName(g) = 1 /\ ~gen[g].upgraded
  BY <1>1, <1>2, NamesOwned
<1>4. /\ OnlyOf(g) /\ gen'[g].name = 1 /\ gen'[g].upgraded = TRUE /\ gen'[g].handler = "idle"
      /\ gen'[g].stage = gen[g].stage
  <2> DEFINE j == Upgraded(gen[g])
  <2>1. /\ IsInstance(j) /\ j.name = 1 /\ j.upgraded = TRUE /\ j.handler = "idle"
        /\ j.stage = gen[g].stage
    BY <1>1, <1>3, UpgradedInstance DEF Typed
  <2>2. gen' = [gen EXCEPT ![g] = j]
    BY <1>2
  <2> HIDE DEF j
  <2>3. OnlyOf(g) /\ gen'[g] = j
    BY <1>1, <2>1, <2>2, OneChanges
  <2> QED
    BY <2>1, <2>3
<1>5. NameTells(gen'[g]) /\ OwnName(g)' = OwnName(g)
  BY <1>2, <1>3, <1>4 DEF NameTells, OwnName, NoName, Booting
<1>6. SignalTells(gen'[g], signals'[g])
  BY <1>1, <1>2, <1>4 DEF SignalsTell, SignalTells
<1>7. "QUIT" \in signals'[g] /\ gen'[g].stage = "named" => closing'
  BY <1>1, <1>2, <1>4 DEF SignalsTell
<1>8. Named(gen'[g])
  BY <1>2, <1>4 DEF Named
<1>9. /\ signals' \in [Gens -> SUBSET {"USR1", "QUIT"}]
      /\ files' \in [Names -> Gens \cup {NoGen}]
      /\ \A n \in Names : files'[n] \in {files[n], NoGen}
      /\ \A h \in Gens : signals'[h] = signals[h]
  BY <1>1, <1>2 DEF Typed
<1>10. Fits(g)
  BY <1>2, <1>4, <1>5, <1>6, <1>7, <1>8, <1>9, FitsSo
<1> QED
  BY <1>2, <1>3, <1>4, <1>10, UpgradedKept

\* fork(): the child is a copy with an environment of its own, about to execve.
Forked(i, p) == [i EXCEPT !.stage = "forked", !.group = p.group, !.blocked = p.blocked,
                          !.env = CreateListenFdsEnv(p.fds)]

LEMMA ForkedInstance ==
  ASSUME NEW i, NEW p, IsInstance(i), IsInstance(p)
  PROVE  /\ IsInstance(Forked(i, p)) /\ Forked(i, p).stage = "forked"
         /\ Forked(i, p).name = i.name /\ Forked(i, p).handler = i.handler
         /\ Forked(i, p).upgraded = i.upgraded /\ Forked(i, p).group = p.group
         /\ Forked(i, p).env = CreateListenFdsEnv(p.fds) /\ Forked(i, p).fds = i.fds
<1> DEFINE mask == p.blocked
           text == CreateListenFdsEnv(p.fds)
           team == p.group
           i1 == [i EXCEPT !.stage = "forked"]
           i2 == [i1 EXCEPT !.group = team]
           i3 == [i2 EXCEPT !.blocked = mask]
           i4 == [i3 EXCEPT !.env = text]
<1>1. /\ IsInstance(i1) /\ i1.stage = "forked" /\ i1.name = i.name /\ i1.handler = i.handler
      /\ i1.upgraded = i.upgraded /\ i1.fds = i.fds
  BY DEF IsInstance, Stages, Booting
<1>2. /\ IsInstance(i2) /\ i2.stage = "forked" /\ i2.name = i.name /\ i2.handler = i.handler
      /\ i2.upgraded = i.upgraded /\ i2.fds = i.fds /\ i2.group = team
  <2>1. team \in 0 .. MaxGens
    BY DEF IsInstance
  <2> HIDE DEF i1, team
  <2> QED
    BY <1>1, <2>1 DEF IsInstance
<1>3. /\ IsInstance(i3) /\ i3.stage = "forked" /\ i3.name = i.name /\ i3.handler = i.handler
      /\ i3.upgraded = i.upgraded /\ i3.fds = i.fds /\ i3.group = team
  <2> HIDE DEF i2, mask, team
  <2> QED
    BY <1>2 DEF IsInstance
<1>4. /\ IsInstance(i4) /\ i4.stage = "forked" /\ i4.name = i.name /\ i4.handler = i.handler
      /\ i4.upgraded = i.upgraded /\ i4.fds = i.fds /\ i4.group = team /\ i4.env = text
  <2> HIDE DEF i3, text, team
  <2> QED
    BY <1>3 DEF IsInstance
<1>5. Forked(i, p) = i4
  BY DEF Forked
<1> QED
  BY <1>4, <1>5

\* The child of g is the first that is not born, and younger than g.
LEMMA NextBorn ==
  ASSUME Typed, NamesTell, Chain, NEW g \in Gens, NEW h \in Gens,
         gen[g].stage # "none", ~gen[g].upgraded,
         gen[h].stage = "none", \A k \in 1 .. (h - 1) : gen[k].stage # "none"
  PROVE  /\ h > g /\ ~gen[h].upgraded
         /\ \A k \in Gens : gen[k].stage = "none" => k >= h
         /\ \A k \in Gens : k > g => gen[k].stage = "none"
<1>1. ~gen[h].upgraded
  BY DEF NamesTell, NameTells, NoName
<1>2. \A k \in Gens : k > g => gen[k].stage = "none"
  BY DEF Chain, Youngest
<1>3. \A k \in Gens : k > h => gen[k].stage = "none"
  BY <1>1 DEF Chain, Youngest
<1>4. h > g
  BY <1>3 DEF Gens
<1>5. \A k \in Gens : gen[k].stage = "none" => k >= h
  BY DEF Gens
<1> QED
  BY <1>1, <1>2, <1>4, <1>5

Succession(g, h) == gen' = [gen EXCEPT ![g] = Upgraded(@), ![h] = Forked(@, gen[g])]

\* What StartSuccessor does to the two.
LEMMA SuccessorChanges ==
  ASSUME Typed, NamesTell, NEW g \in Gens, NEW h \in Gens, g # h, Renamed(g),
         Succession(g, h)
  PROVE  /\ gen' = [k \in Gens |-> gen'[k]] /\ \A k \in Gens : IsInstance(gen'[k])
         /\ gen'[g].name = 1 /\ gen'[g].upgraded = TRUE /\ gen'[g].handler = "idle"
         /\ gen'[g].stage = gen[g].stage /\ gen'[g].group = gen[g].group
         /\ gen'[g].env = gen[g].env /\ gen'[g].fds = gen[g].fds
         /\ gen'[h].stage = "forked" /\ gen'[h].name = gen[h].name
         /\ gen'[h].handler = gen[h].handler /\ gen'[h].upgraded = gen[h].upgraded
         /\ gen'[h].group = gen[g].group /\ gen'[h].fds = gen[h].fds
         /\ gen'[h].env = CreateListenFdsEnv(gen[g].fds)
         /\ \A k \in Gens : k # g /\ k # h => gen'[k] = gen[k]
<1> DEFINE j == Upgraded(gen[g])
           c == Forked(gen[h], gen[g])
<1>1. gen = [k \in Gens |-> gen[k]] /\ \A k \in Gens : IsInstance(gen[k])
  BY DEF Typed
<1>2. gen[g].name = 0
  BY NamesOwned DEF Renamed
<1>3. /\ IsInstance(j) /\ j.name = 1 /\ j.upgraded = TRUE /\ j.handler = "idle"
      /\ j.stage = gen[g].stage /\ j.group = gen[g].group
      /\ j.env = gen[g].env /\ j.fds = gen[g].fds
  BY <1>1, <1>2, UpgradedInstance
<1>4. /\ IsInstance(c) /\ c.stage = "forked" /\ c.name = gen[h].name
      /\ c.handler = gen[h].handler /\ c.upgraded = gen[h].upgraded
      /\ c.group = gen[g].group /\ c.env = CreateListenFdsEnv(gen[g].fds)
      /\ c.fds = gen[h].fds
  BY <1>1, ForkedInstance
<1>5. gen' = [gen EXCEPT ![g] = j, ![h] = c]
  BY <1>1 DEF Succession
<1>6. /\ gen' = [k \in Gens |-> gen'[k]] /\ gen'[g] = j /\ gen'[h] = c
      /\ \A k \in Gens : k # g /\ k # h => gen'[k] = gen[k]
  <2> HIDE DEF j, c
  <2> QED
    BY <1>1, <1>5
<1>7. \A k \in Gens : IsInstance(gen'[k])
  <2> TAKE k \in Gens
  <2>1. CASE k = g
    BY <1>3, <1>6, <2>1
  <2>2. CASE k = h
    BY <1>4, <1>6, <2>2
  <2>3. CASE k # g /\ k # h
    <3>1. gen'[k] = gen[k]
      BY <1>6, <2>3
    <3> QED
      BY <1>1, <3>1
  <2> QED
    BY <2>1, <2>2, <2>3
<1> HIDE DEF j, c
<1> QED
  BY <1>3, <1>4, <1>6, <1>7

LEMMA StartSuccessorStep ==
  ASSUME UInv, NEW g \in Gens, StartSuccessor(g)
  PROVE  UInv'
<1>1. Typed /\ NamesTell /\ SignalsTell /\ Chain /\ FilesOwned
  BY DEF UInv
<1>2. /\ Renamed(g) /\ gen[g].handler = "renamed"
      /\ gen[g].stage \in {"named", "serving", "stopping"}
      /\ UNCHANGED <<signals, files, told, closing>>
  BY DEF StartSuccessor, Renamed, Local, operator
<1>3. PICK h \in Gens :
        /\ gen[h].stage = "none" /\ \A k \in 1 .. (h - 1) : gen[k].stage # "none"
        /\ Succession(g, h)
  BY DEF StartSuccessor, Succession, Forked
<1>4. gen[g].name = 0 /\ OwnName(g) = 1 /\ ~gen[g].upgraded /\ gen[g].stage # "none"
  BY <1>1, <1>2, NamesOwned
<1>5. /\ h > g /\ ~gen[h].upgraded
      /\ \A k \in Gens : gen[k].stage = "none" => k >= h
      /\ \A k \in Gens : k > g => gen[k].stage = "none"
  BY <1>1, <1>3, <1>4, NextBorn
<1>6. g # h
  BY <1>3, <1>4
<1>7. /\ gen' = [k \in Gens |-> gen'[k]] /\ \A k \in Gens : IsInstance(gen'[k])
      /\ gen'[g].name = 1 /\ gen'[g].upgraded = TRUE /\ gen'[g].handler = "idle"
      /\ gen'[g].stage = gen[g].stage
      /\ gen'[h].stage = "forked" /\ gen'[h].name = gen[h].name
      /\ gen'[h].handler = gen[h].handler /\ gen'[h].upgraded = gen[h].upgraded
      /\ \A k \in Gens : k # g /\ k # h => gen'[k] = gen[k]
  BY <1>1, <1>2, <1>3, <1>6, SuccessorChanges
<1>8. /\ gen[h].name = NoName /\ gen[h].handler = "idle" /\ signals[h] = {}
      /\ OwnName(h) = NoName
  <2>1. NameTells(gen[h]) /\ SignalTells(gen[h], signals[h])
    BY <1>1 DEF NamesTell, SignalsTell
  <2> QED
    BY <1>3, <2>1 DEF NameTells, SignalTells, NoName, OwnName
<1>9. ASSUME NEW k \in Gens
      PROVE  /\ OwnName(k)' = OwnName(k)
             /\ k # h => gen'[k].stage = gen[k].stage
  <2>1. CASE k = g
    BY <1>4, <1>7, <2>1 DEF OwnName
  <2>2. CASE k = h
    BY <1>7, <1>8, <2>2 DEF OwnName
  <2>3. CASE k # g /\ k # h
    BY <1>7, <2>3 DEF OwnName
  <2> QED
    BY <2>1, <2>2, <2>3
<1>10. Typed'
  BY <1>1, <1>2, <1>7 DEF Typed, IsInstance
<1>11. NamesTell'
  <2> SUFFICES ASSUME NEW k \in Gens PROVE NameTells(gen'[k])
    BY DEF NamesTell, NameTells
  <2>1. CASE k = g
    BY <1>2, <1>7, <2>1 DEF NameTells, NoName, Booting
  <2>2. CASE k = h
    BY <1>5, <1>7, <1>8, <2>2 DEF NameTells, NoName
  <2>3. CASE k # g /\ k # h
    BY <1>1, <1>7, <2>3 DEF NamesTell
  <2> QED
    BY <2>1, <2>2, <2>3
<1>12. SignalsTell'
  <2> SUFFICES ASSUME NEW k \in Gens
               PROVE  /\ SignalTells(gen'[k], signals[k])
                      /\ "QUIT" \in signals[k] /\ gen'[k].stage = "named" => closing
    BY <1>2 DEF SignalsTell, SignalTells
  <2>1. CASE k = g
    BY <1>1, <1>2, <1>7, <2>1 DEF SignalsTell, SignalTells
  <2>2. CASE k = h
    BY <1>8, <2>2 DEF SignalTells
  <2>3. CASE k # g /\ k # h
    BY <1>1, <1>7, <2>3 DEF SignalsTell
  <2> QED
    BY <2>1, <2>2, <2>3
<1>13. Youngest(h)'
  <2>1. ASSUME NEW k \in Gens, k > h
        PROVE  gen'[k].stage = "none"
    <3>1. k > g /\ k # h /\ k # g
      BY <1>5, <2>1 DEF Gens
    <3> QED
      BY <1>5, <1>7, <3>1
  <2> QED
    BY <2>1 DEF Youngest
<1>14. Chain'
  <2> SUFFICES ASSUME NEW k \in Gens, ~gen'[k].upgraded
               PROVE  Youngest(k)'
    BY DEF Chain
  <2>1. CASE k = g
    BY <1>7, <2>1
  <2>2. CASE k = h
    BY <1>13, <2>2
  <2>3. CASE k # g /\ k # h
    <3>1. ~gen[k].upgraded
      BY <1>7, <2>3
    <3>2. Youngest(k)
      BY <1>1, <3>1 DEF Chain
    <3>3. ~(g > k)
      BY <1>4, <3>2 DEF Youngest
    <3>4. k > g
      BY <2>3, <3>3 DEF Gens
    <3>5. k > h
      BY <1>5, <2>3, <3>4 DEF Gens
    <3>6. ASSUME NEW l \in Gens, l > k
          PROVE  gen'[l].stage = "none"
      <4>1. l > g /\ l > h
        BY <3>4, <3>5, <3>6 DEF Gens
      <4>2. l # g /\ l # h
        BY <4>1 DEF Gens
      <4> QED
        BY <1>5, <1>7, <4>1, <4>2
    <3> QED
      BY <3>6 DEF Youngest
  <2> QED
    BY <2>1, <2>2, <2>3
<1>15. FilesOwned'
  <2> SUFFICES ASSUME NEW n \in Names, NEW k \in Gens, files[n] = k
               PROVE  OwnName(k)' = n /\ Named(gen'[k])
    BY <1>2 DEF FilesOwned, Named
  <2>1. CASE k = g
    BY <1>1, <1>2, <1>7, <1>9, <2>1 DEF FilesOwned, Named
  <2>2. CASE k = h
    BY <1>1, <1>3, <2>2 DEF FilesOwned, Named
  <2>3. CASE k # g /\ k # h
    BY <1>1, <1>7, <1>9, <2>3 DEF FilesOwned
  <2> QED
    BY <2>1, <2>2, <2>3
<1>16. YoungestServes'
  <2>1. "QUIT" \notin signals'[h] /\ gen'[h].stage \in Booting \cup Running
    BY <1>2, <1>7, <1>8 DEF Booting
  <2> QED
    BY <1>13, <2>1 DEF YoungestServes
<1> QED
  BY <1>10, <1>11, <1>12, <1>14, <1>15, <1>16 DEF UInv

\* signal_handler sends SIGQUIT on to others only when the operator has ended the service.
LEMMA QuitSent ==
  ASSUME Typed, SignalsTell, NEW g \in Gens, HandleQuit(g)
  PROVE  /\ signals' \in [Gens -> SUBSET {"USR1", "QUIT"}]
         /\ signals'[g] = signals[g] \ {"QUIT"}
         /\ \A h \in Gens : h # g =>
              /\ "USR1" \in signals'[h] => "USR1" \in signals[h]
              /\ gen[h].stage \notin Living => signals'[h] = signals[h]
              /\ "QUIT" \in signals'[h] => \/ "QUIT" \in signals[h]
                                           \/ h \in Reached(g) /\ gen[h].stage \in Living
              /\ ~closing => signals'[h] = signals[h]
<1>1. signals \in [Gens -> SUBSET {"USR1", "QUIT"}]
  BY DEF Typed
<1> DEFINE S(h) == CASE h = g -> signals[g] \ {"QUIT"}
                     [] h \in Reached(g) \ {g} /\ gen[h].stage \in Living ->
                          signals[h] \cup {"QUIT"}
                     [] OTHER -> signals[h]
<1>2. signals' = [h \in Gens |-> S(h)]
  BY DEF HandleQuit
<1>3. ASSUME NEW h \in Gens
      PROVE  \/ h = g /\ S(h) = signals[g] \ {"QUIT"}
             \/ /\ h # g /\ h \in Reached(g) /\ gen[h].stage \in Living
                /\ S(h) = signals[h] \cup {"QUIT"}
             \/ h # g /\ S(h) = signals[h]
  OBVIOUS
<1>4. ~closing => Reached(g) = {g}
  BY DEF SignalsTell, HandleQuit, Reached
<1>5. ASSUME NEW h \in Gens
      PROVE  /\ S(h) \in SUBSET {"USR1", "QUIT"}
             /\ h # g =>
                  /\ "USR1" \in S(h) => "USR1" \in signals[h]
                  /\ gen[h].stage \notin Living => S(h) = signals[h]
                  /\ "QUIT" \in S(h) => \/ "QUIT" \in signals[h]
                                        \/ h \in Reached(g) /\ gen[h].stage \in Living
                  /\ ~closing => S(h) = signals[h]
  <2> HIDE DEF S
  <2>1. signals[h] \in SUBSET {"USR1", "QUIT"} /\ signals[g] \in SUBSET {"USR1", "QUIT"}
    BY <1>1
  <2> QED
    BY <1>3, <1>4, <2>1
<1>6. S(g) = signals[g] \ {"QUIT"}
  OBVIOUS
<1> HIDE DEF S
<1> QED
  BY <1>2, <1>5, <1>6

LEMMA HandleQuitStep ==
  ASSUME UInv, NEW g \in Gens, HandleQuit(g)
  PROVE  UInv'
<1>1. Typed /\ NamesTell /\ SignalsTell /\ YoungestServes
  BY DEF UInv
<1>2. /\ gen[g].stage \in Running /\ "QUIT" \in signals[g]
      /\ UNCHANGED <<files, told, closing>>
  BY DEF HandleQuit, operator
<1>3. /\ OnlyOf(g) /\ gen'[g].stage = "stopping"
      /\ \/ /\ gen'[g].name = gen[g].name /\ gen'[g].upgraded = gen[g].upgraded
            /\ gen'[g].handler = IF gen[g].handler = "renamed" THEN "cut" ELSE gen[g].handler
         \/ /\ Renamed(g)
            /\ gen'[g].name = 1 /\ gen'[g].upgraded = TRUE /\ gen'[g].handler = "idle"
  BY <1>1, QuitChanges
<1>4. /\ signals' \in [Gens -> SUBSET {"USR1", "QUIT"}]
      /\ signals'[g] = signals[g] \ {"QUIT"}
      /\ \A h \in Gens : h # g =>
           /\ "USR1" \in signals'[h] => "USR1" \in signals[h]
           /\ gen[h].stage \notin Living => signals'[h] = signals[h]
           /\ ~closing => signals'[h] = signals[h]
  BY <1>1, QuitSent
<1>5. NameTells(gen[g]) /\ SignalTells(gen[g], signals[g])
  BY <1>1 DEF NamesTell, SignalsTell
<1>6. Renamed(g) => gen[g].name = 0 /\ gen[g].handler = "renamed" /\ ~gen[g].upgraded
  BY <1>5 DEF Renamed, NameTells
<1>7. NameTells(gen'[g])
  BY <1>3, <1>5, <1>6 DEF NameTells, Booting
<1>8. SignalTells(gen'[g], signals'[g])
  BY <1>3, <1>4, <1>5, <1>6 DEF SignalTells
<1>9. OwnName(g)' = OwnName(g)
  BY <1>3, <1>6 DEF OwnName
<1>10. Fits(g)
  <2>1. Named(gen'[g]) /\ gen'[g].stage # "named"
    BY <1>3 DEF Named
  <2>2. /\ files' \in [Names -> Gens \cup {NoGen}]
        /\ \A n \in Names : files'[n] \in {files[n], NoGen}
    BY <1>1, <1>2 DEF Typed
  <2>3. ASSUME NEW h \in Gens, h # g
        PROVE  /\ "USR1" \in signals'[h] => "USR1" \in signals[h]
               /\ gen[h].stage = "none" => signals'[h] = signals[h]
               /\ "QUIT" \in signals'[h] => "QUIT" \in signals[h] \/ closing'
    BY <1>2, <1>4, <2>3 DEF Living, Booting, Running
  <2> QED
    BY <1>2, <1>3, <1>4, <1>7, <1>8, <1>9, <2>1, <2>2, <2>3, FitsSo
<1>11. gen[g].stage # "none" /\ gen[g].stage # "failed" /\ gen'[g].stage # "none"
  BY <1>2, <1>3 DEF Running
<1>12. CASE Renamed(g) /\ gen'[g].upgraded = TRUE /\ gen'[g].handler = "idle"
  BY <1>6, <1>10, <1>11, <1>12, UpgradedKept
<1>13. CASE /\ gen'[g].upgraded = gen[g].upgraded
            /\ gen'[g].handler = IF gen[g].handler = "renamed" THEN "cut" ELSE gen[g].handler
  <2>1. YoungestServes'
    <3>1. closing' \/ \A h \in Gens : h # g => signals'[h] = signals[h]
      BY <1>2, <1>4
    <3>2. Interrupted(g) => Interrupted(g)'
      BY <1>13 DEF Interrupted
    <3>3. closing => closing'
      BY <1>2
    <3> QED
      BY <1>1, <1>2, <1>3, <1>11, <1>13, <3>1, <3>2, <3>3, ServiceGoesOn
  <2> QED
    BY <1>10, <1>11, <1>13, <2>1, SameKept
<1> QED
  BY <1>3, <1>12, <1>13

\* The end of an image that has no file: without the handlers or with inherited ones.
LEMMA ImageEnds ==
  ASSUME UInv, NEW g \in Gens, Doomed(g), UNCHANGED <<told, closing>>,
         gen' = [gen EXCEPT ![g].stage = "gone"], signals' = [signals EXCEPT ![g] = {}],
         files' \in [Names -> Gens \cup {NoGen}],
         \A n \in Names : files'[n] \in {files[n], NoGen}
  PROVE  UInv'
<1>1. Typed /\ NamesTell /\ YoungestServes
  BY DEF UInv
<1>2. gen[g].stage \in Booting /\ "QUIT" \in signals[g]
  BY DEF Doomed
<1>3. /\ OnlyOf(g) /\ gen'[g].stage = "gone" /\ gen'[g].name = gen[g].name
      /\ gen'[g].handler = gen[g].handler /\ gen'[g].upgraded = gen[g].upgraded
  BY <1>1, StageChanges DEF Stages
<1>4. /\ signals' \in [Gens -> SUBSET {"USR1", "QUIT"}] /\ signals'[g] = {}
      /\ \A h \in Gens : h # g => signals'[h] = signals[h]
  BY <1>1 DEF Typed
<1>5. NameTells(gen'[g]) /\ SignalTells(gen'[g], signals'[g])
  <2>1. NameTells(gen[g])
    BY <1>1 DEF NamesTell
  <2> QED
    BY <1>3, <1>4, <2>1 DEF NameTells, SignalTells, Booting
<1>6. OwnName(g)' = OwnName(g) /\ ~Named(gen[g])
  BY <1>2, <1>3 DEF OwnName, Named, Booting
<1>7. Fits(g)
  BY <1>3, <1>4, <1>5, <1>6, FitsSo
<1>8. YoungestServes'
  <2>1. Interrupted(g) => Interrupted(g)'
    BY <1>2, <1>3 DEF Interrupted, Booting, Running
  <2>2. gen[g].stage \notin {"none", "failed"}
    BY <1>2 DEF Booting
  <2> QED
    BY <1>1, <1>2, <1>3, <1>4, <2>1, <2>2, ServiceGoesOn
<1>9. gen'[g].stage = "none" <=> gen[g].stage = "none"
  BY <1>2, <1>3 DEF Booting
<1> QED
  BY <1>3, <1>7, <1>8, <1>9, SameKept

LEMMA ImageEndsStep ==
  ASSUME UInv, NEW g \in Gens, DieOfQuit(g) \/ ExitInherited(g)
  PROVE  UInv'
<1>1. Typed
  BY DEF UInv
<1>2. /\ Doomed(g) /\ UNCHANGED <<told, closing>>
      /\ gen' = [gen EXCEPT ![g].stage = "gone"] /\ signals' = [signals EXCEPT ![g] = {}]
  BY DEF DieOfQuit, ExitInherited, Inherits, operator
<1>3. /\ files' \in [Names -> Gens \cup {NoGen}]
      /\ \A n \in Names : files'[n] \in {files[n], NoGen}
  <2>1. CASE UNCHANGED files
    BY <1>1, <2>1 DEF Typed
  <2>2. CASE ExitInherited(g)
    <3>1. PICK p \in Gens : files' = [files EXCEPT ![gen[p].name] = NoGen]
      BY <2>2 DEF ExitInherited
    <3> QED
      BY <1>1, <3>1 DEF Typed
  <2> QED
    BY <2>1, <2>2 DEF DieOfQuit
<1> QED
  BY <1>2, <1>3, ImageEnds

\* Who exits takes the file of its name with it, and has another only when it was cut
\* short.
LEMMA ExitStep ==
  ASSUME UInv, NEW g \in Gens, ExitAndCleanup(g)
  PROVE  UInv'
<1>1. Typed /\ NamesTell /\ YoungestServes
  BY DEF UInv
<1>2. /\ gen[g].stage = "stopping" /\ gen[g].handler # "renamed" /\ UNCHANGED <<told, closing>>
      /\ gen' = [gen EXCEPT ![g].stage = "gone"] /\ signals' = [signals EXCEPT ![g] = {}]
      /\ files' = IF gen[g].name = NoName THEN files ELSE [files EXCEPT ![gen[g].name] = NoGen]
  BY DEF ExitAndCleanup, MayExit, operator
<1>3. /\ OnlyOf(g) /\ gen'[g].stage = "gone" /\ gen'[g].name = gen[g].name
      /\ gen'[g].handler = gen[g].handler /\ gen'[g].upgraded = gen[g].upgraded
  BY <1>1, <1>2, StageChanges DEF Stages
<1>4. /\ signals' \in [Gens -> SUBSET {"USR1", "QUIT"}] /\ signals'[g] = {}
      /\ \A h \in Gens : h # g => signals'[h] = signals[h]
  BY <1>1, <1>2 DEF Typed
<1>5. /\ files' \in [Names -> Gens \cup {NoGen}]
      /\ \A n \in Names : files'[n] \in {files[n], NoGen}
      /\ \A n \in Names : n = gen[g].name => files'[n] = NoGen
  <2>1. files \in [Names -> Gens \cup {NoGen}]
    BY <1>1 DEF Typed
  <2>2. CASE gen[g].name = NoName
    BY <1>2, <2>1, <2>2 DEF Names, NoName
  <2>3. CASE gen[g].name # NoName
    BY <1>2, <2>1, <2>3
  <2> QED
    BY <2>2, <2>3
<1>6. NameTells(gen'[g]) /\ SignalTells(gen'[g], signals'[g])
  <2>1. NameTells(gen[g])
    BY <1>1 DEF NamesTell
  <2> QED
    BY <1>2, <1>3, <1>4, <2>1 DEF NameTells, SignalTells, Booting
<1>7. OwnName(g)' = OwnName(g)
  BY <1>3 DEF OwnName
<1>8. ASSUME NEW n \in Names, files'[n] = g, OwnName(g) = n
      PROVE  Named(gen'[g])
  <2>1. n # gen[g].name
    BY <1>5, <1>8 DEF Gens, NoGen
  <2>2. gen[g].handler = "cut"
    BY <1>2, <1>8, <2>1 DEF OwnName
  <2> QED
    BY <1>3, <2>2 DEF Named
<1>9. Fits(g)
  BY <1>2, <1>3, <1>4, <1>5, <1>6, <1>7, <1>8, FitsSo
<1>10. YoungestServes'
  <2>1. Interrupted(g) => Interrupted(g)'
    BY <1>2, <1>3 DEF Interrupted
  <2>2. gen[g].stage \notin {"none", "failed"} \cup Booting \cup Running
    BY <1>2 DEF Booting, Running
  <2>3. closing => closing'
    BY <1>2
  <2> QED
    BY <1>1, <1>3, <1>4, <2>1, <2>2, <2>3, ServiceGoesOn
<1> QED
  BY <1>2, <1>3, <1>9, <1>10, SameKept

-----------------------------------------------------------------------------
(* The steps of the operator, who sends signals only. *)

LEMMA SignalSent ==
  ASSUME Typed, NEW g \in Gens, NEW sig \in {"USR1", "QUIT"}, Signal(g, sig)
  PROVE  /\ signals' \in [Gens -> SUBSET {"USR1", "QUIT"}]
         /\ \A h \in Gens : h # g => signals'[h] = signals[h]
         /\ gen[g].stage \in Living => signals'[g] = signals[g] \cup {sig}
         /\ gen[g].stage \notin Living => signals'[g] = signals[g]
<1>1. signals \in [Gens -> SUBSET {"USR1", "QUIT"}]
  BY DEF Typed
<1>2. CASE gen[g].stage \in Living
  <2>1. signals' = [signals EXCEPT ![g] = signals[g] \cup {sig}]
    BY <1>2 DEF Signal
  <2> QED
    BY <1>1, <1>2, <2>1
<1>3. CASE gen[g].stage \notin Living
  BY <1>1, <1>3 DEF Signal
<1> QED
  BY <1>2, <1>3

\* Only the signals of g and what the operator knows change.
LEMMA SignalFits ==
  ASSUME UInv, NEW g \in Gens, UNCHANGED <<gen, files>>, told' \subseteq Gens,
         closing' \in BOOLEAN, closing => closing',
         signals' \in [Gens -> SUBSET {"USR1", "QUIT"}],
         \A h \in Gens : h # g => signals'[h] = signals[h],
         SignalTells(gen[g], signals'[g]),
         "QUIT" \in signals'[g] /\ gen[g].stage = "named" => closing'
  PROVE  OnlyOf(g) /\ gen'[g] = gen[g] /\ Fits(g)
<1>1. Typed /\ NamesTell /\ FilesOwned
  BY DEF UInv
<1>2. OnlyOf(g) /\ gen'[g] = gen[g]
  BY <1>1 DEF OnlyOf, Typed
<1>3. NameTells(gen'[g]) /\ SignalTells(gen'[g], signals'[g])
  BY <1>1, <1>2 DEF NamesTell
<1>4. ASSUME NEW n \in Names, files'[n] = g
      PROVE  OwnName(g)' = n /\ Named(gen'[g])
  BY <1>1, <1>2, <1>4 DEF FilesOwned, OwnName
<1>5. /\ files' \in [Names -> Gens \cup {NoGen}]
      /\ \A n \in Names : files'[n] # NoGen => files'[n] \in {files[n], g}
  BY <1>1 DEF Typed
<1>6. "QUIT" \in signals'[g] /\ gen'[g].stage = "named" => closing'
  BY <1>2
<1> QED
  BY <1>2, <1>3, <1>4, <1>5, <1>6 DEF Fits

LEMMA ScriptUpgradeStep ==
  ASSUME ConstantsAssumption, UInv, ScriptUpgrade
  PROVE  UInv'
<1>1. Typed /\ NamesTell /\ SignalsTell /\ FilesOwned /\ YoungestServes
  BY DEF UInv
<1>2. 0 \in Names /\ files \in [Names -> Gens \cup {NoGen}]
  BY <1>1, ConstantsAssumption DEF Typed, Names
<1>3. PICK g \in Gens : files[0] = g
  BY <1>2 DEF ScriptUpgrade
<1>4. UNCHANGED <<gen, files, told, closing>> /\ Signal(g, "USR1")
  BY <1>3 DEF ScriptUpgrade
<1>5. /\ signals' \in [Gens -> SUBSET {"USR1", "QUIT"}]
      /\ \A h \in Gens : h # g => signals'[h] = signals[h]
      /\ gen[g].stage \in Living => signals'[g] = signals[g] \cup {"USR1"}
      /\ gen[g].stage \notin Living => signals'[g] = signals[g]
  BY <1>1, <1>4, SignalSent
<1>6. OwnName(g) = 0 /\ Named(gen[g])
  BY <1>1, <1>2, <1>3 DEF FilesOwned
<1>7. gen[g].name = 0 /\ gen[g].handler = "idle"
  BY <1>1, <1>6, NamesOwned
<1>8. SignalTells(gen[g], signals[g]) /\ ("QUIT" \in signals'[g] <=> "QUIT" \in signals[g])
  BY <1>1, <1>5 DEF SignalsTell
<1>9. SignalTells(gen[g], signals'[g])
  <2>1. CASE gen[g].stage \in Living
    BY <1>5, <1>6, <1>7, <2>1 DEF SignalTells, Named, Living, Booting, Running
  <2>2. CASE gen[g].stage \notin Living
    BY <1>5, <1>8, <2>2
  <2> QED
    BY <2>1, <2>2
<1>10. "QUIT" \in signals'[g] /\ gen[g].stage = "named" => closing'
  BY <1>1, <1>4, <1>8 DEF SignalsTell
<1>11. OnlyOf(g) /\ gen'[g] = gen[g] /\ Fits(g)
  <2>1. told' \subseteq Gens /\ closing' \in BOOLEAN
    BY <1>1, <1>4 DEF Typed
  <2> QED
    BY <1>4, <1>5, <1>9, <1>10, <2>1, SignalFits
<1>12. YoungestServes'
  <2>1. Interrupted(g) => Interrupted(g)'
    BY <1>8, <1>11 DEF Interrupted
  <2>2. closing => closing'
    BY <1>4
  <2> QED
    BY <1>1, <1>5, <1>8, <1>11, <2>1, <2>2, ServiceGoesOn
<1> QED
  BY <1>11, <1>12, SameKept

\* The generation that is told to quit is not the one that goes on: it has upgraded,
\* or is about to.
LEMMA ScriptQuitStep ==
  ASSUME ConstantsAssumption, UInv, ScriptQuit
  PROVE  UInv'
<1>1. Typed /\ NamesTell /\ SignalsTell /\ Chain /\ FilesOwned /\ YoungestServes
  BY DEF UInv
<1>2. UNCHANGED <<gen, files, closing>>
  BY DEF ScriptQuit
<1>3. 1 \in Names /\ files \in [Names -> Gens \cup {NoGen}]
  BY <1>1, ConstantsAssumption DEF Typed, Names
<1>4. CASE files[1] = NoGen
  <2>1. UNCHANGED <<signals, told>>
    BY <1>4 DEF ScriptQuit
  <2>2. Typed'
    BY <1>1, <1>2, <2>1 DEF Typed, IsInstance
  <2>3. NamesTell' /\ SignalsTell' /\ Chain' /\ FilesOwned'
    BY <1>1, <1>2, <2>1
       DEF NamesTell, NameTells, SignalsTell, SignalTells, Chain, Youngest, FilesOwned, OwnName,
           Named
  <2>4. YoungestServes'
    BY <1>1, <1>2, <2>1 DEF YoungestServes, Failed, Interrupted, Youngest
  <2> QED
    BY <2>2, <2>3, <2>4 DEF UInv
<1>5. CASE files[1] # NoGen
  <2>1. PICK g \in Gens : files[1] = g
    BY <1>3, <1>5
  <2>2. /\ Signal(g, "QUIT") /\ told' = told \cup {g} /\ gen[g].stage # "named"
    BY <1>5, <2>1 DEF ScriptQuit
  <2>3. /\ signals' \in [Gens -> SUBSET {"USR1", "QUIT"}]
        /\ \A h \in Gens : h # g => signals'[h] = signals[h]
        /\ gen[g].stage \in Living => signals'[g] = signals[g] \cup {"QUIT"}
        /\ gen[g].stage \notin Living => signals'[g] = signals[g]
    BY <1>1, <2>2, SignalSent
  <2>4. OwnName(g) = 1 /\ Named(gen[g])
    BY <1>1, <1>3, <2>1 DEF FilesOwned
  <2>5. gen[g].handler \in {"renamed", "cut"} \/ gen[g].upgraded
    BY <1>1, <2>4, NamesOwned
  <2>6. SignalTells(gen[g], signals'[g])
    <3>1. SignalTells(gen[g], signals[g])
      BY <1>1 DEF SignalsTell
    <3> QED
      BY <2>3, <2>4, <3>1 DEF SignalTells, Named
  <2>7. OnlyOf(g) /\ gen'[g] = gen[g] /\ Fits(g)
    <3>1. told' \subseteq Gens /\ closing' \in BOOLEAN /\ (closing => closing')
      BY <1>1, <1>2, <2>2 DEF Typed
    <3> QED
      BY <1>2, <2>2, <2>3, <2>6, <3>1, SignalFits
  <2>8. YoungestServes'
    <3>1. CASE closing
      BY <1>2, <3>1 DEF YoungestServes
    <3>2. CASE Failed
      <4>1. Failed'
        BY <1>2, <3>2 DEF Failed
      <4> QED
        BY <4>1 DEF YoungestServes
    <3>3. CASE \E h \in Gens : Interrupted(h)
      <4>1. PICK h \in Gens : Interrupted(h)
        BY <3>3
      <4>2. "QUIT" \in signals[h] => "QUIT" \in signals'[h]
        BY <2>3
      <4>3. Interrupted(h)'
        BY <1>2, <4>1, <4>2 DEF Interrupted
      <4> QED
        BY <4>3 DEF YoungestServes
    <3>4. CASE \E h \in Gens : /\ Youngest(h) /\ gen[h].stage \in Booting \cup Running
                               /\ "QUIT" \notin signals[h]
      <4>1. PICK h \in Gens : /\ Youngest(h) /\ gen[h].stage \in Booting \cup Running
                              /\ "QUIT" \notin signals[h]
        BY <3>4
      <4>2. Youngest(h)'
        BY <1>2, <4>1 DEF Youngest
      <4>3. CASE h # g
        BY <1>2, <2>3, <4>1, <4>2, <4>3 DEF YoungestServes
      <4>4. CASE h = g /\ gen[g].handler \in {"renamed", "cut"}
        <5>1. "QUIT" \in signals'[g] /\ gen[g].stage \in Running
          BY <2>3, <2>4, <4>1, <4>4 DEF Living, Named, Booting, Running
        <5>2. Interrupted(g)'
          BY <1>2, <4>4, <5>1 DEF Interrupted
        <5> QED
          BY <5>2 DEF YoungestServes
      <4>5. CASE h = g /\ gen[g].upgraded
        <5>1. Failed'
          BY <1>2, <4>1, <4>5 DEF Failed, Youngest
        <5> QED
          BY <5>1 DEF YoungestServes
      <4> QED
        BY <2>5, <4>3, <4>4, <4>5
    <3> QED
      BY <1>1, <3>1, <3>2, <3>3, <3>4 DEF YoungestServes
  <2> QED
    BY <2>7, <2>8, SameKept
<1> QED
  BY <1>4, <1>5

LEMMA OperatorStopsStep ==
  ASSUME ConstantsAssumption, UInv, OperatorStops
  PROVE  UInv'
<1>1. Typed /\ SignalsTell /\ FilesOwned
  BY DEF UInv
<1>2. 0 \in Names /\ files \in [Names -> Gens \cup {NoGen}]
  BY <1>1, ConstantsAssumption DEF Typed, Names
<1>3. PICK g \in Gens : files[0] = g
  BY <1>2 DEF OperatorStops
<1>4. /\ UNCHANGED <<gen, files>> /\ Signal(g, "QUIT")
      /\ closing' = TRUE /\ told' = told \cup {g}
  BY <1>3 DEF OperatorStops
<1>5. /\ signals' \in [Gens -> SUBSET {"USR1", "QUIT"}]
      /\ \A h \in Gens : h # g => signals'[h] = signals[h]
      /\ gen[g].stage \in Living => signals'[g] = signals[g] \cup {"QUIT"}
      /\ gen[g].stage \notin Living => signals'[g] = signals[g]
  BY <1>1, <1>4, SignalSent
<1>6. SignalTells(gen[g], signals'[g])
  <2>1. SignalTells(gen[g], signals[g]) /\ Named(gen[g])
    BY <1>1, <1>2, <1>3 DEF SignalsTell, FilesOwned
  <2> QED
    BY <1>5, <2>1 DEF SignalTells, Named
<1>7. OnlyOf(g) /\ gen'[g] = gen[g] /\ Fits(g)
  <2>1. told' \subseteq Gens /\ closing' \in BOOLEAN /\ closing'
    BY <1>1, <1>4 DEF Typed
  <2> QED
    BY <1>4, <1>5, <1>6, <2>1, SignalFits
<1>8. YoungestServes'
  BY <1>4 DEF YoungestServes
<1> QED
  BY <1>7, <1>8, SameKept

-----------------------------------------------------------------------------
(* The service and the pid files. *)

LEMMA FirstImage ==
  ASSUME ConstantsAssumption, Init
  PROVE  /\ gen = [g \in Gens |-> gen[g]]
         /\ \A g \in Gens :
              /\ IsInstance(gen[g]) /\ gen[g].stage = IF g = 1 THEN "booting" ELSE "none"
              /\ gen[g].group = 0 /\ gen[g].name = NoName /\ gen[g].handler = "idle"
              /\ gen[g].upgraded = FALSE /\ gen[g].env = <<>> /\ gen[g].fds = NoFds
<1> DEFINE one == [Unborn EXCEPT !.stage = "booting"]
<1>1. gen = [g \in Gens |-> IF g = 1 THEN one ELSE Unborn]
  BY DEF Init
<1>2. 0 \in 0 .. MaxGens
  BY DEF ConstantsAssumption
<1>3. /\ IsInstance(Unborn) /\ Unborn.stage = "none" /\ Unborn.group = 0
      /\ Unborn.name = NoName /\ Unborn.handler = "idle" /\ Unborn.upgraded = FALSE
      /\ Unborn.env = <<>> /\ Unborn.fds = NoFds
  BY <1>2 DEF Unborn, IsInstance, Stages
<1>4. /\ IsInstance(one) /\ one.stage = "booting" /\ one.group = 0
      /\ one.name = NoName /\ one.handler = "idle" /\ one.upgraded = FALSE
      /\ one.env = <<>> /\ one.fds = NoFds
  BY <1>3 DEF IsInstance, Stages, Booting
<1> HIDE DEF one
<1> QED
  BY <1>1, <1>3, <1>4

LEMMA UInit ==
  ASSUME ConstantsAssumption, Init
  PROVE  UInv
<1>1. /\ gen = [g \in Gens |-> gen[g]]
      /\ \A g \in Gens :
           /\ IsInstance(gen[g]) /\ gen[g].stage = IF g = 1 THEN "booting" ELSE "none"
           /\ gen[g].name = NoName /\ gen[g].handler = "idle" /\ gen[g].upgraded = FALSE
  BY FirstImage
<1>2. /\ signals = [g \in Gens |-> {}] /\ files = [n \in Names |-> NoGen]
      /\ told = {} /\ closing = FALSE
  BY DEF Init
<1>3. 1 \in Gens
  BY DEF ConstantsAssumption, Gens
<1>4. Typed
  BY <1>1, <1>2 DEF Typed
<1>5. NamesTell /\ SignalsTell
  BY <1>1, <1>2 DEF NamesTell, NameTells, SignalsTell, SignalTells, NoName
<1>6. \A g \in Gens : Youngest(g)
  BY <1>1 DEF Youngest, Gens
<1>7. Chain
  BY <1>6 DEF Chain
<1>8. FilesOwned
  BY <1>2 DEF FilesOwned, NoGen, Gens
<1>9. YoungestServes
  <2>1. gen[1].stage = "booting" /\ "QUIT" \notin signals[1]
    BY <1>1, <1>2, <1>3
  <2> QED
    BY <1>3, <1>6, <2>1 DEF YoungestServes, Booting
<1> QED
  BY <1>4, <1>5, <1>7, <1>8, <1>9 DEF UInv

LEMMA UStep ==
  ASSUME ConstantsAssumption, UInv, [Next]_vars
  PROVE  UInv'
<1>1. Typed
  BY DEF UInv
<1>2. ASSUME NEW g \in Gens, Start(g) PROVE UInv'
  <2>1. "QUIT" \notin signals[g]
    BY <1>2 DEF Start
  <2>2. CASE Execve(g) \/ Daemonize(g) \/ GetListenFds(g) \/ InstallHandlers(g) \/ ForkWorkers(g)
    BY <1>1, <2>2, CalmSteps, CalmStep
  <2>3. CASE WritePidfile(g)
    BY <2>1, <2>3, WritePidfileStep
  <2> QED
    BY <1>2, <2>2, <2>3 DEF Start
<1>3. ASSUME NEW g \in Gens, Upgrades(g) PROVE UInv'
  BY <1>3, RenameStep, StartSuccessorStep, StartFailsStep DEF Upgrades
<1>4. ASSUME NEW g \in Gens, Stops(g) PROVE UInv'
  BY <1>4, HandleQuitStep, ImageEndsStep, ExitStep DEF Stops
<1>5. ASSUME NEW g \in Gens, Fail(g) PROVE UInv'
  BY <1>5, FailStep
<1>6. ASSUME NEW g \in Gens, NEW s \in Slots, Respawn(g, s) \/ Drained(g, s) \/ WorkerDies(g, s)
      PROVE  UInv'
  BY <1>1, <1>6, CalmSteps, CalmStep
<1>7. ASSUME UNCHANGED vars PROVE UInv'
  <2>1. 1 \in Gens
    BY DEF ConstantsAssumption, Gens
  <2>2. Calm(1)
    BY <1>1, <1>7 DEF Calm, OnlyOf, Typed, vars, operator
  <2> QED
    BY <2>1, <2>2, CalmStep
<1> QED
  BY <1>2, <1>3, <1>4, <1>5, <1>6, <1>7, ScriptUpgradeStep, ScriptQuitStep, OperatorStopsStep
     DEF Next

LEMMA UAlways == Spec => []UInv
BY ConstantsAssumption, UInit, UStep, PTL DEF Spec

\* README.md:16: unless a process fails or an upgrade starts nobody, or SIGQUIT cuts
\* upgrade_handler short, somebody who was not told to quit serves or is about to, for any
\* number of upgrades and at any moment of each: when the old generation can be told, the
\* youngest is another one.
THEOREM ServiceIsKept == Spec => []ServiceKept
<1>1. UInv => ServiceKept
  BY DEF UInv, YoungestServes, ServiceKept
<1> QED
  BY <1>1, UAlways, PTL

\* A pid file names a generation that has not ended and that takes that name for its
\* own, whatever rename(), remove() and write_pidfile of several generations do to it;
\* exit(1) is what leaves the file of a process that has ended (yta_process.c:168-171,
\* 224-227, 237-240, 267-270), and SIGQUIT in the middle of upgrade_handler.
THEOREM FilesNameLiving == Spec => []FilesNameTheLiving
<1>1. UInv => FilesNameTheLiving
  BY DEF UInv, FilesOwned, Named, FilesNameTheLiving
<1> QED
  BY <1>1, UAlways, PTL

\* Who serves afterwards served before, and has the same name for its own.
Steady == \A g \in Gens : Serves(g)' => Serves(g) /\ OwnName(g)' = OwnName(g)

LEMMA OneSteady ==
  ASSUME NEW g \in Gens, OnlyOf(g), Serves(g)' => Serves(g) /\ OwnName(g)' = OwnName(g)
  PROVE  Steady
<1> SUFFICES ASSUME NEW h \in Gens, Serves(h)'
             PROVE  Serves(h) /\ OwnName(h)' = OwnName(h)
  BY DEF Steady
<1>1. CASE h = g
  BY <1>1
<1>2. CASE h # g
  BY <1>2 DEF OnlyOf, Serves, OwnName
<1> QED
  BY <1>1, <1>2

LEMMA SteadySteps ==
  ASSUME UInv, NEW g \in Gens
  PROVE  /\ Calm(g) \/ StartFails(g) \/ StartSuccessor(g) \/ HandleQuit(g) => UNCHANGED files
         /\ Calm(g) \/ StartFails(g) \/ StartSuccessor(g) \/ HandleQuit(g) => Steady
         /\ Fail(g) \/ DieOfQuit(g) \/ ExitInherited(g) \/ ExitAndCleanup(g) => Steady
<1>1. Typed /\ NamesTell
  BY DEF UInv
<1>2. ASSUME Calm(g) PROVE Steady /\ UNCHANGED files
  BY <1>2, OneSteady DEF Calm, Serves, OwnName, Booting
<1>3. ASSUME StartFails(g) PROVE Steady /\ UNCHANGED files
  <2>1. /\ gen[g].handler = "renamed" /\ UNCHANGED files
        /\ gen' = [gen EXCEPT ![g] = Upgraded(gen[g])]
    BY <1>3 DEF StartFails, Renamed, Local
  <2> DEFINE j == Upgraded(gen[g])
  <2>2. gen[g].name = 0
    BY <1>1, <2>1, NamesOwned
  <2>3. /\ IsInstance(j) /\ j.name = 1 /\ j.handler = "idle" /\ j.stage = gen[g].stage
    BY <1>1, <2>2, UpgradedInstance DEF Typed
  <2>4. gen' = [gen EXCEPT ![g] = j]
    BY <2>1
  <2> HIDE DEF j
  <2>5. OnlyOf(g) /\ gen'[g] = j
    BY <1>1, <2>3, <2>4, OneChanges
  <2> QED
    BY <2>1, <2>2, <2>3, <2>5, OneSteady DEF Serves, OwnName
<1>4. ASSUME StartSuccessor(g) PROVE Steady /\ UNCHANGED files
  <2>1. Renamed(g) /\ gen[g].handler = "renamed" /\ UNCHANGED files
    BY <1>4 DEF StartSuccessor, Renamed, Local
  <2>2. PICK h \in Gens : gen[h].stage = "none" /\ Succession(g, h)
    BY <1>4 DEF StartSuccessor, Succession, Forked
  <2>3. gen[g].name = 0 /\ g # h
    BY <1>1, <2>1, <2>2, NamesOwned DEF Renamed
  <2>4. /\ gen'[g].name = 1 /\ gen'[g].handler = "idle" /\ gen'[g].stage = gen[g].stage
        /\ gen'[h].stage = "forked"
        /\ \A k \in Gens : k # g /\ k # h => gen'[k] = gen[k]
    BY <1>1, <2>1, <2>2, <2>3, SuccessorChanges
  <2>5. ASSUME NEW k \in Gens, Serves(k)'
        PROVE  Serves(k) /\ OwnName(k)' = OwnName(k)
    <3>1. CASE k = g
      BY <2>1, <2>3, <2>4, <2>5, <3>1 DEF Serves, OwnName
    <3>2. CASE k = h
      BY <2>4, <2>5, <3>2 DEF Serves
    <3>3. CASE k # g /\ k # h
      BY <2>4, <2>5, <3>3 DEF Serves, OwnName
    <3> QED
      BY <3>1, <3>2, <3>3
  <2> QED
    BY <2>1, <2>5 DEF Steady
<1>5. ASSUME HandleQuit(g) PROVE Steady /\ UNCHANGED files
  <2>1. OnlyOf(g) /\ gen'[g].stage = "stopping"
    BY <1>1, <1>5, QuitChanges
  <2> QED
    BY <1>5, <2>1, OneSteady DEF HandleQuit, Serves
<1>6. ASSUME Fail(g) PROVE Steady
  <2>1. OnlyOf(g) /\ gen'[g].stage = "failed"
    BY <1>1, <1>6, FailChanges
  <2> QED
    BY <2>1, OneSteady DEF Serves
<1>7. ASSUME DieOfQuit(g) \/ ExitInherited(g) \/ ExitAndCleanup(g) PROVE Steady
  <2>1. gen' = [gen EXCEPT ![g].stage = "gone"]
    BY <1>7 DEF DieOfQuit, ExitInherited, ExitAndCleanup
  <2>2. OnlyOf(g) /\ gen'[g].stage = "gone"
    BY <1>1, <2>1, StageChanges DEF Stages
  <2> QED
    BY <2>2, OneSteady DEF Serves
<1> QED
  BY <1>2, <1>3, <1>4, <1>5, <1>6, <1>7

\* What the properties say of a step of Next and of one generation.
KeepsFile(g) ==
  Serves(g)' /\ (Serves(g) => HasFile(g)) =>
    \/ HasFile(g)'
    \/ \E h \in Gens \ {g} : gen[h].stage \in Running \cup {"stopping"} /\ OwnName(h)' = OwnName(g)'
    \/ \E h \in Gens : Inherits(h)

LEMMA FileKept ==
  ASSUME UInv, UNCHANGED files, Steady, NEW g \in Gens
  PROVE  KeepsFile(g)
BY DEF Steady, KeepsFile, HasFile

\* Whoever writes the file of name 0 is the only one that has that name.
LEMMA FirstNameFree ==
  ASSUME UInv, Steady, NEW g \in Gens, NEW h \in Gens, gen[h].stage = "starting",
         files' = [files EXCEPT ![0] = NoGen], g # h
  PROVE  KeepsFile(g)
<1>1. Typed /\ NamesTell /\ Chain /\ FilesOwned
  BY DEF UInv
<1> SUFFICES ASSUME Serves(g)', HasFile(g)
             PROVE  HasFile(g)'
  BY DEF Steady, KeepsFile
<1>2. Serves(g) /\ OwnName(g)' = OwnName(g)
  BY DEF Steady
<1>3. ~gen[h].upgraded
  <2>1. NameTells(gen[h])
    BY <1>1 DEF NamesTell
  <2> QED
    BY <2>1 DEF NameTells, NoName
<1>4. OwnName(g) # 0
  <2>1. ASSUME OwnName(g) = 0 PROVE FALSE
    <3>1. ~gen[g].upgraded
      BY <1>1, <2>1, NamesOwned
    <3> QED
      BY <1>1, <1>2, <1>3, <3>1, OneYoungest DEF Serves
  <2> QED
    BY <2>1
<1>5. files'[OwnName(g)] = files[OwnName(g)]
  BY <1>1, <1>4 DEF Typed
<1> QED
  BY <1>2, <1>5 DEF HasFile

LEMMA WriteKeepsFile ==
  ASSUME ConstantsAssumption, UInv, NEW h \in Gens, WritePidfile(h), NEW g \in Gens
  PROVE  KeepsFile(g)
<1>1. Typed /\ NamesTell /\ Chain /\ FilesOwned
  BY DEF UInv
<1>2. gen[h].stage = "starting" /\ files' = [files EXCEPT ![0] = h]
  BY DEF WritePidfile
<1>3. OnlyOf(h) /\ gen'[h].name = 0 /\ gen'[h].handler = gen[h].handler
  BY <1>1, InstanceChanges DEF WritePidfile
<1>4. NameTells(gen[h])
  BY <1>1 DEF NamesTell
<1>5. ~gen[h].upgraded /\ gen[h].handler = "idle"
  BY <1>2, <1>4 DEF NameTells, NoName
<1>6. 0 \in Names /\ files \in [Names -> Gens \cup {NoGen}]
  BY <1>1, ConstantsAssumption DEF Typed, Names
<1>7. CASE g = h
  <2>1. OwnName(g)' = 0
    BY <1>3, <1>5, <1>7 DEF OwnName
  <2> QED
    BY <1>2, <1>6, <1>7, <2>1 DEF KeepsFile, HasFile
<1>8. CASE g # h
  <2>1. gen'[g] = gen[g]
    BY <1>3, <1>8 DEF OnlyOf
  <2> SUFFICES ASSUME Serves(g), HasFile(g)
               PROVE  HasFile(g)'
    BY <2>1 DEF KeepsFile, Serves
  <2>2. OwnName(g)' = OwnName(g)
    BY <2>1 DEF OwnName
  <2>3. OwnName(g) # 0
    <3>1. ASSUME OwnName(g) = 0 PROVE FALSE
      <4>1. ~gen[g].upgraded
        BY <1>1, <3>1, NamesOwned
      <4> QED
        BY <1>1, <1>2, <1>5, <1>8, <4>1, OneYoungest DEF Serves
    <3> QED
      BY <3>1
  <2> QED
    BY <1>2, <1>6, <2>2, <2>3 DEF HasFile
<1> QED
  BY <1>7, <1>8

\* The file goes with its owner to the new name; who had that name loses it to the owner.
LEMMA RenameKeepsFile ==
  ASSUME ConstantsAssumption, UInv, NEW h \in Gens, RenamePidfile(h), NEW g \in Gens
  PROVE  KeepsFile(g)
<1>1. Typed /\ NamesTell /\ SignalsTell /\ Chain
  BY DEF UInv
<1>2. gen[h].stage \in {"named", "serving", "stopping"} /\ "USR1" \in signals[h]
  BY DEF RenamePidfile
<1>3. NameTells(gen[h]) /\ SignalTells(gen[h], signals[h])
  BY <1>1 DEF NamesTell, SignalsTell
<1>4. gen[h].name = 0 /\ gen[h].handler = "idle" /\ ~gen[h].upgraded
  BY <1>2, <1>3 DEF SignalTells, NameTells
<1>5. 0 \in Names /\ 1 \in Names /\ files \in [Names -> Gens \cup {NoGen}]
  BY <1>1, ConstantsAssumption DEF Typed, Names
<1>6. CASE UNCHANGED <<gen, files>>
  BY <1>6 DEF KeepsFile, Serves, HasFile, OwnName
<1>7. CASE ~UNCHANGED <<gen, files>>
  <2>1. /\ files[0] # NoGen
        /\ files' = [files EXCEPT ![0 + 1] = files[0], ![0] = NoGen]
        /\ gen' = [gen EXCEPT ![h].handler = "renamed", ![h].blocked = @ \cup {"USR1"}]
    BY <1>4, <1>7 DEF RenamePidfile
  <2>2. files[0] = h /\ \A k \in Gens : k # h /\ gen[k].stage # "none" => OwnName(k) # 0
    BY <1>2, <1>4, <1>5, <2>1, OwnFile
  <2>3. files'[1] = h /\ \A n \in Names : n # 0 /\ n # 1 => files'[n] = files[n]
    BY <1>5, <2>1, <2>2
  <2>4. /\ OnlyOf(h) /\ gen'[h].name = gen[h].name /\ gen'[h].handler = "renamed"
    BY <1>1, <2>1, InstanceChanges
  <2>5. OwnName(h)' = 1
    BY <1>4, <2>4 DEF OwnName
  <2>6. CASE g = h
    BY <2>3, <2>5, <2>6 DEF KeepsFile, HasFile
  <2>7. CASE g # h
    <3>1. gen'[g] = gen[g]
      BY <2>4, <2>7 DEF OnlyOf
    <3> SUFFICES ASSUME Serves(g), HasFile(g)
                 PROVE  \/ HasFile(g)'
                        \/ \E k \in Gens \ {g} : /\ gen[k].stage \in Running \cup {"stopping"}
                                                 /\ OwnName(k)' = OwnName(g)'
      BY <3>1 DEF KeepsFile, Serves
    <3>2. OwnName(g)' = OwnName(g)
      BY <3>1 DEF OwnName
    <3>3. OwnName(g) = 1
      <4>1. OwnName(g) \in {NoName, 0, 1} /\ (OwnName(g) = NoName <=> gen[g].name = NoName)
        BY <1>1, NamesOwned
      <4>2. gen[g].name # NoName
        BY <1>1 DEF Serves, NamesTell, NameTells
      <4> QED
        BY <2>2, <2>7, <4>1, <4>2 DEF Serves
    <3>4. gen[h].stage \in Running \cup {"stopping"}
      BY <1>2 DEF Running
    <3> QED
      BY <2>5, <2>7, <3>2, <3>3, <3>4
  <2> QED
    BY <2>6, <2>7
<1> QED
  BY <1>6, <1>7

\* remove() takes the file of its own name, unless the generation was cut short.
LEMMA ExitKeepsFile ==
  ASSUME UInv, NEW h \in Gens, ExitAndCleanup(h), NEW g \in Gens
  PROVE  KeepsFile(g)
<1>1. Typed /\ NamesTell /\ Chain
  BY DEF UInv
<1>2. /\ gen[h].stage = "stopping" /\ gen[h].handler # "renamed"
      /\ gen' = [gen EXCEPT ![h].stage = "gone"]
      /\ files' = IF gen[h].name = NoName THEN files ELSE [files EXCEPT ![gen[h].name] = NoGen]
  BY DEF ExitAndCleanup, MayExit
<1>3. /\ OnlyOf(h) /\ gen'[h].stage = "gone" /\ gen'[h].name = gen[h].name
      /\ gen'[h].handler = gen[h].handler
  BY <1>1, <1>2, StageChanges DEF Stages
<1>4. OwnName(h)' = OwnName(h) /\ gen[h].handler \in {"idle", "cut"}
  BY <1>1, <1>2, <1>3 DEF OwnName, Typed, IsInstance
<1>5. Steady
  BY SteadySteps
<1> SUFFICES ASSUME Serves(g)', HasFile(g)
             PROVE  \/ HasFile(g)'
                    \/ \E k \in Gens \ {g} : /\ gen[k].stage \in Running \cup {"stopping"}
                                             /\ OwnName(k)' = OwnName(g)'
  BY <1>5 DEF Steady, KeepsFile
<1>6. Serves(g) /\ OwnName(g)' = OwnName(g)
  BY <1>5 DEF Steady
<1>7. g # h
  BY <1>2, <1>6 DEF Serves
<1>8. CASE OwnName(g) # gen[h].name
  <2>1. files'[OwnName(g)] = files[OwnName(g)]
    <3>1. files \in [Names -> Gens \cup {NoGen}]
      BY <1>1 DEF Typed
    <3> QED
      BY <1>2, <1>8, <3>1
  <2> QED
    BY <1>6, <2>1 DEF HasFile
<1>9. CASE OwnName(g) = gen[h].name /\ gen[h].handler = "idle"
  <2>1. OwnName(h)' = OwnName(g)'
    BY <1>4, <1>6, <1>9 DEF OwnName
  <2> QED
    BY <1>2, <1>7, <2>1
<1>10. CASE OwnName(g) = gen[h].name /\ gen[h].handler = "cut"
  <2>1. gen[h].name = 0 /\ ~gen[h].upgraded
    BY <1>1, <1>10, NamesOwned
  <2>2. ~gen[g].upgraded
    BY <1>1, <1>10, <2>1, NamesOwned
  <2> QED
    BY <1>1, <1>2, <1>6, <1>7, <2>1, <2>2, OneYoungest DEF Serves
<1> QED
  BY <1>4, <1>8, <1>9, <1>10

LEMMA CalmKeepsFile ==
  ASSUME UInv, NEW h \in Gens, NEW g \in Gens,
         Calm(h) \/ StartFails(h) \/ StartSuccessor(h) \/ HandleQuit(h) \/ DieOfQuit(h)
  PROVE  KeepsFile(g)
<1>1. Steady
  BY SteadySteps
<1>2. UNCHANGED files
  BY SteadySteps DEF DieOfQuit
<1> QED
  BY <1>1, <1>2, FileKept

LEMMA FailKeepsFile ==
  ASSUME UInv, NEW h \in Gens, NEW g \in Gens, Fail(h)
  PROVE  KeepsFile(g)
<1>1. Steady
  BY SteadySteps
<1>2. Typed
  BY DEF UInv
<1>3. /\ gen'[h].stage = "failed"
      /\ \/ UNCHANGED files
         \/ gen[h].stage = "starting" /\ files' = [files EXCEPT ![0] = NoGen]
  BY <1>2, FailChanges
<1>4. CASE UNCHANGED files
  BY <1>1, <1>4, FileKept
<1>5. CASE g = h
  BY <1>3, <1>5 DEF KeepsFile, Serves
<1>6. CASE ~UNCHANGED files /\ g # h
  BY <1>1, <1>3, <1>6, FirstNameFree
<1> QED
  BY <1>4, <1>5, <1>6

LEMMA FileStep ==
  ASSUME ConstantsAssumption, UInv, [Next]_vars, NEW g \in Gens
  PROVE  KeepsFile(g)
<1>1. Typed
  BY DEF UInv
<1>2. ASSUME UNCHANGED gen, UNCHANGED files PROVE KeepsFile(g)
  BY <1>2 DEF KeepsFile, Serves, HasFile, OwnName
<1>3. ASSUME NEW h \in Gens, Calm(h) PROVE KeepsFile(g)
  BY <1>3, CalmKeepsFile
<1>4. ASSUME NEW h \in Gens, Start(h) PROVE KeepsFile(g)
  BY <1>1, <1>3, <1>4, CalmSteps, WriteKeepsFile DEF Start
<1>5. ASSUME NEW h \in Gens, Upgrades(h) PROVE KeepsFile(g)
  BY <1>5, RenameKeepsFile, CalmKeepsFile DEF Upgrades
<1>6. ASSUME NEW h \in Gens, Stops(h) PROVE KeepsFile(g)
  <2>1. CASE HandleQuit(h) \/ DieOfQuit(h)
    BY <2>1, CalmKeepsFile
  <2>2. CASE ExitAndCleanup(h)
    BY <2>2, ExitKeepsFile
  <2>3. CASE ExitInherited(h)
    BY <2>3 DEF ExitInherited, KeepsFile
  <2> QED
    BY <1>6, <2>1, <2>2, <2>3 DEF Stops
<1>7. ASSUME NEW h \in Gens, Fail(h) PROVE KeepsFile(g)
  BY <1>7, FailKeepsFile
<1>8. ASSUME NEW h \in Gens, NEW s \in Slots, Respawn(h, s) \/ Drained(h, s) \/ WorkerDies(h, s)
      PROVE  KeepsFile(g)
  BY <1>1, <1>3, <1>8, CalmSteps
<1>9. CASE ScriptUpgrade \/ ScriptQuit \/ OperatorStops
  BY <1>2, <1>9 DEF ScriptUpgrade, ScriptQuit, OperatorStops
<1>10. CASE UNCHANGED vars
  BY <1>2, <1>10 DEF vars
<1> QED
  BY <1>4, <1>5, <1>6, <1>7, <1>8, <1>9, <1>10 DEF Next

\* A generation that serves has a pid file by which it can be signalled, and loses it
\* only to another one that is still there with the same name for its file (rename() of
\* upgrade_handler, remove() of exit_and_cleanup_main), or to its child, told before
\* execve.
THEOREM ReachedByFile == Spec => Reachable
<1>1. UInv /\ ConstantsAssumption /\ [Next]_vars => \A g \in Gens : KeepsFile(g)
  BY FileStep
<1>2. UInv /\ ConstantsAssumption /\ [Next]_vars =>
        [\A g \in Gens :
           Serves(g)' /\ (Serves(g) => HasFile(g)) =>
             \/ HasFile(g)'
             \/ \E h \in Gens \ {g} : gen[h].stage \in Running \cup {"stopping"} /\ OwnName(h)' = OwnName(g)'
             \/ \E h \in Gens : Inherits(h)]_vars
  BY <1>1 DEF KeepsFile
<1> QED
  BY <1>2, ConstantsAssumption, UAlways, PTL DEF Spec, Reachable

-----------------------------------------------------------------------------
(* Process groups and sockets. *)

\* How far a generation comes in a step of its own, and what it takes with it.
Onward(g) ==
  /\ OnlyOf(g) /\ gen'[g].env = gen[g].env
  /\ \/ /\ gen'[g].stage = gen[g].stage
        /\ gen'[g].group = gen[g].group /\ gen'[g].fds = gen[g].fds
     \/ /\ gen[g].stage = "forked" /\ gen'[g].stage = "booting"
        /\ gen'[g].group = gen[g].group /\ gen'[g].fds = gen[g].fds
     \/ /\ gen[g].stage = "booting" /\ gen'[g].stage = "session"
        /\ Daemon => gen'[g].group = g
        /\ gen'[g].fds = gen[g].fds
     \/ /\ gen[g].stage = "session" /\ gen'[g].stage = "bound" /\ "QUIT" \notin signals[g]
        /\ gen'[g].group = gen[g].group
        /\ gen'[g].fds \in IF gen[g].env = <<>> THEN FdLists
                           ELSE {ParseListenFdsEnv(gen[g].env, Workers)}
     \/ /\ gen[g].stage \in {"bound"} \cup Running /\ gen'[g].stage \in Running
        /\ gen'[g].group = gen[g].group /\ gen'[g].fds = gen[g].fds
     \/ gen[g].stage \in Living /\ gen'[g].stage = "failed" /\ gen'[g].fds = gen[g].fds
     \/ /\ gen[g].stage \in Running /\ "QUIT" \in signals[g] /\ gen'[g].stage = "stopping"
        /\ gen'[g].group = gen[g].group /\ gen'[g].fds = gen[g].fds
     \/ /\ gen[g].stage = "stopping" \/ (gen[g].stage \in Booting /\ "QUIT" \in signals[g])
        /\ gen'[g].stage = "gone" /\ gen'[g].fds = gen[g].fds

LEMMA GroupsGoOn ==
  ASSUME Daemon = TRUE, GroupsOwn, NEW g \in Gens, Onward(g)
  PROVE  GroupsOwn'
<1> SUFFICES ASSUME NEW h \in Gens
             PROVE  /\ gen'[h].stage \in {"none", "forked", "booting"} =>
                         gen'[h].group < h /\ gen'[h].fds = NoFds
                    /\ gen'[h].stage \in {"session"} \cup HasSockets => gen'[h].group = h
  BY DEF GroupsOwn
<1>1. CASE h = g
  BY <1>1 DEF GroupsOwn, Onward, HasSockets, Running
<1>2. CASE h # g
  BY <1>2 DEF GroupsOwn, Onward, OnlyOf
<1> QED
  BY <1>1, <1>2

\* Whoever stops now was meant to: it was told, or had the signal before.
LEMMA StopsGoOn ==
  ASSUME StopsAreMeant, NEW g \in Gens, Onward(g), UNCHANGED told,
         \A h \in Gens : "QUIT" \in signals'[h] => "QUIT" \in signals[h]
  PROVE  StopsAreMeant'
<1> SUFFICES ASSUME NEW h \in Gens,
                    gen'[h].stage \in {"stopping", "gone"} \/ "QUIT" \in signals'[h]
             PROVE  h \in told \/ (gen'[h].fds = NoFds /\ \E k \in told : k < h)
  BY DEF StopsAreMeant
<1>1. gen[h].stage \in {"stopping", "gone"} \/ "QUIT" \in signals[h]
  BY DEF Onward, OnlyOf, Running
<1>2. h \in told \/ (gen[h].fds = NoFds /\ \E k \in told : k < h)
  BY <1>1 DEF StopsAreMeant
<1>3. gen'[h].fds = gen[h].fds
  BY <1>1 DEF Onward, OnlyOf
<1> QED
  BY <1>2, <1>3

LEMMA SocketsGoOn ==
  ASSUME TextReadBack, SocketsKnown, NEW g \in Gens, Onward(g), 1 \in Gens
  PROVE  SocketsKnown'
<1>1. /\ gen[1].env = <<>> /\ gen[1].stage \notin {"none", "forked"}
      /\ \A h \in Gens :
           /\ gen[h].stage = "none" => gen[h].env = <<>>
           /\ gen[h].stage \in HasSockets =>
                gen[1].fds \in FdLists /\ gen[h].fds = gen[1].fds
           /\ h # 1 /\ gen[h].stage # "none" =>
                /\ gen[h].env = CreateListenFdsEnv(gen[1].fds)
                /\ gen[1].fds \in FdLists /\ gen[1].stage \notin {"booting", "session"}
  BY DEF SocketsKnown
<1>2. ASSUME NEW h \in Gens
      PROVE  /\ gen'[h].env = gen[h].env
             /\ gen'[h].stage = "none" <=> gen[h].stage = "none"
  BY DEF Onward, OnlyOf, HasSockets, Living, Booting, Running
<1>3. gen'[1].env = <<>> /\ gen'[1].stage \notin {"none", "forked"}
  BY <1>1, <1>2 DEF Onward, OnlyOf, HasSockets, Living, Booting, Running
<1>4. CASE g = 1 /\ gen[1].stage = "session" /\ gen'[1].stage = "bound"
  <2>1. gen'[1].fds \in FdLists
    BY <1>1, <1>4 DEF Onward, HasSockets, Living, Booting, Running
  <2>2. ASSUME NEW h \in Gens, h # 1
        PROVE  gen'[h].stage = "none"
    BY <1>1, <1>2, <1>4, <2>2
  <2> QED
    BY <1>1, <1>2, <1>3, <1>4, <2>1, <2>2 DEF SocketsKnown, HasSockets, Running
<1>5. CASE ~(g = 1 /\ gen[1].stage = "session" /\ gen'[1].stage = "bound")
  <2>1. gen'[1].fds = gen[1].fds
    BY <1>5 DEF Onward, OnlyOf
  <2>2. gen[1].stage \notin {"booting", "session"} => gen'[1].stage \notin {"booting", "session"}
    BY <1>1 DEF Onward, OnlyOf, HasSockets, Living, Booting, Running
  <2>3. ASSUME NEW h \in Gens, gen'[h].stage \in HasSockets
        PROVE  gen[1].fds \in FdLists /\ gen'[h].fds = gen[1].fds
    <3>1. CASE h # g \/ gen[h].stage \in HasSockets
      <4>1. /\ gen'[h].fds = gen[h].fds /\ gen[h].stage \in HasSockets
        BY <2>3, <3>1 DEF Onward, OnlyOf, HasSockets, Living, Booting, Running
      <4> QED
        BY <1>1, <4>1
    <3>2. CASE h = g /\ gen[h].stage \notin HasSockets
      <4>1. /\ gen[g].stage = "session" /\ gen'[g].stage = "bound"
            /\ gen'[g].fds \in IF gen[g].env = <<>> THEN FdLists
                               ELSE {ParseListenFdsEnv(gen[g].env, Workers)}
        BY <2>3, <3>2 DEF Onward, HasSockets, Living, Booting, Running
      <4>2. g # 1
        BY <1>5, <4>1
      <4>3. gen[1].fds \in FdLists /\ gen[g].env = CreateListenFdsEnv(gen[1].fds)
        BY <1>1, <4>1, <4>2
      <4>4. gen[g].env # <<>> /\ ParseListenFdsEnv(gen[g].env, Workers) = gen[1].fds
        BY <4>3 DEF TextReadBack
      <4> QED
        BY <3>2, <4>1, <4>3, <4>4
    <3> QED
      BY <3>1, <3>2
  <2>4. ASSUME NEW h \in Gens
        PROVE  /\ gen'[h].stage = "none" => gen'[h].env = <<>>
               /\ h # 1 /\ gen'[h].stage # "none" =>
                    /\ gen'[h].env = CreateListenFdsEnv(gen'[1].fds)
                    /\ gen'[1].fds \in FdLists /\ gen'[1].stage \notin {"booting", "session"}
    BY <1>1, <1>2, <2>1, <2>2
  <2> QED
    BY <1>3, <2>1, <2>3, <2>4 DEF SocketsKnown
<1> QED
  BY <1>4, <1>5

LEMMA StartGoesOn ==
  ASSUME Typed, NEW g \in Gens, Start(g)
  PROVE  Onward(g) /\ UNCHANGED <<signals, told>>
<1>1. "QUIT" \notin signals[g]
  BY DEF Start
<1>2. CASE Execve(g)
  <2>1. gen[g].stage = "forked" /\ UNCHANGED <<signals, told>>
    BY <1>2 DEF Execve, Local, operator
  <2>2. /\ OnlyOf(g) /\ gen'[g].stage = "booting" /\ gen'[g].env = gen[g].env
        /\ gen'[g].group = gen[g].group /\ gen'[g].fds = gen[g].fds
    BY <1>2, StageChanges DEF Execve, Stages, Booting
  <2> QED
    BY <2>1, <2>2 DEF Onward
<1>3. CASE Daemonize(g)
  <2>1. gen[g].stage = "booting" /\ UNCHANGED <<signals, told>>
    BY <1>3 DEF Daemonize, Local, operator
  <2>2. /\ OnlyOf(g) /\ gen'[g].stage = "session" /\ gen'[g].env = gen[g].env
        /\ gen'[g].group = IF Daemon THEN g ELSE gen[g].group
        /\ gen'[g].fds = gen[g].fds
    BY <1>3, StartChanges
  <2> QED
    BY <2>1, <2>2 DEF Onward
<1>4. CASE GetListenFds(g)
  <2>1. gen[g].stage = "session" /\ UNCHANGED <<signals, told>>
    BY <1>4 DEF GetListenFds, Local, operator
  <2>2. /\ OnlyOf(g) /\ gen'[g].stage = "bound" /\ gen'[g].env = gen[g].env
        /\ gen'[g].group = gen[g].group
        /\ gen'[g].fds \in IF gen[g].env = <<>> THEN FdLists
                           ELSE {ParseListenFdsEnv(gen[g].env, Workers)}
    BY <1>4, StartChanges
  <2> QED
    BY <1>1, <2>1, <2>2 DEF Onward
<1>5. CASE InstallHandlers(g)
  <2>1. gen[g].stage = "bound" /\ UNCHANGED <<signals, told>>
    BY <1>5 DEF InstallHandlers, Local, operator
  <2>2. /\ OnlyOf(g) /\ gen'[g].stage = "starting" /\ gen'[g].env = gen[g].env
        /\ gen'[g].group = gen[g].group /\ gen'[g].fds = gen[g].fds
    BY <1>5, StartChanges
  <2> QED
    BY <2>1, <2>2 DEF Onward, Running
<1>6. CASE WritePidfile(g)
  <2>1. gen[g].stage = "starting" /\ UNCHANGED <<signals, told>>
    BY <1>6 DEF WritePidfile, operator
  <2>2. /\ OnlyOf(g) /\ gen'[g].stage = "named" /\ gen'[g].env = gen[g].env
        /\ gen'[g].group = gen[g].group /\ gen'[g].fds = gen[g].fds
    BY <1>6, InstanceChanges DEF WritePidfile
  <2> QED
    BY <2>1, <2>2 DEF Onward, Running
<1>7. CASE ForkWorkers(g)
  <2>1. gen[g].stage = "named" /\ UNCHANGED <<signals, told>>
    BY <1>7 DEF ForkWorkers, Local, operator
  <2>2. /\ OnlyOf(g) /\ gen'[g].stage = "serving" /\ gen'[g].env = gen[g].env
        /\ gen'[g].group = gen[g].group /\ gen'[g].fds = gen[g].fds
    BY <1>7, StartChanges
  <2> QED
    BY <2>1, <2>2 DEF Onward, Running
<1> QED
  BY <1>2, <1>3, <1>4, <1>5, <1>6, <1>7 DEF Start

\* Nothing changes, of any generation.
LEMMA SameGoesOn ==
  ASSUME Typed, UNCHANGED gen, NEW g \in Gens
  PROVE  Onward(g)
<1>1. OnlyOf(g)
  BY DEF Typed, OnlyOf
<1> QED
  BY <1>1 DEF Onward

LEMMA OthersGoOn ==
  ASSUME Typed, NEW g \in Gens
  PROVE  /\ Fail(g) =>
              /\ Onward(g) /\ UNCHANGED told
              /\ \A h \in Gens : "QUIT" \in signals'[h] => "QUIT" \in signals[h]
         /\ \A s \in Slots : Respawn(g, s) \/ Drained(g, s) \/ WorkerDies(g, s) =>
              Onward(g) /\ UNCHANGED <<signals, told>>
         /\ RenamePidfile(g) =>
              /\ Onward(g) /\ UNCHANGED told
              /\ \A h \in Gens : "QUIT" \in signals'[h] => "QUIT" \in signals[h]
<1>1. ASSUME Fail(g)
      PROVE  /\ Onward(g) /\ UNCHANGED told
             /\ \A h \in Gens : "QUIT" \in signals'[h] => "QUIT" \in signals[h]
  <2>1. /\ OnlyOf(g) /\ gen'[g].stage = "failed" /\ gen'[g].env = gen[g].env
        /\ gen'[g].fds = gen[g].fds /\ UNCHANGED told
        /\ gen[g].stage \in Booting \cup {"starting", "named", "serving", "stopping"}
        /\ signals' = [signals EXCEPT ![g] = {}]
    BY <1>1, FailChanges
  <2>2. Onward(g)
    BY <2>1 DEF Onward, Living, Running
  <2>3. \A h \in Gens : "QUIT" \in signals'[h] => "QUIT" \in signals[h]
    BY <2>1 DEF Typed
  <2> QED
    BY <2>1, <2>2, <2>3
<1>2. ASSUME NEW s \in Slots, NEW w, gen' = [gen EXCEPT ![g].worker[s] = w]
      PROVE  Onward(g)
  <2>1. /\ OnlyOf(g) /\ gen'[g].stage = gen[g].stage /\ gen'[g].env = gen[g].env
        /\ gen'[g].group = gen[g].group /\ gen'[g].fds = gen[g].fds
    BY <1>2, WorkerChanges
  <2> QED
    BY <2>1 DEF Onward
<1>3. ASSUME NEW s \in Slots, Respawn(g, s) \/ Drained(g, s) \/ WorkerDies(g, s)
      PROVE  Onward(g) /\ UNCHANGED <<signals, told>>
  <2>1. CASE Respawn(g, s)
    <3>1. UNCHANGED <<signals, told>> /\ gen' = [gen EXCEPT ![g].worker[s] = "serving"]
      BY <2>1 DEF Respawn, Local, operator
    <3> QED
      BY <1>2, <3>1
  <2>2. CASE Drained(g, s)
    <3>1. UNCHANGED <<signals, told>> /\ gen' = [gen EXCEPT ![g].worker[s] = "none"]
      BY <2>2 DEF Drained, Local, operator
    <3> QED
      BY <1>2, <3>1
  <2>3. CASE WorkerDies(g, s)
    <3>1. UNCHANGED <<signals, told>> /\ gen' = [gen EXCEPT ![g].worker[s] = "none"]
      BY <2>3 DEF WorkerDies, operator
    <3> QED
      BY <1>2, <3>1
  <2> QED
    BY <1>3, <2>1, <2>2, <2>3
<1>4. ASSUME RenamePidfile(g)
      PROVE  /\ Onward(g) /\ UNCHANGED told
             /\ \A h \in Gens : "QUIT" \in signals'[h] => "QUIT" \in signals[h]
  <2>1. UNCHANGED told /\ signals' = [signals EXCEPT ![g] = @ \ {"USR1"}]
    BY <1>4 DEF RenamePidfile, operator
  <2>2. \A h \in Gens : "QUIT" \in signals'[h] => "QUIT" \in signals[h]
    BY <2>1 DEF Typed
  <2>3. CASE UNCHANGED gen
    BY <2>1, <2>2, <2>3, SameGoesOn
  <2>4. CASE gen' = [gen EXCEPT ![g].handler = "renamed", ![g].blocked = @ \cup {"USR1"}]
    <3>1. /\ OnlyOf(g) /\ gen'[g].stage = gen[g].stage /\ gen'[g].env = gen[g].env
          /\ gen'[g].group = gen[g].group /\ gen'[g].fds = gen[g].fds
      BY <2>4, InstanceChanges
    <3>2. Onward(g)
      BY <3>1 DEF Onward
    <3> QED
      BY <2>1, <2>2, <3>2
  <2> QED
    BY <1>4, <2>3, <2>4 DEF RenamePidfile
<1> QED
  BY <1>1, <1>3, <1>4

LEMMA StopsComeOn ==
  ASSUME Typed, NamesTell, NEW g \in Gens
  PROVE  /\ HandleQuit(g) =>
              Onward(g) /\ UNCHANGED told /\ "QUIT" \in signals[g] /\ gen[g].stage \in Running
         /\ DieOfQuit(g) \/ ExitInherited(g) \/ ExitAndCleanup(g) =>
              /\ Onward(g) /\ UNCHANGED told
              /\ \A h \in Gens : "QUIT" \in signals'[h] => "QUIT" \in signals[h]
<1>1. ASSUME HandleQuit(g)
      PROVE  Onward(g) /\ UNCHANGED told /\ "QUIT" \in signals[g] /\ gen[g].stage \in Running
  <2>1. gen[g].stage \in Running /\ "QUIT" \in signals[g] /\ UNCHANGED told
    BY <1>1 DEF HandleQuit, operator
  <2>2. /\ OnlyOf(g) /\ gen'[g].stage = "stopping" /\ gen'[g].env = gen[g].env
        /\ gen'[g].group = gen[g].group /\ gen'[g].fds = gen[g].fds
    BY <1>1, QuitChanges
  <2> QED
    BY <2>1, <2>2 DEF Onward
<1>2. ASSUME DieOfQuit(g) \/ ExitInherited(g) \/ ExitAndCleanup(g)
      PROVE  /\ Onward(g) /\ UNCHANGED told
             /\ \A h \in Gens : "QUIT" \in signals'[h] => "QUIT" \in signals[h]
  <2>1. /\ gen[g].stage = "stopping" \/ (gen[g].stage \in Booting /\ "QUIT" \in signals[g])
        /\ signals' = [signals EXCEPT ![g] = {}] /\ gen' = [gen EXCEPT ![g].stage = "gone"]
        /\ UNCHANGED told
    BY <1>2 DEF DieOfQuit, ExitInherited, ExitAndCleanup, MayExit, Inherits, Doomed, operator
  <2>2. /\ OnlyOf(g) /\ gen'[g].stage = "gone" /\ gen'[g].env = gen[g].env
        /\ gen'[g].fds = gen[g].fds
    BY <2>1, StageChanges DEF Stages
  <2>3. \A h \in Gens : "QUIT" \in signals'[h] => "QUIT" \in signals[h]
    BY <2>1 DEF Typed
  <2>4. Onward(g)
    BY <2>1, <2>2 DEF Onward
  <2> QED
    BY <2>1, <2>3, <2>4
<1> QED
  BY <1>1, <1>2

LEMMA StartFailsGoesOn ==
  ASSUME Typed, NamesTell, NEW g \in Gens, StartFails(g)
  PROVE  Onward(g) /\ UNCHANGED <<signals, told>>
<1>1. /\ gen[g].handler = "renamed" /\ UNCHANGED <<signals, told>>
      /\ gen' = [gen EXCEPT ![g] = Upgraded(gen[g])]
  BY DEF StartFails, Renamed, Local, operator
<1> DEFINE j == Upgraded(gen[g])
<1>2. gen[g].name = 0 /\ IsInstance(gen[g])
  BY <1>1, NamesOwned DEF Typed
<1>3. /\ IsInstance(j) /\ j.stage = gen[g].stage /\ j.group = gen[g].group
      /\ j.env = gen[g].env /\ j.fds = gen[g].fds
  BY <1>2, UpgradedInstance
<1>4. gen' = [gen EXCEPT ![g] = j]
  BY <1>1
<1> HIDE DEF j
<1>5. OnlyOf(g) /\ gen'[g] = j
  BY <1>3, <1>4, OneChanges
<1> QED
  BY <1>1, <1>3, <1>5 DEF Onward

\* The child is in the group of the one that started it, and younger.
LEMMA SuccessorJoins ==
  ASSUME UInv, NEW g \in Gens, StartSuccessor(g)
  PROVE  /\ GroupsOwn => GroupsOwn'
         /\ StopsAreMeant => StopsAreMeant'
         /\ TextReadBack /\ SocketsKnown /\ 1 \in Gens => SocketsKnown'
<1>1. Typed /\ NamesTell /\ SignalsTell /\ Chain
  BY DEF UInv
<1>2. Renamed(g) /\ gen[g].stage \in HasSockets /\ UNCHANGED <<signals, told>>
  BY DEF StartSuccessor, Renamed, Local, operator, HasSockets, Running
<1>3. PICK h \in Gens :
        /\ gen[h].stage = "none" /\ \A k \in 1 .. (h - 1) : gen[k].stage # "none"
        /\ Succession(g, h)
  BY DEF StartSuccessor, Succession, Forked
<1>4. ~gen[g].upgraded /\ gen[g].stage # "none"
  BY <1>1, <1>2, NamesOwned DEF Renamed, HasSockets, Running
<1>5. h > g
  BY <1>1, <1>3, <1>4, NextBorn
<1>6. g # h
  BY <1>3, <1>4
<1>7. /\ gen'[g].stage = gen[g].stage /\ gen'[g].group = gen[g].group
      /\ gen'[g].env = gen[g].env /\ gen'[g].fds = gen[g].fds
      /\ gen'[h].stage = "forked" /\ gen'[h].group = gen[g].group
      /\ gen'[h].fds = gen[h].fds /\ gen'[h].env = CreateListenFdsEnv(gen[g].fds)
      /\ \A k \in Gens : k # g /\ k # h => gen'[k] = gen[k]
  BY <1>1, <1>2, <1>3, <1>6, SuccessorChanges
<1>8. ASSUME NEW k \in Gens, k # h
      PROVE  /\ gen'[k].stage = gen[k].stage /\ gen'[k].group = gen[k].group
             /\ gen'[k].env = gen[k].env /\ gen'[k].fds = gen[k].fds
  BY <1>7, <1>8
<1>9. ASSUME GroupsOwn PROVE GroupsOwn'
  <2> SUFFICES ASSUME NEW k \in Gens
               PROVE  /\ gen'[k].stage \in {"none", "forked", "booting"} =>
                           gen'[k].group < k /\ gen'[k].fds = NoFds
                      /\ gen'[k].stage \in {"session"} \cup HasSockets => gen'[k].group = k
    BY DEF GroupsOwn
  <2>1. CASE k = h
    <3>1. gen[g].group = g /\ gen[h].fds = NoFds
      BY <1>2, <1>3, <1>9 DEF GroupsOwn
    <3> QED
      BY <1>5, <1>7, <2>1, <3>1 DEF HasSockets, Running
  <2>2. CASE k # h
    BY <1>8, <1>9, <2>2 DEF GroupsOwn
  <2> QED
    BY <2>1, <2>2
<1>10. ASSUME StopsAreMeant PROVE StopsAreMeant'
  <2> SUFFICES ASSUME NEW k \in Gens,
                      gen'[k].stage \in {"stopping", "gone"} \/ "QUIT" \in signals[k]
               PROVE  k \in told \/ (gen'[k].fds = NoFds /\ \E l \in told : l < k)
    BY <1>2 DEF StopsAreMeant
  <2>1. k # h
    BY <1>1, <1>3, <1>7 DEF SignalsTell, SignalTells
  <2> QED
    BY <1>8, <1>10, <2>1 DEF StopsAreMeant
<1>11. ASSUME TextReadBack, SocketsKnown, 1 \in Gens PROVE SocketsKnown'
  <2>1. /\ gen[1].env = <<>> /\ gen[1].stage \notin {"none", "forked"}
        /\ \A k \in Gens :
             /\ gen[k].stage = "none" => gen[k].env = <<>>
             /\ gen[k].stage \in HasSockets =>
                  gen[1].fds \in FdLists /\ gen[k].fds = gen[1].fds
             /\ k # 1 /\ gen[k].stage # "none" =>
                  /\ gen[k].env = CreateListenFdsEnv(gen[1].fds)
                  /\ gen[1].fds \in FdLists /\ gen[1].stage \notin {"booting", "session"}
    BY <1>11 DEF SocketsKnown
  <2>2. h # 1
    BY <1>3, <2>1
  <2>3. /\ gen'[1].env = gen[1].env /\ gen'[1].stage = gen[1].stage
        /\ gen'[1].fds = gen[1].fds
    BY <1>8, <1>11, <2>2
  <2>4. /\ gen[1].fds \in FdLists /\ gen[g].fds = gen[1].fds
        /\ gen[1].stage \notin {"booting", "session"}
    BY <1>2, <2>1 DEF HasSockets, Running
  <2>5. ASSUME NEW k \in Gens
        PROVE  /\ gen'[k].stage = "none" => gen'[k].env = <<>>
               /\ gen'[k].stage \in HasSockets =>
                    gen'[1].fds \in FdLists /\ gen'[k].fds = gen'[1].fds
               /\ k # 1 /\ gen'[k].stage # "none" =>
                    /\ gen'[k].env = CreateListenFdsEnv(gen'[1].fds)
                    /\ gen'[1].fds \in FdLists /\ gen'[1].stage \notin {"booting", "session"}
    <3>1. CASE k = h
      BY <1>7, <2>3, <2>4, <3>1 DEF HasSockets, Running
    <3>2. CASE k # h
      BY <1>8, <2>1, <2>3, <3>2
    <3> QED
      BY <3>1, <3>2
  <2> QED
    BY <2>1, <2>3, <2>5 DEF SocketsKnown
<1> QED
  BY <1>9, <1>10, <1>11

\* The signal that goes to the process group reaches only a child that is not in its
\* own yet, and has no sockets.
LEMMA GroupIsMeant ==
  ASSUME UInv, GroupsOwn, StopsAreMeant, NEW g \in Gens, HandleQuit(g)
  PROVE  StopsAreMeant'
<1>1. Typed /\ Onward(g) /\ UNCHANGED told /\ "QUIT" \in signals[g] /\ gen[g].stage \in Running
  BY StopsComeOn DEF UInv
<1>2. SignalsTell
  BY DEF UInv
<1>3. ASSUME NEW h \in Gens, "QUIT" \in signals'[h], "QUIT" \notin signals[h]
      PROVE  h # g /\ h \in Reached(g) /\ gen[h].stage \in Living
  BY <1>1, <1>2, <1>3, QuitSent
<1>4. ASSUME NEW h \in Gens, "QUIT" \in signals'[h], "QUIT" \notin signals[h]
      PROVE  gen[h].fds = NoFds /\ gen'[h].fds = NoFds /\ \E k \in told : k < h
  <2>1. h # g /\ gen[h].group = gen[g].group /\ gen[h].stage \in Living
    BY <1>3, <1>4 DEF Reached
  <2>2. gen[h].group = g
    BY <1>1, <2>1 DEF GroupsOwn, HasSockets
  <2>3. gen[h].stage \in {"forked", "booting"}
    BY <2>1, <2>2 DEF GroupsOwn, Living, HasSockets, Booting
  <2>4. g < h /\ gen[h].fds = NoFds
    BY <2>2, <2>3 DEF GroupsOwn
  <2>5. g \in told \/ \E k \in told : k < g
    BY <1>1 DEF StopsAreMeant
  <2>6. told \subseteq Gens
    BY <1>1 DEF Typed
  <2>7. \E k \in told : k < h
    <3>1. CASE g \in told
      BY <2>4, <3>1
    <3>2. CASE \E k \in told : k < g
      <4>1. PICK k \in told : k < g
        BY <3>2
      <4>2. k < h
        BY <2>4, <2>6, <4>1 DEF Gens
      <4> QED
        BY <4>2
    <3> QED
      BY <2>5, <3>1, <3>2
  <2>8. gen'[h].fds = gen[h].fds
    BY <1>1, <2>1 DEF Onward, OnlyOf
  <2> QED
    BY <2>4, <2>7, <2>8
<1> SUFFICES ASSUME NEW h \in Gens,
                    gen'[h].stage \in {"stopping", "gone"} \/ "QUIT" \in signals'[h]
             PROVE  h \in told \/ (gen'[h].fds = NoFds /\ \E k \in told : k < h)
  BY <1>1 DEF StopsAreMeant
<1>5. CASE "QUIT" \in signals'[h] /\ "QUIT" \notin signals[h]
  BY <1>4, <1>5
<1>6. CASE ~("QUIT" \in signals'[h] /\ "QUIT" \notin signals[h])
  <2>1. gen[h].stage \in {"stopping", "gone"} \/ "QUIT" \in signals[h]
    BY <1>1, <1>6 DEF Onward, OnlyOf, Running
  <2>2. gen'[h].fds = gen[h].fds
    BY <1>1, <2>1 DEF Onward, OnlyOf
  <2> QED
    BY <2>1, <2>2 DEF StopsAreMeant
<1> QED
  BY <1>5, <1>6

\* Who gets SIGQUIT from the operator is told.
LEMMA OperatorMeans ==
  ASSUME ConstantsAssumption, UInv, StopsAreMeant, ScriptUpgrade \/ ScriptQuit \/ OperatorStops
  PROVE  UNCHANGED gen /\ StopsAreMeant'
<1>1. Typed /\ 0 \in Names /\ 1 \in Names /\ files \in [Names -> Gens \cup {NoGen}]
  BY ConstantsAssumption DEF UInv, Typed, Names
<1>2. UNCHANGED gen
  BY DEF ScriptUpgrade, ScriptQuit, OperatorStops
<1>3. ASSUME told \subseteq told', \A h \in Gens : "QUIT" \in signals'[h] =>
                                      "QUIT" \in signals[h] \/ h \in told'
      PROVE  StopsAreMeant'
  BY <1>2, <1>3 DEF StopsAreMeant
<1>4. ASSUME NEW g \in Gens, Signal(g, "QUIT"), told' = told \cup {g}
      PROVE  StopsAreMeant'
  <2>1. \A h \in Gens : h # g => signals'[h] = signals[h]
    BY <1>1, <1>4, SignalSent
  <2> QED
    BY <1>3, <1>4, <2>1
<1>5. CASE ScriptUpgrade
  <2>1. PICK g \in Gens : files[0] = g
    BY <1>1, <1>5 DEF ScriptUpgrade
  <2>2. Signal(g, "USR1") /\ UNCHANGED told
    BY <1>5, <2>1 DEF ScriptUpgrade
  <2>3. /\ \A h \in Gens : h # g => signals'[h] = signals[h]
        /\ signals'[g] = signals[g] \cup {"USR1"} \/ signals'[g] = signals[g]
    BY <1>1, <2>2, SignalSent
  <2> QED
    BY <1>2, <1>3, <2>2, <2>3
<1>6. CASE ScriptQuit
  <2>1. CASE files[1] = NoGen
    BY <1>2, <1>3, <1>6, <2>1 DEF ScriptQuit
  <2>2. CASE files[1] # NoGen
    <3>1. PICK g \in Gens : files[1] = g
      BY <1>1, <2>2
    <3> QED
      BY <1>2, <1>4, <1>6, <2>2, <3>1 DEF ScriptQuit
  <2> QED
    BY <2>1, <2>2
<1>7. CASE OperatorStops
  <2>1. PICK g \in Gens : files[0] = g
    BY <1>1, <1>7 DEF OperatorStops
  <2> QED
    BY <1>2, <1>4, <1>7, <2>1 DEF OperatorStops
<1> QED
  BY <1>5, <1>6, <1>7

MInv == UInv /\ GroupsOwn /\ StopsAreMeant

LEMMA MInit ==
  ASSUME ConstantsAssumption, Init
  PROVE  MInv
<1>1. \A g \in Gens :
        /\ gen[g].stage = IF g = 1 THEN "booting" ELSE "none"
        /\ gen[g].group = 0 /\ gen[g].fds = NoFds
  BY FirstImage
<1>2. GroupsOwn
  BY <1>1 DEF GroupsOwn, Gens, HasSockets, Running
<1>3. StopsAreMeant
  BY <1>1 DEF StopsAreMeant, Init
<1> QED
  BY <1>2, <1>3, UInit DEF MInv

LEMMA MStep ==
  ASSUME ConstantsAssumption, Daemon = TRUE, MInv, [Next]_vars
  PROVE  MInv'
<1>1. UInv /\ Typed /\ NamesTell /\ GroupsOwn /\ StopsAreMeant
  BY DEF MInv, UInv
<1>2. UInv'
  BY <1>1, UStep
<1>3. ASSUME NEW g \in Gens, Onward(g), UNCHANGED told,
             \A h \in Gens : "QUIT" \in signals'[h] => "QUIT" \in signals[h]
      PROVE  GroupsOwn' /\ StopsAreMeant'
  BY <1>1, <1>3, GroupsGoOn, StopsGoOn
<1>4. ASSUME UNCHANGED gen PROVE GroupsOwn'
  BY <1>1, <1>4 DEF GroupsOwn
<1>5. ASSUME NEW g \in Gens, Start(g) \/ Fail(g) PROVE GroupsOwn' /\ StopsAreMeant'
  <2>1. CASE Start(g)
    <3>1. Onward(g) /\ UNCHANGED <<signals, told>>
      BY <1>1, <2>1, StartGoesOn
    <3> QED
      BY <1>3, <3>1
  <2>2. CASE Fail(g)
    BY <1>1, <1>3, <2>2, OthersGoOn
  <2> QED
    BY <1>5, <2>1, <2>2
<1>6. ASSUME NEW g \in Gens, NEW s \in Slots, Respawn(g, s) \/ Drained(g, s) \/ WorkerDies(g, s)
      PROVE  GroupsOwn' /\ StopsAreMeant'
  <2>1. Onward(g) /\ UNCHANGED <<signals, told>>
    BY <1>1, <1>6, OthersGoOn
  <2> QED
    BY <1>3, <2>1
<1>7. ASSUME NEW g \in Gens, Upgrades(g) PROVE GroupsOwn' /\ StopsAreMeant'
  <2>1. CASE RenamePidfile(g)
    BY <1>1, <1>3, <2>1, OthersGoOn
  <2>2. CASE StartSuccessor(g)
    BY <1>1, <2>2, SuccessorJoins
  <2>3. CASE StartFails(g)
    <3>1. Onward(g) /\ UNCHANGED <<signals, told>>
      BY <1>1, <2>3, StartFailsGoesOn
    <3> QED
      BY <1>3, <3>1
  <2> QED
    BY <1>7, <2>1, <2>2, <2>3 DEF Upgrades
<1>8. ASSUME NEW g \in Gens, Stops(g) PROVE GroupsOwn' /\ StopsAreMeant'
  <2>1. CASE HandleQuit(g)
    BY <1>1, <2>1, StopsComeOn, GroupsGoOn, GroupIsMeant
  <2>2. CASE DieOfQuit(g) \/ ExitInherited(g) \/ ExitAndCleanup(g)
    BY <1>1, <1>3, <2>2, StopsComeOn
  <2> QED
    BY <1>8, <2>1, <2>2 DEF Stops
<1>9. CASE ScriptUpgrade \/ ScriptQuit \/ OperatorStops
  BY <1>1, <1>2, <1>4, <1>9, OperatorMeans DEF MInv
<1>10. CASE UNCHANGED vars
  <2>1. UNCHANGED <<gen, signals, told>>
    BY <1>10 DEF vars, operator
  <2>2. StopsAreMeant'
    BY <1>1, <2>1 DEF StopsAreMeant
  <2> QED
    BY <1>2, <1>4, <2>1, <2>2 DEF MInv
<1> QED
  BY <1>2, <1>5, <1>6, <1>7, <1>8, <1>9, <1>10 DEF MInv, Next

\* With -g (yta_daemonize), SIGQUIT stops the generations it was meant for, and an image
\* that has not left the group of the one it was meant for: although signal_handler
\* signals the whole group while the worker pids are still zero.
THEOREM MeantToStop ==
  ASSUME Daemon = TRUE
  PROVE  Spec => []StopsAreMeant
<1>1. MInv => StopsAreMeant
  BY DEF MInv
<1> QED
  BY <1>1, ConstantsAssumption, MInit, MStep, PTL DEF Spec

\* What is read back of any descriptors the first generation can have got.
LEMMA TextReads == TextReadBack
<1>1. Workers \in Nat \ {0} /\ \A fds \in FdLists : fds \in [1 .. Workers -> Nat]
  BY ConstantsAssumption DEF ConstantsAssumption
<1>2. ASSUME NEW fds \in FdLists
      PROVE  /\ CreateListenFdsEnv(fds) # <<>>
             /\ Len(CreateListenFdsEnv(fds)) <= EnvRoom(Workers)
             /\ Len(Starts(CreateListenFdsEnv(fds))) = Workers
             /\ ParseListenFdsEnv(CreateListenFdsEnv(fds), Workers) = fds
  <2>1. fds \in Seq(Nat)
    BY <1>1, SeqDef
  <2>2. Len(fds) = Workers
    BY <1>1
  <2>3. Len(fds) # 0 /\ \A i \in 1 .. Len(fds) : fds[i] \in FiveDigits
    BY <1>1, <2>2, DescriptorsAssumption DEF DescriptorsAssumption
  <2>4. /\ CreateListenFdsEnv(fds) # <<>>
        /\ Len(CreateListenFdsEnv(fds)) <= EnvRoom(Len(fds))
        /\ Len(Starts(CreateListenFdsEnv(fds))) = Len(fds)
        /\ ParseListenFdsEnv(CreateListenFdsEnv(fds), Len(fds)) = fds
    BY <2>1, <2>3, ReadBack
  <2> QED
    BY <2>2, <2>4
<1> QED
  BY <1>2 DEF TextReadBack

SInv == UInv /\ SocketsKnown

LEMMA SInit ==
  ASSUME ConstantsAssumption, Init
  PROVE  SInv
<1>1. \A g \in Gens :
        gen[g].stage = (IF g = 1 THEN "booting" ELSE "none") /\ gen[g].env = <<>>
  BY FirstImage
<1>2. 1 \in Gens
  BY DEF ConstantsAssumption, Gens
<1>3. SocketsKnown
  BY <1>1, <1>2 DEF SocketsKnown, HasSockets, Running
<1> QED
  BY <1>3, UInit DEF SInv

LEMMA SStep ==
  ASSUME ConstantsAssumption, TextReadBack, SInv, [Next]_vars
  PROVE  SInv'
<1>1. UInv /\ Typed /\ NamesTell /\ SocketsKnown /\ 1 \in Gens
  BY DEF SInv, UInv, ConstantsAssumption, Gens
<1>2. UInv'
  BY <1>1, UStep
<1>3. ASSUME NEW g \in Gens, Onward(g) PROVE SocketsKnown'
  BY <1>1, <1>3, SocketsGoOn
<1>4. ASSUME UNCHANGED gen PROVE SocketsKnown'
  BY <1>1, <1>4, SameGoesOn, SocketsGoOn
<1>5. ASSUME NEW g \in Gens, Start(g) \/ Fail(g) PROVE SocketsKnown'
  BY <1>1, <1>3, <1>5, StartGoesOn, OthersGoOn
<1>6. ASSUME NEW g \in Gens, NEW s \in Slots, Respawn(g, s) \/ Drained(g, s) \/ WorkerDies(g, s)
      PROVE  SocketsKnown'
  BY <1>1, <1>3, <1>6, OthersGoOn
<1>7. ASSUME NEW g \in Gens, Upgrades(g) PROVE SocketsKnown'
  BY <1>1, <1>3, <1>7, OthersGoOn, SuccessorJoins, StartFailsGoesOn DEF Upgrades
<1>8. ASSUME NEW g \in Gens, Stops(g) PROVE SocketsKnown'
  BY <1>1, <1>3, <1>8, StopsComeOn DEF Stops
<1>9. CASE ScriptUpgrade \/ ScriptQuit \/ OperatorStops
  <2>1. UNCHANGED gen
    BY <1>9 DEF ScriptUpgrade, ScriptQuit, OperatorStops
  <2> QED
    BY <1>2, <1>4, <2>1 DEF SInv
<1>10. CASE UNCHANGED vars
  BY <1>2, <1>4, <1>10 DEF vars, SInv
<1> QED
  BY <1>2, <1>5, <1>6, <1>7, <1>8, <1>9, <1>10 DEF SInv, Next

\* parse_listen_fds_env reads the numbers create_listen_fds_env wrote, and every
\* generation serves the sockets that the first one opened, however long the chain of
\* upgrades.
THEOREM SocketsInherited == Spec => []SocketsHandedOn
<1>1. ConstantsAssumption /\ TextReadBack /\ SInv => SocketsHandedOn
  <2> SUFFICES ASSUME ConstantsAssumption, TextReadBack, SInv, NEW g \in Gens
               PROVE  /\ gen[g].stage \in Running => gen[g].fds = gen[1].fds
                      /\ Len(gen[g].env) <= EnvRoom(Workers)
                      /\ gen[g].env # <<>> => Len(Starts(gen[g].env)) = Workers
    BY DEF SocketsHandedOn
  <2>1. SocketsKnown
    BY DEF SInv
  <2>2. gen[g].stage \in Running => gen[g].fds = gen[1].fds
    BY <2>1 DEF SocketsKnown, HasSockets
  <2>3. CASE gen[g].env = <<>>
    <3>1. 0 <= EnvRoom(Workers)
      BY DEF ConstantsAssumption, EnvRoom
    <3> QED
      BY <2>2, <2>3, <3>1
  <2>4. CASE gen[g].env # <<>>
    <3>1. gen[1].fds \in FdLists /\ gen[g].env = CreateListenFdsEnv(gen[1].fds)
      BY <2>1, <2>4 DEF SocketsKnown
    <3> QED
      BY <2>2, <3>1 DEF TextReadBack
  <2> QED
    BY <2>3, <2>4
<1> QED
  BY <1>1, ConstantsAssumption, TextReads, SInit, SStep, PTL DEF Spec

=============================================================================
