---------------------------- MODULE SequenceLemmas ----------------------------
(***************************************************************************)
(* Induction and recursion without operator parameters: a predicate is the *)
(* set of what satisfies it, a step is a function.  And what follows for   *)
(* the folds that CleanPath and ListenFds use.                             *)
(***************************************************************************)
EXTENDS Integers, SequencesExt, SequenceTheorems, WellFoundedInduction, TLAPS

-----------------------------------------------------------------------------
(* Numbers. *)

LEMMA LeastExists ==
  ASSUME NEW T, T \subseteq Nat, T # {}
  PROVE  \E m \in T : \A k \in T : m <= k
<1>1. \E m \in T : \A k \in T : ~(<<k, m>> \in OpToRel(<, Nat))
  BY NatLessThanWellFounded, WFMin, Zenon
<1>2. PICK m \in T : \A k \in T : ~(k < m)
  BY <1>1, Zenon DEF OpToRel
<1>3. \A k \in T : k \in Nat /\ m \in Nat
  OBVIOUS
<1> QED
  BY <1>2, <1>3

LEMMA GreatestExists ==
  ASSUME NEW n \in Nat, NEW T, T \subseteq 0 .. n, T # {}
  PROVE  \E m \in T : \A k \in T : k <= m
<1> DEFINE U == {n - k : k \in T}
<1>1. U \subseteq Nat /\ U # {}
  <2>1. \A k \in T : k \in 0 .. n
    OBVIOUS
  <2>2. \A k \in T : n - k \in Nat
    BY <2>1
  <2> QED
    BY <2>2
<1>2. PICK u \in U : \A v \in U : u <= v
  <2> HIDE DEF U
  <2> QED
    BY <1>1, LeastExists
<1>3. PICK m \in T : u = n - m
  OBVIOUS
<1>4. \A k \in T : n - m <= n - k
  BY <1>2, <1>3
<1>5. \A k \in T : k \in Int /\ m \in Int
  <2>1. \A k \in T : k \in 0 .. n
    OBVIOUS
  <2> QED
    BY <2>1
<1> QED
  BY <1>4, <1>5

\* Induction: what holds of 0, and of n + 1 when it does of n, holds of all.
LEMMA Induct ==
  ASSUME NEW T, 0 \in T, \A n \in Nat : n \in T => n + 1 \in T
  PROVE  \A n \in Nat : n \in T
<1> DEFINE U == {n \in Nat : n \notin T}
<1>1. SUFFICES ASSUME U # {} PROVE FALSE
  OBVIOUS
<1>2. PICK m \in U : \A k \in U : m <= k
  <2>1. U \subseteq Nat
    OBVIOUS
  <2> HIDE DEF U
  <2> QED
    BY <1>1, <2>1, LeastExists
<1>3. m \in Nat /\ m \notin T /\ m # 0
  OBVIOUS
<1>4. m - 1 \in Nat /\ (m - 1) + 1 = m /\ ~(m <= m - 1)
  BY <1>3
<1>5. m - 1 \in T
  BY <1>2, <1>4
<1> QED
  BY <1>3, <1>4, <1>5

-----------------------------------------------------------------------------
(* Recursion: a function whose value at s is given, or is a step from the  *)
(* value at an element of lower rank, exists.                              *)

Founded(S, V, m, rank, leaf, pred, base, step) ==
  /\ m \in Nat /\ rank \in [S -> 0 .. m]
  /\ \A s \in S : s \in leaf => base[s] \in V
  /\ \A s \in S : s \notin leaf => pred[s] \in S /\ rank[pred[s]] < rank[s]
  /\ \A s \in S : s \notin leaf => \A v \in V : step[<<s, v>>] \in V

Solves(f, S, V, leaf, pred, base, step) ==
  /\ f \in [S -> V]
  /\ \A s \in S : f[s] = IF s \in leaf THEN base[s] ELSE step[<<s, f[pred[s]]>>]

LEMMA Recursion ==
  ASSUME NEW S, NEW V, NEW m, NEW rank, NEW leaf, NEW pred, NEW base, NEW step,
         Founded(S, V, m, rank, leaf, pred, base, step)
  PROVE  \E f : Solves(f, S, V, leaf, pred, base, step)
<1> USE DEF Founded
<1> DEFINE Low(n) == {s \in S : rank[s] < n}
           Eq(f, s) == f[s] = IF s \in leaf THEN base[s] ELSE step[<<s, f[pred[s]]>>]
           T == {n \in Nat : \E f \in [Low(n) -> V] : \A s \in Low(n) : Eq(f, s)}
<1>1. \A s \in S : rank[s] \in Nat /\ rank[s] <= m
  OBVIOUS
<1>2. 0 \in T
  <2>1. Low(0) = {}
    BY <1>1
  <2>2. [s \in Low(0) |-> base[s]] \in [Low(0) -> V]
    BY <2>1
  <2> QED
    BY <2>1, <2>2
<1>3. ASSUME NEW n \in Nat, n \in T PROVE n + 1 \in T
  <2>1. PICK f \in [Low(n) -> V] : \A s \in Low(n) : Eq(f, s)
    BY <1>3
  <2> DEFINE g == [s \in Low(n + 1) |-> IF s \in leaf THEN base[s] ELSE step[<<s, f[pred[s]]>>]]
  <2>2. \A s \in Low(n + 1) : s \in S /\ (s \notin leaf => pred[s] \in Low(n))
    <3>1. \A s \in Low(n + 1) : s \in S /\ rank[s] < n + 1
      OBVIOUS
    <3> HIDE DEF Low
    <3>2. \A s \in S : s \notin leaf /\ rank[s] < n + 1 => pred[s] \in S /\ rank[pred[s]] < n
      BY <1>1
    <3> QED
      BY <3>1, <3>2 DEF Low
  <2>3. \A s \in Low(n) : s \in Low(n + 1)
    BY <1>1
  <2>4. g \in [Low(n + 1) -> V]
    <3>1. \A s \in Low(n + 1) :
            (IF s \in leaf THEN base[s] ELSE step[<<s, f[pred[s]]>>]) \in V
      <4> HIDE DEF Low
      <4> QED
        BY <2>2
    <3> HIDE DEF Low
    <3> QED
      BY <3>1
  <2>5. \A s \in Low(n) : g[s] = f[s]
    <3> HIDE DEF Low
    <3> QED
      BY <2>1, <2>3
  <2>6. \A s \in Low(n + 1) : Eq(g, s)
    <3> HIDE DEF Low
    <3> QED
      BY <2>2, <2>5
  <2>7. \E h \in [Low(n + 1) -> V] : \A s \in Low(n + 1) : Eq(h, s)
    <3> HIDE DEF g, Low, Eq
    <3> QED
      BY <2>4, <2>6
  <2> QED
    BY <2>7, n + 1 \in Nat, Zenon
<1>4. m + 1 \in T
  <2>1. m + 1 \in Nat
    OBVIOUS
  <2> HIDE DEF T
  <2> QED
    BY <1>2, <1>3, <2>1, Induct
<1>5. Low(m + 1) = S
  BY <1>1
<1>6. \E f \in [S -> V] : \A s \in S : Eq(f, s)
  <2> HIDE DEF Low, Eq
  <2> QED
    BY <1>4, <1>5
<1> QED
  BY <1>6 DEF Solves

-----------------------------------------------------------------------------
(* Folds.  FoldLeft takes the greatest index away from a set of indices    *)
(* until none is left.                                                     *)

LEMMA MaxProperties ==
  ASSUME NEW n \in Nat, NEW I \in SUBSET (1 .. n), I # {}
  PROVE  Max(I) \in I /\ \A k \in I : k <= Max(I)
<1>1. n \in Nat /\ I \subseteq 0 .. n
  OBVIOUS
<1>2. PICK m \in I : \A k \in I : k <= m
  BY <1>1, GreatestExists
<1>3. \A k, j \in I : k <= j <=> j >= k
  BY <1>1
<1> QED
  BY <1>2, <1>3 DEF Max

LEMMA MaxOfFirst ==
  ASSUME NEW k \in Nat, k # 0
  PROVE  Max(1 .. k) = k /\ (1 .. k) \ {k} = 1 .. k - 1
<1>1. Max(1 .. k) \in 1 .. k /\ \A i \in 1 .. k : i <= Max(1 .. k)
  <2>1. 1 .. k # {} /\ 1 .. k \in SUBSET (1 .. k)
    OBVIOUS
  <2> QED
    BY <2>1, MaxProperties
<1>2. k \in 1 .. k
  OBVIOUS
<1> QED
  BY <1>1, <1>2

IsStep(step, n, V) == \A v \in V, i \in 1 .. n : step[<<v, i>>] \in V

IsTable(g, n, V, base, step) ==
  /\ g \in [SUBSET (1 .. n) -> V]
  /\ g = [I \in SUBSET (1 .. n) |->
            IF I = {} THEN base ELSE step[<<g[I \ {Max(I)}], Max(I)>>]]

\* What FoldLeft computes with, for a step that is a function.
LEMMA FoldTable ==
  ASSUME NEW n \in Nat, NEW V, NEW base \in V, NEW step, IsStep(step, n, V)
  PROVE  \E g : IsTable(g, n, V, base, step)
<1> USE DEF IsStep
<1> DEFINE S == SUBSET (1 .. n)
           rank == [I \in S |-> IF I = {} THEN 0 ELSE Max(I)]
           pred == [I \in S |-> I \ {Max(I)}]
           leaf == {{}}
           first == [I \in S |-> base]
           next == [p \in S \X V |-> step[<<p[2], Max(p[1])>>]]
<1>1. \A I \in S : I # {} => /\ Max(I) \in I /\ Max(I) \in 1 .. n
                            /\ \A k \in I : k <= Max(I)
  BY MaxProperties
<1>2. rank \in [S -> 0 .. n]
  <2>1. \A I \in S : (IF I = {} THEN 0 ELSE Max(I)) \in 0 .. n
    <3> HIDE DEF S
    <3> QED
      BY <1>1
  <2> HIDE DEF S
  <2> QED
    BY <2>1
<1>3. \A I \in S : I \in leaf => first[I] \in V
  OBVIOUS
<1>4. \A I \in S : I \notin leaf => pred[I] \in S /\ rank[pred[I]] < rank[I]
  <2> SUFFICES ASSUME NEW I \in S, I # {}
               PROVE  pred[I] \in S /\ rank[pred[I]] < rank[I]
    OBVIOUS
  <2> DEFINE J == I \ {Max(I)}
  <2>1. J \in S /\ pred[I] = J /\ rank[I] = Max(I)
    OBVIOUS
  <2>2. rank[J] = IF J = {} THEN 0 ELSE Max(J)
    BY <2>1
  <2>3. J # {} => Max(J) \in J
    <3> HIDE DEF S, J
    <3> QED
      BY <1>1, <2>1
  <2>4. Max(I) \in 1 .. n /\ \A k \in I : k <= Max(I) /\ k \in 1 .. n
    BY <1>1
  <2>5. CASE J = {}
    BY <2>1, <2>2, <2>4, <2>5
  <2>6. CASE J # {}
    <3>1. Max(J) \in I /\ Max(J) # Max(I)
      BY <2>3, <2>6
    <3>2. Max(J) < Max(I)
      <4> HIDE DEF J, S
      <4> QED
        BY <2>4, <3>1
    <3> HIDE DEF J, rank, pred, S
    <3> QED
      BY <2>1, <2>2, <2>6, <3>2
  <2> QED
    BY <2>5, <2>6
<1>5. \A I \in S : I \notin leaf => \A v \in V : next[<<I, v>>] \in V
  <2> SUFFICES ASSUME NEW I \in S, I # {}, NEW v \in V
               PROVE  next[<<I, v>>] \in V
    OBVIOUS
  <2>1. next[<<I, v>>] = step[<<v, Max(I)>>]
    BY <<I, v>> \in S \X V
  <2> HIDE DEF S
  <2> QED
    BY <1>1, <2>1
<1>6. PICK f \in [S -> V] :
        \A I \in S : f[I] = IF I \in leaf THEN first[I] ELSE next[<<I, f[pred[I]]>>]
  <2> HIDE DEF S, rank, pred, leaf, first, next
  <2>1. Founded(S, V, n, rank, leaf, pred, first, next)
    BY <1>2, <1>3, <1>4, <1>5 DEF Founded
  <2>2. PICK f : Solves(f, S, V, leaf, pred, first, next)
    BY <2>1, Recursion
  <2> QED
    BY <2>2 DEF Solves
<1>7. \A I \in S : f[I] = IF I = {} THEN base ELSE step[<<f[I \ {Max(I)}], Max(I)>>]
  <2> SUFFICES ASSUME NEW I \in S
               PROVE  f[I] = IF I = {} THEN base ELSE step[<<f[I \ {Max(I)}], Max(I)>>]
    OBVIOUS
  <2>1. CASE I = {}
    BY <1>6, <2>1
  <2>2. CASE I # {}
    <3>1. pred[I] = I \ {Max(I)} /\ pred[I] \in S
      OBVIOUS
    <3>2. f[pred[I]] \in V
      <4> HIDE DEF S, pred
      <4> QED
        BY <3>1
    <3>3. <<I, f[pred[I]]>> \in S \X V
      BY <3>2
    <3>4. next[<<I, f[pred[I]]>>] = step[<<f[pred[I]], Max(I)>>]
      BY <3>3
    <3> HIDE DEF S, pred, next
    <3> QED
      BY <1>6, <2>2, <3>1, <3>4
  <2> QED
    BY <2>1, <2>2
<1>8. f = [I \in S |-> IF I = {} THEN base ELSE step[<<f[I \ {Max(I)}], Max(I)>>]]
  <2> HIDE DEF S
  <2> QED
    BY <1>7
<1> QED
  BY <1>8 DEF IsTable

-----------------------------------------------------------------------------
(* Concatenation. *)

LEMMA CutConcat ==
  ASSUME NEW S, NEW s \in Seq(S), NEW t \in Seq(S)
  PROVE  SubSeq(s \o t, 1, Len(s)) = s
<1> DEFINE n == Len(s)
           p == s \o t
           q == SubSeq(p, 1, n)
<1>1. n \in Nat /\ Len(t) \in Nat
  BY LenProperties
<1>2. /\ p \in Seq(S) /\ Len(p) = n + Len(t)
      /\ \A i \in 1 .. n + Len(t) : p[i] = IF i <= n THEN s[i] ELSE t[i - n]
  BY ConcatProperties
<1> HIDE DEF n, p
<1>3. /\ \A i \in 1 .. n : i \in 1 .. n + Len(t) /\ i <= n
      /\ 1 \in Int /\ n \in Int /\ n - 1 + 1 = n /\ (~(1 <= n) => n = 0)
      /\ \A i \in 1 .. n : 1 + i - 1 = i
  BY <1>1
<1>4. \A i \in 1 .. n : p[i] = s[i] /\ p[i] \in S
  <2>1. \A i \in 1 .. n : p[i] \in S
    BY <1>2, <1>3, ElementOfSeq
  <2> QED
    BY <1>2, <1>3, <2>1
<1>5. q \in Seq(S) /\ Len(q) = IF 1 <= n THEN n - 1 + 1 ELSE 0
  BY <1>3, <1>4, SubSeqProperties
<1>6. \A i \in 1 .. n - 1 + 1 : q[i] = p[1 + i - 1]
  BY <1>3, <1>4, SubSeqProperties
<1> HIDE DEF q
<1>7. Len(q) = n /\ \A i \in 1 .. n : q[i] = s[i]
  BY <1>3, <1>4, <1>5, <1>6
<1>8. q = s
  BY <1>5, <1>7, SeqEqual DEF n
<1> QED
  BY <1>8 DEF q, p, n

\* Concatenation under a name of its own, for terms of several.
Cat(s, t) == s \o t

LEMMA CatProperties ==
  ASSUME NEW S, NEW a \in Seq(S), NEW b \in Seq(S), NEW c \in Seq(S)
  PROVE  Cat(a, b) \in Seq(S) /\ Cat(Cat(a, b), c) = Cat(a, Cat(b, c))
<1>1. a \o b \in Seq(S)
  BY ConcatProperties
<1>2. (a \o b) \o c = a \o (b \o c)
  BY ConcatAssociative
<1> QED
  BY <1>1, <1>2 DEF Cat

LEMMA Regroup ==
  ASSUME NEW S, NEW s \in Seq(S), NEW t \in Seq(S), NEW u \in Seq(S), NEW v \in Seq(S)
  PROVE  /\ Cat(s, Cat(Cat(t, u), v)) = Cat(Cat(s, t), Cat(u, v))
         /\ Cat(s, Cat(Cat(t, u), v)) = Cat(Cat(Cat(s, t), u), v)
<1>1. \A a, b, c \in Seq(S) : Cat(a, b) \in Seq(S) /\ Cat(Cat(a, b), c) = Cat(a, Cat(b, c))
  BY CatProperties
<1> QED
  BY <1>1

-----------------------------------------------------------------------------
(* FlattenSeq. *)

\* The pieces lie one behind the other: o[i] is the length of the first i of them.
Lays(env, pieces, o) ==
  /\ o[0] = 0 /\ \A i \in 0 .. Len(pieces) : o[i] \in Nat
  /\ \A i \in 1 .. Len(pieces) : o[i] = o[i - 1] + Len(pieces[i])
  /\ Len(env) = o[Len(pieces)]
  /\ \A i \in 1 .. Len(pieces) : \A j \in 1 .. Len(pieces[i]) : env[o[i - 1] + j] = pieces[i][j]

\* It takes one piece after the other.
LEMMA FlattenRows ==
  ASSUME NEW S, NEW pieces \in Seq(Seq(S)), Len(pieces) # 0
  PROVE  \E f : /\ \A i \in 1 .. Len(pieces) : f[i] \in Seq(S)
                /\ f[1] = pieces[1]
                /\ \A i \in 2 .. Len(pieces) : f[i] = f[i - 1] \o pieces[i]
                /\ FlattenSeq(pieces) = f[Len(pieces)]
<1> DEFINE n == Len(pieces)
           D == 1 .. n
           V == Seq(S)
           rank == [i \in D |-> i]
           leaf == {1}
           pred == [i \in D |-> i - 1]
           base == [i \in D |-> pieces[i]]
           step == [p \in D \X V |-> p[2] \o pieces[p[1]]]
           table(g) == [i \in D |-> IF i = 1 THEN pieces[i] ELSE g[i - 1] \o pieces[i]]
           G == CHOOSE g : g = table(g)
<1>1. n \in Nat /\ n # 0 /\ \A i \in D : pieces[i] \in V
  BY LenProperties, ElementOfSeq
<1>2. FlattenSeq(pieces) = G[n]
  BY <1>1 DEF FlattenSeq
<1>3. \A i \in D : i \in 0 .. n /\ (i # 1 => i - 1 \in D /\ i - 1 < i)
  BY <1>1
<1>4. \A i \in D, v \in V : step[<<i, v>>] = v \o pieces[i] /\ step[<<i, v>>] \in V
  <2>1. \A i \in D, v \in V : v \o pieces[i] \in V
    BY <1>1, ConcatProperties
  <2> QED
    BY <2>1
<1>5. Founded(D, V, n, rank, leaf, pred, base, step)
  <2>1. rank \in [D -> 0 .. n] /\ \A i \in D : i \in leaf => base[i] \in V
    BY <1>1, <1>3
  <2>2. \A i \in D : i \notin leaf => pred[i] \in D /\ rank[pred[i]] < rank[i]
    BY <1>3
  <2>3. \A i \in D : i \notin leaf => \A v \in V : step[<<i, v>>] \in V
    BY <1>4
  <2> HIDE DEF n, D, V, rank, leaf, pred, base, step
  <2> QED
    BY <1>1, <2>1, <2>2, <2>3 DEF Founded
<1>6. PICK g : Solves(g, D, V, leaf, pred, base, step)
  <2> HIDE DEF n, D, V, rank, leaf, pred, base, step
  <2> QED
    BY <1>5, Recursion
<1>7. /\ g \in [D -> V]
      /\ \A i \in D : g[i] = IF i = 1 THEN pieces[i] ELSE g[i - 1] \o pieces[i]
  <2>1. g \in [D -> V] /\ \A i \in D : g[i] = IF i \in leaf THEN base[i] ELSE step[<<i, g[pred[i]]>>]
    BY <1>6 DEF Solves
  <2>2. \A i \in D : (i \in leaf <=> i = 1) /\ base[i] = pieces[i] /\ pred[i] = i - 1
    OBVIOUS
  <2> HIDE DEF n, D, V, leaf, pred, base, step
  <2>3. \A i \in D : i # 1 => g[i - 1] \in V
    BY <1>3, <2>1
  <2>4. \A i \in D : i # 1 => step[<<i, g[i - 1]>>] = g[i - 1] \o pieces[i]
    BY <1>4, <2>3
  <2> QED
    BY <2>1, <2>2, <2>4
<1>8. g = table(g)
  <2> HIDE DEF D, V
  <2> QED
    BY <1>7
<1>9. G = table(G)
  <2> HIDE DEF table
  <2> QED
    BY <1>8
<1> HIDE DEF G
<1>10. \A i \in D : G[i] = IF i = 1 THEN pieces[i] ELSE G[i - 1] \o pieces[i]
  BY <1>9
<1>11. \A i \in D : G[i] \in V
  <2> DEFINE T == {i \in Nat : i \in D => G[i] \in V}
  <2>1. 0 \in T
    OBVIOUS
  <2>2. \A i \in Nat : i \in T => i + 1 \in T
    <3>0. \A i \in Nat : i + 1 \in Nat
      OBVIOUS
    <3> SUFFICES ASSUME NEW i \in Nat, i \in T, i + 1 \in D PROVE G[i + 1] \in V
      BY <3>0
    <3>1. CASE i = 0
      <4>1. G[1] = pieces[1] /\ i + 1 = 1 /\ 1 \in D
        BY <1>10, <3>1
      <4> HIDE DEF V, D
      <4> QED
        BY <1>1, <4>1
    <3>2. CASE i # 0
      <4>1. i \in D /\ (i + 1) - 1 = i /\ i + 1 # 1
        BY <1>1, <3>2
      <4>2. G[i] \in V
        BY <4>1
      <4>3. G[i + 1] = G[i] \o pieces[i + 1]
        <5> DEFINE k == i + 1
        <5>1. k \in D /\ k # 1 /\ k - 1 = i
          BY <4>1
        <5> HIDE DEF D, T, k
        <5>2. G[k] = G[i] \o pieces[k]
          BY <1>10, <5>1
        <5> QED
          BY <5>2 DEF k
      <4>4. pieces[i + 1] \in V
        <5> HIDE DEF D, V, T
        <5> QED
          BY <1>1
      <4> HIDE DEF D, T
      <4> QED
        BY <4>2, <4>3, <4>4, ConcatProperties
    <3> QED
      BY <3>1, <3>2
  <2>3. \A i \in Nat : i \in T
    <3> HIDE DEF T
    <3> QED
      BY <2>1, <2>2, Induct
  <2>4. \A i \in D : i \in Nat
    BY <1>1
  <2> HIDE DEF D, V
  <2> QED
    BY <2>3, <2>4
<1>12. \A i \in 2 .. n : i \in D /\ i # 1 /\ 1 \in D
  BY <1>1
<1>13. G[1] = pieces[1]
  <2>1. 1 \in D
    BY <1>1
  <2> HIDE DEF D
  <2> QED
    BY <1>10, <2>1
<1>14. \A i \in 2 .. n : G[i] = G[i - 1] \o pieces[i]
  <2> HIDE DEF D, n
  <2> QED
    BY <1>10, <1>12
<1> QED
  BY <1>2, <1>11, <1>13, <1>14

\* So they lie in the result as they are.
LEMMA FlattenLays ==
  ASSUME NEW S, NEW pieces \in Seq(Seq(S)), Len(pieces) # 0
  PROVE  FlattenSeq(pieces) \in Seq(S) /\ \E o : Lays(FlattenSeq(pieces), pieces, o)
<1> DEFINE n == Len(pieces)
           env == FlattenSeq(pieces)
<1>1. PICK f : /\ \A i \in 1 .. n : f[i] \in Seq(S)
               /\ f[1] = pieces[1]
               /\ \A i \in 2 .. n : f[i] = f[i - 1] \o pieces[i]
               /\ env = f[n]
  BY FlattenRows
<1>2. n \in Nat \ {0} /\ \A i \in 1 .. n : pieces[i] \in Seq(S)
  BY LenProperties, ElementOfSeq
<1> HIDE DEF n, env
<1>3. \A i \in 1 .. n : Len(f[i]) \in Nat /\ Len(pieces[i]) \in Nat
  BY <1>1, <1>2, LenProperties
<1>4. \A i \in 2 .. n : i \in 1 .. n /\ i - 1 \in 1 .. n
  BY <1>2
<1>5. ASSUME NEW i \in 2 .. n
      PROVE  /\ Len(f[i]) = Len(f[i - 1]) + Len(pieces[i])
             /\ \A j \in 1 .. Len(f[i - 1]) : f[i][j] = f[i - 1][j]
             /\ \A j \in 1 .. Len(pieces[i]) : f[i][Len(f[i - 1]) + j] = pieces[i][j]
  <2> DEFINE p == f[i - 1]
             q == pieces[i]
             a == Len(p)
             b == Len(q)
  <2>1. /\ p \in Seq(S) /\ q \in Seq(S) /\ a \in Nat /\ b \in Nat /\ f[i] = p \o q
    BY <1>1, <1>2, <1>3, <1>4
  <2> HIDE DEF p, q
  <2>2. /\ Len(p \o q) = a + b
        /\ \A j \in 1 .. a + b : (p \o q)[j] = IF j <= a THEN p[j] ELSE q[j - a]
    BY <2>1, ConcatProperties
  <2> HIDE DEF a, b
  <2>3. \A j \in 1 .. a : j \in 1 .. a + b /\ j <= a
    BY <2>1
  <2>4. \A j \in 1 .. b : a + j \in 1 .. a + b /\ ~(a + j <= a) /\ (a + j) - a = j
    BY <2>1
  <2>5. \A j \in 1 .. a : f[i][j] = p[j]
    BY <2>1, <2>2, <2>3
  <2>6. \A j \in 1 .. b : f[i][a + j] = q[j]
    <3> SUFFICES ASSUME NEW j \in 1 .. b PROVE f[i][a + j] = q[j]
      OBVIOUS
    <3> DEFINE k == a + j
    <3>1. k \in 1 .. a + b /\ ~(k <= a) /\ k - a = j
      BY <2>4
    <3> HIDE DEF k
    <3>2. f[i][k] = q[k - a]
      BY <2>1, <2>2, <3>1
    <3> QED
      BY <3>1, <3>2 DEF k
  <2>7. Len(f[i]) = a + b
    BY <2>1, <2>2
  <2> QED
    BY <2>5, <2>6, <2>7 DEF a, b, p, q
<1> DEFINE o == [i \in 0 .. n |-> IF i = 0 THEN 0 ELSE Len(f[i])]
<1>6. /\ o[0] = 0 /\ \A i \in 0 .. n : o[i] \in Nat
      /\ \A i \in 1 .. n : o[i] = Len(f[i])
  <2>1. 0 \in 0 .. n /\ \A i \in 1 .. n : i \in 0 .. n /\ i # 0
    BY <1>2
  <2>2. \A i \in 0 .. n : i = 0 \/ i \in 1 .. n
    BY <1>2
  <2> QED
    BY <1>3, <2>1, <2>2
<1> HIDE DEF o
<1>7. \A i \in 1 .. n : o[i] = o[i - 1] + Len(pieces[i])
  <2> SUFFICES ASSUME NEW i \in 1 .. n PROVE o[i] = o[i - 1] + Len(pieces[i])
    OBVIOUS
  <2>1. CASE i = 1
    BY <1>1, <1>3, <1>6, <2>1
  <2>2. CASE i # 1
    <3>1. i \in 2 .. n /\ i - 1 \in 1 .. n
      BY <1>2, <2>2
    <3> QED
      BY <1>5, <1>6, <3>1
  <2> QED
    BY <2>1, <2>2
<1>8. Len(env) = o[n]
  <2>1. n \in 1 .. n
    BY <1>2
  <2> QED
    BY <1>1, <1>6, <2>1
<1> DEFINE Laid(m) == \A i \in 1 .. m : o[i] <= o[m] /\
                        \A j \in 1 .. Len(pieces[i]) : f[m][o[i - 1] + j] = pieces[i][j]
           T == {m \in Nat : m \in 1 .. n => Laid(m)}
<1>9. 0 \in T
  OBVIOUS
<1>10. \A m \in Nat : m \in T => m + 1 \in T
  <2>0. \A m \in Nat : m + 1 \in Nat
    OBVIOUS
  <2> SUFFICES ASSUME NEW m \in Nat, m \in T, m + 1 \in 1 .. n PROVE Laid(m + 1)
    <3> HIDE DEF Laid
    <3> QED
      BY <2>0
  <2>1. CASE m = 0
    <3>1. /\ m + 1 = 1 /\ 1 \in 1 .. n /\ 1 - 1 = 0 /\ \A i \in 1 .. 1 : i = 1
          /\ \A j \in 1 .. Len(pieces[1]) : 0 + j = j
      BY <1>3, <2>1
    <3>2. o[1] <= o[1]
      BY <1>3, <1>6, <3>1
    <3>3. \A i \in 1 .. 1 : \A j \in 1 .. Len(pieces[i]) : f[1][o[i - 1] + j] = pieces[i][j]
      <4> SUFFICES ASSUME NEW j \in 1 .. Len(pieces[1]) PROVE f[1][o[0] + j] = pieces[1][j]
        BY <3>1
      <4>1. o[0] + j = j
        BY <1>6, <3>1
      <4> QED
        BY <1>1, <4>1
    <3> QED
      BY <3>1, <3>2, <3>3
  <2>2. CASE m # 0
    <3> DEFINE i == m + 1
    <3>1. i \in 2 .. n /\ i - 1 = m /\ m \in 1 .. n /\ i \in 1 .. n
      BY <1>2, <2>2
    <3>2. Laid(m)
      BY <3>1
    <3> HIDE DEF i, T
    <3>3. /\ o[i] = o[m] + Len(pieces[i]) /\ o[m] = Len(f[m]) /\ o[i] \in Nat /\ o[m] \in Nat
          /\ Len(pieces[i]) \in Nat /\ o[m] <= o[i]
      BY <1>3, <1>6, <1>7, <3>1
    <3>4. ASSUME NEW k \in 1 .. i
          PROVE  o[k] <= o[i] /\ \A j \in 1 .. Len(pieces[k]) : f[i][o[k - 1] + j] = pieces[k][j]
      <4>1. CASE k = i
        <5>1. o[k - 1] = Len(f[i - 1]) /\ o[k] <= o[i]
          <6>1. o[k - 1] = Len(f[i - 1])
            <7>1. k - 1 = m
              BY <3>1, <4>1
            <7>2. o[m] = Len(f[m])
              BY <3>3
            <7> QED
              BY <3>1, <7>1, <7>2
          <6>2. o[i] <= o[i]
            <7>1. o[i] \in Nat
              BY <3>3
            <7> QED
              BY <7>1
          <6> QED
            BY <4>1, <6>1, <6>2
        <5>2. \A j \in 1 .. Len(pieces[i]) : f[i][Len(f[i - 1]) + j] = pieces[i][j]
          BY <1>5, <3>1
        <5> QED
          BY <4>1, <5>1, <5>2
      <4>2. CASE k # i
        <5>1. k \in 1 .. m /\ k \in 1 .. n /\ k - 1 \in 0 .. n
          BY <1>2, <3>1, <4>2
        <5>2. o[k] <= o[m] /\ o[k] \in Nat /\ o[k - 1] \in Nat /\ o[k] = o[k - 1] + Len(pieces[k])
          BY <1>3, <1>6, <1>7, <3>2, <5>1
        <5>3. ASSUME NEW j \in 1 .. Len(pieces[k])
              PROVE  f[i][o[k - 1] + j] = pieces[k][j]
          <6> DEFINE c == o[k - 1] + j
                     l == Len(pieces[k])
          <6>1. l \in Nat
            BY <1>3, <5>1
          <6>2. c \in 1 .. Len(f[m])
            <7>1. o[k - 1] \in Nat /\ o[m] \in Nat /\ o[k - 1] + l <= o[m] /\ j \in 1 .. l
              BY <3>3, <5>2
            <7>2. c \in 1 .. o[m]
              <8> DEFINE p == o[k - 1]
                         q == o[m]
              <8>1. p \in Nat /\ q \in Nat /\ p + l <= q /\ j \in 1 .. l /\ l \in Nat
                BY <6>1, <7>1
              <8> HIDE DEF l, p, q
              <8>2. p + j \in 1 .. q
                BY <8>1
              <8> QED
                BY <8>2 DEF p, q
            <7> QED
              BY <3>3, <7>2
          <6>3. f[m][c] = pieces[k][j]
            BY <3>2, <5>1
          <6> HIDE DEF c
          <6>4. f[i][c] = f[m][c]
            BY <1>5, <3>1, <6>2
          <6> QED
            BY <6>3, <6>4 DEF c
        <5>4. o[k] <= o[i]
          <6> DEFINE a == o[k]
                     b == o[m]
                     c == o[i]
          <6>1. a \in Nat /\ b \in Nat /\ c \in Nat /\ a <= b /\ b <= c
            BY <3>3, <5>2
          <6> HIDE DEF a, b, c
          <6>2. a <= c
            BY <6>1
          <6> QED
            BY <6>2 DEF a, c
        <5> QED
          BY <5>3, <5>4
      <4> QED
        BY <4>1, <4>2
    <3> QED
      BY <3>4 DEF i
  <2> QED
    BY <2>1, <2>2
<1>11. \A m \in Nat : m \in T
  <2> HIDE DEF T
  <2> QED
    BY <1>9, <1>10, Induct
<1>12. Laid(n)
  <2>1. n \in 1 .. n /\ n \in Nat
    BY <1>2
  <2> HIDE DEF Laid
  <2> QED
    BY <1>11, <2>1
<1>13. Lays(env, pieces, o)
  BY <1>1, <1>6, <1>7, <1>8, <1>12 DEF Lays, n
<1>14. env \in Seq(S)
  <2>1. n \in 1 .. n
    BY <1>2
  <2> QED
    BY <1>1, <2>1
<1> QED
  BY <1>13, <1>14 DEF env
=============================================================================
