----------------------------- MODULE TextLemmas -----------------------------
(***************************************************************************)
(* What the proofs about texts rest on, and all that can be said of them   *)
(* without a state: induction and recursion, the numbers, field_map, and   *)
(* the texts that headers are written as.                                  *)
(*                                                                         *)
(* The functions that compute numbers and texts are recursive.  What they  *)
(* compute is proved by induction over the natural numbers, in a form that *)
(* has a set where the usual one has a predicate: `Induction' below.       *)
(***************************************************************************)
EXTENDS RequestGrammar, SequenceTheorems, FiniteSetTheorems,
        WellFoundedInduction, TLAPS

-----------------------------------------------------------------------------
(* Induction. *)

LEMMA LeastNat ==
  ASSUME NEW T, T \subseteq Nat, T # {}
  PROVE  \E m \in T : \A k \in T : m <= k
<1>1. PICK x \in T : TRUE
  OBVIOUS
<1>2. PICK m \in T : \A k \in T : ~(<<k, m>> \in OpToRel(<, Nat))
  BY <1>1, NatLessThanWellFounded, WFMin
<1>3. \A k \in T : ~(k < m)
  BY <1>2 DEF OpToRel
<1> QED
  BY <1>3

(* Induction, for a set in the place of a predicate. *)
LEMMA StrongInduction ==
  ASSUME NEW T, \A n \in Nat : (\A m \in 0..(n - 1) : m \in T) => n \in T
  PROVE  \A n \in Nat : n \in T
<1> DEFINE Bad == Nat \ T
<1>1. ASSUME Bad # {} PROVE FALSE
  <2>1. PICK n \in Bad : \A k \in Bad : n <= k
    BY <1>1, LeastNat
  <2>2. \A m \in 0..(n - 1) : m \in T
    BY <2>1
  <2> QED
    BY <2>1, <2>2
<1> QED
  BY <1>1

LEMMA Induction ==
  ASSUME NEW T, 0 \in T, \A n \in Nat : n \in T => n + 1 \in T
  PROVE  \A n \in Nat : n \in T
<1>1. ASSUME NEW n \in Nat, \A m \in 0..(n - 1) : m \in T PROVE n \in T
  <2>1. CASE n = 0
    BY <2>1
  <2>2. CASE n # 0
    <3>1. n - 1 \in Nat /\ n - 1 \in 0..(n - 1) /\ (n - 1) + 1 = n
      BY <2>2
    <3> QED
      BY <1>1, <3>1
  <2> QED
    BY <2>1, <2>2
<1> QED
  BY <1>1, StrongInduction

(* Recursion over a size: a function whose value at s is computed by       *)
(* step[s] from its values at what is smaller than s.                      *)
IsRecursion(step, size, S, V) ==
  /\ V # {}
  /\ size \in [S -> Nat]
  /\ step \in [S -> [[S -> V] -> V]]
  /\ \A s \in S : \A f, g \in [S -> V] :
       (\A r \in S : size[r] < size[s] => f[r] = g[r])
         => step[s][f] = step[s][g]

(* f is as it should be on everything smaller than n. *)
Follows(f, step, size, S, n) ==
  \A s \in S : size[s] < n => f[s] = step[s][f]

LEMMA FollowersAgree ==
  ASSUME NEW step, NEW size, NEW S, NEW V, IsRecursion(step, size, S, V)
  PROVE  \A n \in Nat : \A f, g \in [S -> V] :
           Follows(f, step, size, S, n) /\ Follows(g, step, size, S, n)
             => \A s \in S : size[s] < n => f[s] = g[s]
<1> SUFFICES ASSUME NEW n \in Nat, NEW f \in [S -> V], NEW g \in [S -> V],
                    Follows(f, step, size, S, n), Follows(g, step, size, S, n)
             PROVE  \A s \in S : size[s] < n => f[s] = g[s]
  OBVIOUS
<1> USE DEF IsRecursion
<1> DEFINE T == {k \in Nat : \A s \in S : size[s] = k /\ k < n => f[s] = g[s]}
<1>1. ASSUME NEW k \in Nat, \A m \in 0..(k - 1) : m \in T PROVE k \in T
  <2> SUFFICES ASSUME NEW s \in S, size[s] = k, k < n PROVE f[s] = g[s]
    OBVIOUS
  <2>1. ASSUME NEW r \in S, size[r] < size[s] PROVE f[r] = g[r]
    <3>1. size[r] \in 0..(k - 1) /\ size[r] < n
      BY <2>1
    <3>2. size[r] \in T
      BY <1>1, <3>1
    <3> QED
      BY <3>1, <3>2
  <2>2. step[s][f] = step[s][g]
    BY <2>1
  <2> QED
    BY <2>2 DEF Follows
<1> HIDE DEF T
<1>2. \A k \in Nat : k \in T
  BY <1>1, StrongInduction
<1> QED
  BY <1>2 DEF T

LEMMA Recursion ==
  ASSUME NEW step, NEW size, NEW S, NEW V, IsRecursion(step, size, S, V)
  PROVE  \E f \in [S -> V] : \A s \in S : f[s] = step[s][f]
<1>0. \A n \in Nat : \A f, g \in [S -> V] :
        Follows(f, step, size, S, n) /\ Follows(g, step, size, S, n)
          => \A s \in S : size[s] < n => f[s] = g[s]
  BY FollowersAgree
<1> USE DEF IsRecursion
<1> DEFINE T == {n \in Nat : \E f \in [S -> V] : Follows(f, step, size, S, n)}
<1>1. 0 \in T
  <2>1. PICK v \in V : TRUE
    OBVIOUS
  <2>2. [s \in S |-> v] \in [S -> V]
    OBVIOUS
  <2>3. Follows([s \in S |-> v], step, size, S, 0)
    BY DEF Follows
  <2> QED
    BY <2>2, <2>3
<1>2. ASSUME NEW n \in Nat, n \in T PROVE n + 1 \in T
  <2>1. PICK f \in [S -> V] : Follows(f, step, size, S, n)
    BY <1>2
  <2> DEFINE g == [s \in S |-> step[s][f]]
  <2>2. g \in [S -> V]
    OBVIOUS
  <2>3. \A r \in S : g[r] = step[r][f]
    OBVIOUS
  <2> HIDE DEF g
  <2>4. ASSUME NEW s \in S, size[s] < n + 1 PROVE g[s] = step[s][g]
    <3>1. ASSUME NEW r \in S, size[r] < size[s] PROVE f[r] = g[r]
      <4>1. size[r] < n
        BY <2>4, <3>1
      <4> QED
        BY <2>1, <2>3, <4>1 DEF Follows
    <3>2. step[s][f] = step[s][g]
      BY <2>2, <3>1
    <3> QED
      BY <2>3, <3>2
  <2>5. Follows(g, step, size, S, n + 1)
    BY <2>4 DEF Follows
  <2> QED
    BY <2>2, <2>5
<1> HIDE DEF T
<1>3. \A n \in Nat : n \in T
  BY <1>1, <1>2, Induction
<1>4. \A n \in Nat : \E f \in [S -> V] : Follows(f, step, size, S, n)
  BY <1>3 DEF T
<1> DEFINE part == [n \in Nat |->
                      CHOOSE f \in [S -> V] : Follows(f, step, size, S, n)]
<1>5. \A n \in Nat : part[n] \in [S -> V] /\ Follows(part[n], step, size, S, n)
  BY <1>4
<1> HIDE DEF part
<1> DEFINE all == [s \in S |-> part[size[s] + 1][s]]
<1>6. \A s \in S : part[size[s] + 1][s] \in V
  BY <1>5
<1>7. all \in [S -> V]
  BY <1>6
<1>8. \A s \in S : all[s] = part[size[s] + 1][s]
  OBVIOUS
<1> HIDE DEF all
<1>9. ASSUME NEW s \in S PROVE all[s] = step[s][all]
  <2> DEFINE n == size[s] + 1
  <2>1. n \in Nat /\ size[s] \in Nat /\ size[s] < n
    OBVIOUS
  <2>2. part[n] \in [S -> V] /\ Follows(part[n], step, size, S, n)
    BY <1>5
  <2>3. ASSUME NEW r \in S, size[r] < size[s] PROVE part[n][r] = all[r]
    <3> DEFINE k == size[r] + 1
    <3>1. k \in Nat /\ size[r] < k /\ k <= n
      BY <2>3
    <3>2. part[k] \in [S -> V] /\ Follows(part[k], step, size, S, k)
      BY <1>5, <3>1
    <3> HIDE DEF n, k
    <3>3. Follows(part[n], step, size, S, k)
      BY <2>1, <2>2, <3>1 DEF Follows
    <3>4. part[n][r] = part[k][r]
      BY <1>0, <2>2, <3>1, <3>2, <3>3
    <3> QED
      BY <1>8, <3>4 DEF k
  <2> HIDE DEF n
  <2>4. step[s][part[n]] = step[s][all]
    BY <1>7, <2>2, <2>3
  <2>5. part[n][s] = step[s][part[n]]
    BY <2>1, <2>2 DEF Follows
  <2> QED
    BY <1>8, <2>4, <2>5 DEF n
<1> QED
  BY <1>7, <1>9

-----------------------------------------------------------------------------
(* Numerals. *)

(* v is the value of each prefix of str, as from_chars accumulates it. *)
Accumulates(v, str) ==
  v = [n \in 0..Len(str) |->
         IF n = 0 THEN 0 ELSE 10 * v[n - 1] + (str[n] - 48)]

LEMMA AccumulatorExists ==
  ASSUME NEW str \in Seq(Byte) PROVE \E v : Accumulates(v, str)
<1> DEFINE Good(v, m) == v = [n \in 0..m |->
                                IF n = 0 THEN 0
                                ELSE 10 * v[n - 1] + (str[n] - 48)]
           T == {m \in Nat : \E v : Good(v, m)}
<1>1. 0 \in T
  <2>1. Good([n \in 0..0 |-> 0], 0)
    BY 0..0 = {0}
  <2> QED
    BY <2>1
<1>2. ASSUME NEW m \in Nat, m \in T PROVE m + 1 \in T
  <2>1. PICK v : Good(v, m)
    BY <1>2
  <2> DEFINE w == [n \in 0..(m + 1) |->
                     IF n <= m THEN v[n] ELSE 10 * v[m] + (str[m + 1] - 48)]
  <2>2. ASSUME NEW n \in 0..(m + 1)
        PROVE  w[n] = IF n = 0 THEN 0 ELSE 10 * w[n - 1] + (str[n] - 48)
    <3>1. CASE n <= m
      <4>1. n \in 0..m /\ w[n] = v[n] /\ (n # 0 => w[n - 1] = v[n - 1])
        BY <3>1
      <4>2. v[n] = IF n = 0 THEN 0 ELSE 10 * v[n - 1] + (str[n] - 48)
        BY <2>1, <4>1
      <4> QED
        BY <4>1, <4>2
    <3>2. CASE n = m + 1
      <4>1. n # 0 /\ n - 1 = m /\ w[m] = v[m]
        BY <3>2
      <4>2. w[n] = 10 * v[m] + (str[n] - 48)
        BY <3>2
      <4> QED
        BY <4>1, <4>2
    <3> QED
      BY <3>1, <3>2
  <2>3. w = [n \in 0..(m + 1) |-> w[n]]
    OBVIOUS
  <2> HIDE DEF w
  <2>4. Good(w, m + 1)
    BY <2>2, <2>3
  <2> QED
    BY <2>4
<1> HIDE DEF T
<1>3. Len(str) \in T
  BY <1>1, <1>2, Induction
<1> QED
  BY <1>3 DEF T, Accumulates

(* How the value of a prefix comes out. *)
LEMMA AccumulatorValues ==
  ASSUME NEW str \in Seq(Byte), NEW v, Accumulates(v, str)
  PROVE  /\ v[0] = 0
         /\ \A n \in 1..Len(str) : v[n] = 10 * v[n - 1] + (str[n] - 48)
<1>1. Len(str) \in Nat
  OBVIOUS
<1>2. \A n \in 0..Len(str) :
        v[n] = IF n = 0 THEN 0 ELSE 10 * v[n - 1] + (str[n] - 48)
  BY DEF Accumulates
<1> QED
  BY <1>1, <1>2

LEMMA NumeralIsAccumulated ==
  ASSUME NEW str \in Seq(Byte)
  PROVE  \E v : Accumulates(v, str) /\ Numeral(str) = v[Len(str)]
<1> DEFINE value == CHOOSE v : Accumulates(v, str)
<1>1. Accumulates(value, str)
  BY AccumulatorExists
<1>2. Numeral(str) = value[Len(str)]
  BY DEF Numeral, Accumulates
<1> QED
  BY <1>1, <1>2

LEMMA NumeralOfDigit ==
  ASSUME NEW d \in Byte PROVE Numeral(<<d>>) = d - 48
<1>1. <<d>> \in Seq(Byte) /\ Len(<<d>>) = 1 /\ <<d>>[1] = d
  OBVIOUS
<1>2. PICK v : Accumulates(v, <<d>>) /\ Numeral(<<d>>) = v[Len(<<d>>)]
  BY <1>1, NumeralIsAccumulated
<1>3. /\ v[0] = 0
      /\ \A n \in 1..Len(<<d>>) : v[n] = 10 * v[n - 1] + (<<d>>[n] - 48)
  BY <1>1, <1>2, AccumulatorValues
<1>4. v[1] = 10 * v[0] + (d - 48)
  BY <1>1, <1>3
<1> QED
  BY <1>1, <1>2, <1>3, <1>4 DEF Byte

LEMMA NumeralOfAppend ==
  ASSUME NEW str \in Seq(Byte), NEW d \in Byte
  PROVE  Numeral(Append(str, d)) = 10 * Numeral(str) + (d - 48)
<1> DEFINE t == Append(str, d)
<1>1. /\ t \in Seq(Byte)
      /\ Len(t) = Len(str) + 1
      /\ \A i \in 1..Len(str) : t[i] = str[i]
      /\ t[Len(str) + 1] = d
      /\ Len(str) \in Nat
  BY AppendProperties
<1> HIDE DEF t
<1>2. PICK v : Accumulates(v, str) /\ Numeral(str) = v[Len(str)]
  BY NumeralIsAccumulated
<1>3. PICK w : Accumulates(w, t) /\ Numeral(t) = w[Len(t)]
  BY <1>1, NumeralIsAccumulated
<1>4. /\ v[0] = 0
      /\ \A n \in 1..Len(str) : v[n] = 10 * v[n - 1] + (str[n] - 48)
  BY <1>2, AccumulatorValues
<1>5. /\ w[0] = 0
      /\ \A n \in 1..(Len(str) + 1) : w[n] = 10 * w[n - 1] + (t[n] - 48)
  BY <1>1, <1>3, AccumulatorValues
<1> DEFINE Bad == {n \in 0..Len(str) : w[n] # v[n]}
<1>6. ASSUME Bad # {} PROVE FALSE
  <2>0. Bad \subseteq Nat
    BY <1>1
  <2>1. PICK m \in Bad : \A k \in Bad : m <= k
    BY <1>6, <2>0, LeastNat
  <2>2. m # 0
    BY <1>4, <1>5, <2>1
  <2>3. m \in 1..Len(str) /\ m - 1 \in 0..Len(str) /\ ~(m <= m - 1)
    BY <1>1, <2>1, <2>2
  <2>4. w[m - 1] = v[m - 1]
    BY <2>1, <2>3
  <2>5. w[m] = 10 * w[m - 1] + (t[m] - 48) /\ t[m] = str[m]
    BY <1>1, <1>5, <2>3
  <2>6. w[m] = v[m]
    BY <1>4, <2>3, <2>4, <2>5
  <2> QED
    BY <2>1, <2>6
<1>7. w[Len(str)] = v[Len(str)]
  BY <1>1, <1>6
<1>8. w[Len(str) + 1] = 10 * w[Len(str) + 1 - 1] + (t[Len(str) + 1] - 48)
  BY <1>1, <1>5
<1>9. Len(str) + 1 - 1 = Len(str)
  BY <1>1
<1> QED
  BY <1>1, <1>2, <1>3, <1>7, <1>8, <1>9 DEF t

-----------------------------------------------------------------------------
(* std::to_string. *)

(* f is Decimal on its domain 0..n. *)
Writes(f, n) ==
  f = [k \in 0..n |-> IF k < 10 THEN <<48 + k>>
                      ELSE Append(f[k \div 10], 48 + (k % 10))]

LEMMA DivSmaller ==
  ASSUME NEW k \in Nat, k >= 10
  PROVE  /\ k \div 10 \in 0..(k - 1)
         /\ k % 10 \in 0..9
         /\ 10 * (k \div 10) + (k % 10) = k
OBVIOUS

LEMMA WriterExists == \A n \in Nat : \E f : Writes(f, n)
<1> DEFINE T == {n \in Nat : \E f : Writes(f, n)}
<1>1. 0 \in T
  <2> DEFINE f == [k \in {0} |-> <<48 + k>>]
  <2>1. 0..0 = {0}
    OBVIOUS
  <2>2. \A k \in {0} : f[k] = IF k < 10 THEN <<48 + k>>
                              ELSE Append(f[k \div 10], 48 + (k % 10))
    OBVIOUS
  <2>3. f = [k \in {0} |-> f[k]]
    OBVIOUS
  <2> HIDE DEF f
  <2>4. Writes(f, 0)
    BY <2>1, <2>2, <2>3 DEF Writes
  <2> QED
    BY <2>4
<1>2. ASSUME NEW n \in Nat, n \in T PROVE n + 1 \in T
  <2>1. PICK f : Writes(f, n)
    BY <1>2
  <2> DEFINE last == IF n + 1 < 10 THEN <<48 + (n + 1)>>
                     ELSE Append(f[(n + 1) \div 10], 48 + ((n + 1) % 10))
             g == [k \in 0..(n + 1) |-> IF k <= n THEN f[k] ELSE last]
  <2>2. \A k \in 0..n : g[k] = f[k]
    OBVIOUS
  <2>3. g[n + 1] = last
    OBVIOUS
  <2>4. g = [k \in 0..(n + 1) |-> g[k]]
    OBVIOUS
  <2> HIDE DEF g
  <2>5. ASSUME NEW k \in 0..(n + 1)
        PROVE  g[k] = IF k < 10 THEN <<48 + k>>
                      ELSE Append(g[k \div 10], 48 + (k % 10))
    <3>1. CASE k <= n
      <4>1. k \in 0..n
        BY <3>1
      <4>2. f[k] = IF k < 10 THEN <<48 + k>>
                   ELSE Append(f[k \div 10], 48 + (k % 10))
        BY <2>1, <4>1 DEF Writes
      <4>3. k >= 10 => k \div 10 \in 0..n
        BY <4>1, DivSmaller
      <4>4. k >= 10 => g[k \div 10] = f[k \div 10]
        BY <2>2, <4>3
      <4> QED
        BY <2>2, <4>1, <4>2, <4>4
    <3>2. CASE k = n + 1
      <4>1. k >= 10 => k \div 10 \in 0..n
        BY <3>2, DivSmaller
      <4>2. k >= 10 => g[k \div 10] = f[k \div 10]
        BY <2>2, <4>1
      <4> QED
        BY <2>3, <3>2, <4>2
    <3> QED
      BY <3>1, <3>2
  <2>6. Writes(g, n + 1)
    BY <2>4, <2>5 DEF Writes
  <2> QED
    BY <2>6
<1> HIDE DEF T
<1>3. \A n \in Nat : n \in T
  BY <1>1, <1>2, Induction
<1> QED
  BY <1>3 DEF T

LEMMA WriterUnfolds ==
  ASSUME NEW n \in Nat, NEW f, Writes(f, n), NEW k \in 0..n
  PROVE  f[k] = IF k < 10 THEN <<48 + k>>
                ELSE Append(f[k \div 10], 48 + (k % 10))
BY DEF Writes

LEMMA WritersAgree ==
  ASSUME NEW m \in Nat, NEW f, Writes(f, m), NEW n \in Nat, NEW g, Writes(g, n)
  PROVE  \A k \in Nat : k <= m /\ k <= n => f[k] = g[k]
<1> DEFINE T == {k \in Nat : k <= m /\ k <= n => f[k] = g[k]}
<1>1. ASSUME NEW k \in Nat, \A j \in 0..(k - 1) : j \in T PROVE k \in T
  <2> SUFFICES ASSUME k <= m, k <= n PROVE f[k] = g[k]
    OBVIOUS
  <2>1. /\ f[k] = IF k < 10 THEN <<48 + k>>
                  ELSE Append(f[k \div 10], 48 + (k % 10))
        /\ g[k] = IF k < 10 THEN <<48 + k>>
                  ELSE Append(g[k \div 10], 48 + (k % 10))
    BY WriterUnfolds
  <2>2. CASE k < 10
    BY <2>1, <2>2
  <2>3. CASE k >= 10
    <3>1. k \div 10 \in 0..(k - 1)
      BY <2>3, DivSmaller
    <3>2. k \div 10 \in T /\ k \div 10 <= m /\ k \div 10 <= n
      BY <1>1, <3>1
    <3>3. f[k \div 10] = g[k \div 10]
      BY <3>2
    <3> QED
      BY <2>1, <2>3, <3>3
  <2> QED
    BY <2>2, <2>3
<1> HIDE DEF T
<1>2. \A k \in Nat : k \in T
  BY <1>1, StrongInduction
<1> QED
  BY <1>2 DEF T

(* The definition of Decimal by recursion is one. *)
LEMMA DecimalUnfolds ==
  \A n \in Nat : Decimal[n] = IF n < 10 THEN <<48 + n>>
                              ELSE Append(Decimal[n \div 10], 48 + (n % 10))
<1> DEFINE Is(d) == d = [n \in Nat |->
                           IF n < 10 THEN <<48 + n>>
                           ELSE Append(d[n \div 10], 48 + (n % 10))]
           W(n) == CHOOSE f : Writes(f, n)
           d == [n \in Nat |-> W(n)[n]]
<1>1. \A n \in Nat : Writes(W(n), n)
  BY WriterExists
<1> HIDE DEF W
<1>2. ASSUME NEW n \in Nat
      PROVE  d[n] = IF n < 10 THEN <<48 + n>>
                    ELSE Append(d[n \div 10], 48 + (n % 10))
  <2>1. W(n)[n] = IF n < 10 THEN <<48 + n>>
                  ELSE Append(W(n)[n \div 10], 48 + (n % 10))
    BY <1>1, WriterUnfolds
  <2>2. CASE n < 10
    BY <2>1, <2>2
  <2>3. CASE n >= 10
    <3>1. n \div 10 \in Nat /\ n \div 10 <= n
      BY <2>3, DivSmaller
    <3>2. W(n)[n \div 10] = W(n \div 10)[n \div 10]
      BY <1>1, <3>1, WritersAgree
    <3> QED
      BY <2>1, <2>3, <3>1, <3>2
  <2> QED
    BY <2>2, <2>3
<1>3. d = [n \in Nat |-> d[n]]
  OBVIOUS
<1> HIDE DEF d
<1>4. Is(d)
  BY <1>2, <1>3
<1>5. Decimal = CHOOSE e : Is(e)
  BY DEF Decimal
<1>6. Is(Decimal)
  BY <1>4, <1>5
<1> QED
  BY <1>6

DigitChar == 48..57

LEMMA DigitsAreBytes == ASSUME NEW s \in Seq(DigitChar) PROVE s \in Seq(Byte)
<1>1. DigitChar \subseteq Byte
  BY DEF DigitChar, Byte
<1> QED
  BY <1>1, SeqMonotonic

(* std::to_string of a number is a string of digits that is read as the    *)
(* number again: from_chars undoes to_string.                              *)
LEMMA DecimalIsNumeral ==
  \A n \in Nat : /\ Decimal[n] \in Seq(DigitChar)
                 /\ Decimal[n] # <<>>
                 /\ Numeral(Decimal[n]) = n
<1> DEFINE P(n) == /\ Decimal[n] \in Seq(DigitChar)
                   /\ Decimal[n] # <<>>
                   /\ Numeral(Decimal[n]) = n
           T == {n \in Nat : P(n)}
<1>1. ASSUME NEW n \in Nat, \A m \in 0..(n - 1) : m \in T PROVE P(n)
  <2>1. CASE n < 10
    <3>1. Decimal[n] = <<48 + n>>
      BY <2>1, DecimalUnfolds
    <3>2. 48 + n \in DigitChar /\ 48 + n \in Byte /\ (48 + n) - 48 = n
      BY <2>1 DEF DigitChar, Byte
    <3>3. Numeral(<<48 + n>>) = n
      BY <3>2, NumeralOfDigit
    <3> QED
      BY <3>1, <3>2, <3>3
  <2>2. CASE n >= 10
    <3> DEFINE q == n \div 10
               r == n % 10
    <3>1. q \in 0..(n - 1) /\ r \in 0..9 /\ 10 * q + r = n
      BY <2>2, DivSmaller
    <3>2. Decimal[n] = Append(Decimal[q], 48 + r)
      <4>1. ~(n < 10)
        BY <2>2
      <4>2. Decimal[n] = IF n < 10 THEN <<48 + n>>
                         ELSE Append(Decimal[q], 48 + r)
        BY DecimalUnfolds, Zenon
      <4> QED
        BY <4>1, <4>2, Zenon
    <3> HIDE DEF q, r
    <3>3. Decimal[q] \in Seq(DigitChar) /\ Numeral(Decimal[q]) = q
      BY <1>1, <3>1
    <3>4. Decimal[q] \in Seq(Byte)
      BY <3>3, DigitsAreBytes
    <3>5. 48 + r \in DigitChar /\ 48 + r \in Byte
      BY <3>1 DEF DigitChar, Byte
    <3>6. Numeral(Append(Decimal[q], 48 + r)) = 10 * q + ((48 + r) - 48)
      BY <3>3, <3>4, <3>5, NumeralOfAppend
    <3>7. 10 * q + ((48 + r) - 48) = n
      BY <3>1
    <3>8. /\ Append(Decimal[q], 48 + r) \in Seq(DigitChar)
          /\ Append(Decimal[q], 48 + r) # <<>>
      BY <3>3, <3>5, AppendProperties
    <3> QED
      BY <3>2, <3>6, <3>7, <3>8
  <2> QED
    BY <2>1, <2>2
<1>2. ASSUME NEW n \in Nat, \A m \in 0..(n - 1) : m \in T PROVE n \in T
  BY <1>1, <1>2
<1> HIDE DEF T, P
<1>3. \A n \in Nat : n \in T
  BY <1>2, StrongInduction
<1> QED
  BY <1>3 DEF T, P

-----------------------------------------------------------------------------
(* Strings. *)

(* rtrim finds the last character that it keeps. *)
LEMMA RtrimType ==
  ASSUME NEW s \in Seq(Byte)
  PROVE  rtrim(s) \in Seq(Byte)
<1> DEFINE Keeps(n) == /\ n > 0 => ~is_strict_whitespace(s[n])
                       /\ \A i \in (n + 1)..Len(s) :
                            is_strict_whitespace(s[i])
           T == {m \in 0..Len(s) :
                   Len(s) - m > 0 => ~is_strict_whitespace(s[Len(s) - m])}
<1>1. Len(s) \in Nat
  OBVIOUS
<1>2. T \subseteq Nat /\ Len(s) \in T
  BY <1>1
<1>3. PICK m \in T : \A k \in T : ~(<<k, m>> \in OpToRel(<, Nat))
  BY <1>2, NatLessThanWellFounded, WFMin
<1>4. \A k \in T : ~(k < m)
  BY <1>2, <1>3 DEF OpToRel
<1>5. Keeps(Len(s) - m)
  <2>1. ASSUME NEW i \in (Len(s) - m + 1)..Len(s)
        PROVE  is_strict_whitespace(s[i])
    <3>1. Len(s) - i \in 0..Len(s) /\ Len(s) - i < m
      BY <1>1, <2>1
    <3>2. Len(s) - i \notin T
      BY <1>4, <3>1
    <3>3. Len(s) - (Len(s) - i) = i
      BY <1>1
    <3> QED BY <3>1, <3>2, <3>3
  <2> QED BY <2>1
<1>6. PICK n \in 0..Len(s) : n = CHOOSE k \in 0..Len(s) : Keeps(k)
  <2>1. Len(s) - m \in 0..Len(s)
    BY <1>1
  <2> HIDE DEF Keeps
  <2> QED BY <1>5, <2>1
<1>7. rtrim(s) = SubSeq(s, 1, n)
  BY <1>6 DEF rtrim
<1> QED BY <1>1, <1>7

LEMMA SameNameSymmetric ==
  ASSUME NEW a \in Seq(Byte), NEW b \in Seq(Byte), SameName(a, b)
  PROVE  SameName(b, a)
BY DEF SameName

LEMMA SameNameReflexive ==
  ASSUME NEW a \in Seq(Byte)
  PROVE  SameName(a, a)
BY DEF SameName

(* A list of two values is a value. *)
LEMMA ListIsFieldValue ==
  ASSUME NEW a \in Seq(Byte), NEW b \in Seq(Byte), b # <<>>,
         IsFieldValue(a), IsFieldValue(b)
  PROVE  /\ a \o <<Comma, SP>> \o b \in Seq(Byte)
         /\ IsFieldValue(a \o <<Comma, SP>> \o b)
<1> DEFINE sep == <<Comma, SP>>
           s == a \o sep \o b
<1>1. sep \in Seq(Byte) /\ Len(sep) = 2 /\ sep[1] = 44 /\ sep[2] = 32
  BY DEF Comma, SP, Byte
<1>2. s \in Seq(Byte) /\ Len(s) = Len(a) + 2 + Len(b)
  BY <1>1
<1>3. Len(a) \in Nat /\ Len(b) \in Nat /\ Len(b) > 0
  OBVIOUS
<1>4. ASSUME NEW i \in 1..Len(s)
      PROVE  s[i] = IF i <= Len(a) THEN a[i]
                    ELSE IF i <= Len(a) + 2 THEN sep[i - Len(a)]
                    ELSE b[i - Len(a) - 2]
  BY <1>1, <1>2, <1>3, <1>4
<1> HIDE DEF s
<1>5. s # <<>> /\ 1 \in 1..Len(s) /\ Len(s) \in 1..Len(s)
  BY <1>2, <1>3
<1>6. ~is_not_printable(s[1])
  <2>1. CASE Len(a) = 0
    <3>1. s[1] = 44
      BY <1>1, <1>4, <1>5, <2>1
    <3> QED BY <3>1 DEF is_not_printable, SP
  <2>2. CASE Len(a) > 0
    <3>1. s[1] = a[1] /\ a # <<>>
      BY <1>4, <1>5, <2>2
    <3> QED BY <3>1 DEF IsFieldValue
  <2> QED BY <1>3, <2>1, <2>2
<1>7. ~is_not_printable(s[Len(s)])
  <2>1. Len(s) > Len(a) + 2 /\ Len(s) - Len(a) - 2 = Len(b)
    BY <1>2, <1>3
  <2>2. s[Len(s)] = b[Len(b)]
    BY <1>3, <1>4, <1>5, <2>1
  <2> QED BY <2>2 DEF IsFieldValue
<1>8. ASSUME NEW i \in 1..Len(s), is_not_printable(s[i])
      PROVE  is_strict_whitespace(s[i])
  <2>1. CASE i <= Len(a)
    <3>1. s[i] = a[i] /\ a # <<>> /\ i \in DOMAIN a
      BY <1>3, <1>4, <2>1
    <3> QED BY <1>8, <3>1 DEF IsFieldValue
  <2>2. CASE i > Len(a) /\ i <= Len(a) + 2
    <3>1. s[i] = 44 \/ s[i] = 32
      BY <1>1, <1>3, <1>4, <2>2
    <3>2. ~is_not_printable(44) /\ is_strict_whitespace(32)
      BY DEF is_not_printable, is_strict_whitespace, SP
    <3> QED BY <1>8, <3>1, <3>2
  <2>3. CASE i > Len(a) + 2
    <3>1. s[i] = b[i - Len(a) - 2] /\ i - Len(a) - 2 \in DOMAIN b
      BY <1>2, <1>3, <1>4, <2>3
    <3> QED BY <1>8, <3>1 DEF IsFieldValue
  <2> QED BY <1>2, <1>3, <2>1, <2>2, <2>3
<1>9. DOMAIN s = 1..Len(s)
  BY <1>2
<1> QED BY <1>2, <1>6, <1>7, <1>8, <1>9 DEF IsFieldValue, s

(* What a field_map holds. *)
FieldsType(fields) ==
  /\ DOMAIN fields \subseteq Seq(Byte)
  /\ \A name \in DOMAIN fields : fields[name] \in Seq(Byte)

ValidFields(fields) ==
  /\ \A name \in DOMAIN fields :
       IsFieldName(name) /\ IsFieldValue(fields[name])
  /\ \A a, b \in DOMAIN fields : SameName(a, b) => a = b

(* append keeps the map valid, however often a name is repeated. *)
LEMMA AppendKeepsValid ==
  ASSUME NEW fields, NEW name \in Seq(Byte), NEW value \in Seq(Byte),
         FieldsType(fields), ValidFields(fields),
         IsFieldName(name), IsFieldValue(value)
  PROVE  /\ FieldsType(append(fields, name, value))
         /\ ValidFields(append(fields, name, value))
<1> DEFINE new == append(fields, name, value)
<1>1. CASE find(fields, name) = {}
  <2>1. new = [k \in DOMAIN fields \cup {name} |->
                 IF k = name THEN value ELSE fields[k]]
    BY <1>1 DEF append
  <2>2. \A k \in DOMAIN fields : ~SameName(k, name) /\ ~SameName(name, k)
    BY <1>1, SameNameSymmetric DEF find, FieldsType
  <2>3. FieldsType(new)
    BY <2>1 DEF FieldsType
  <2>4. \A k \in DOMAIN new : IsFieldName(k) /\ IsFieldValue(new[k])
    BY <2>1 DEF ValidFields
  <2>5. \A a, b \in DOMAIN new : SameName(a, b) => a = b
    BY <2>1, <2>2 DEF ValidFields
  <2> QED BY <2>3, <2>4, <2>5 DEF ValidFields
<1>2. CASE find(fields, name) # {}
  <2>1. new = [k \in DOMAIN fields |->
                 IF SameName(k, name) /\ value # <<>>
                 THEN fields[k] \o <<Comma, SP>> \o value
                 ELSE fields[k]]
    BY <1>2 DEF append
  <2>2. ASSUME NEW k \in DOMAIN fields
        PROVE  new[k] \in Seq(Byte) /\ IsFieldValue(new[k])
    <3>1. fields[k] \in Seq(Byte) /\ IsFieldValue(fields[k])
      BY DEF FieldsType, ValidFields
    <3>2. CASE SameName(k, name) /\ value # <<>>
      <4>1. new[k] = fields[k] \o <<Comma, SP>> \o value
        BY <2>1, <3>2
      <4> QED BY <3>1, <3>2, <4>1, ListIsFieldValue
    <3>3. CASE ~(SameName(k, name) /\ value # <<>>)
      BY <2>1, <3>1, <3>3
    <3> QED BY <3>2, <3>3
  <2>3. DOMAIN new = DOMAIN fields
    BY <2>1
  <2> QED BY <2>2, <2>3 DEF FieldsType, ValidFields
<1> QED BY <1>1, <1>2

LEMMA ToNumberType ==
  ASSUME NEW s, NEW max
  PROVE  to_number(s, max) = None \/ to_number(s, max) \in 0..max
BY DEF to_number

LEMMA NoFieldsFinds == \A name : find(NoFields, name) = {}
BY DEF find, NoFields

(* Another field leaves the length alone. *)
LEMMA AppendOther ==
  ASSUME NEW m, NEW name \in Seq(Byte), NEW value,
         ~SameName(name, ContentLength)
  PROVE  /\ find(append(m, name, value), ContentLength)
              = find(m, ContentLength)
         /\ ContentLength \in DOMAIN m
              => append(m, name, value)[ContentLength] = m[ContentLength]
<1>1. ContentLength \in Seq(Byte) /\ SameName(ContentLength, ContentLength)
  BY NameAssumption DEF SameName
<1>2. name # ContentLength /\ ~SameName(ContentLength, name)
  BY <1>1, SameNameSymmetric
<1>3. CASE find(m, name) = {}
  <2>1. append(m, name, value) = [key \in DOMAIN m \cup {name} |->
                                    IF key = name THEN value ELSE m[key]]
    BY <1>3 DEF append
  <2> QED
    BY <1>2, <2>1 DEF find
<1>4. CASE find(m, name) # {}
  <2>1. append(m, name, value) = [key \in DOMAIN m |->
                                    IF SameName(key, name) /\ value # <<>>
                                    THEN m[key] \o <<Comma, SP>> \o value
                                    ELSE m[key]]
    BY <1>4 DEF append
  <2> QED
    BY <1>2, <2>1 DEF find
<1> QED
  BY <1>3, <1>4

(* The first Content-Length. *)
LEMMA AppendLength ==
  ASSUME NEW m, NEW value, find(m, ContentLength) = {}
  PROVE  /\ find(append(m, ContentLength, value), ContentLength)
              = {ContentLength}
         /\ append(m, ContentLength, value)[ContentLength] = value
<1>1. SameName(ContentLength, ContentLength)
  BY NameAssumption DEF SameName
<1>2. append(m, ContentLength, value)
        = [key \in DOMAIN m \cup {ContentLength} |->
             IF key = ContentLength THEN value ELSE m[key]]
  BY DEF append
<1> QED
  BY <1>1, <1>2 DEF find


-----------------------------------------------------------------------------
(* The order of the names. *)

LEMMA ToupperType == ASSUME NEW ch \in Byte PROVE toupper(ch) \in Int
BY DEF toupper, Byte

LEMMA NameLessIrreflexive ==
  ASSUME NEW a \in Seq(Byte) PROVE ~NameLess(a, a)
<1>1. \A i \in DOMAIN a : i \in 1..Len(a) /\ toupper(a[i]) \in Int
  BY ToupperType
<1> QED
  BY <1>1 DEF NameLess

LEMMA NameLessTransitive ==
  ASSUME NEW a \in Seq(Byte), NEW b \in Seq(Byte), NEW c \in Seq(Byte),
         NameLess(a, b), NameLess(b, c)
  PROVE  NameLess(a, c)
<1>0. /\ Len(a) \in Nat /\ DOMAIN a = 1..Len(a)
      /\ Len(b) \in Nat /\ DOMAIN b = 1..Len(b)
      /\ Len(c) \in Nat /\ DOMAIN c = 1..Len(c)
      /\ \A i \in 1..Len(a) : toupper(a[i]) \in Int
      /\ \A i \in 1..Len(b) : toupper(b[i]) \in Int
      /\ \A i \in 1..Len(c) : toupper(c[i]) \in Int
  BY ToupperType
<1>1. PICK i \in 1..Len(b) :
        /\ \A l \in 1..(i - 1) : l <= Len(a) /\ toupper(a[l]) = toupper(b[l])
        /\ i <= Len(a) => toupper(a[i]) < toupper(b[i])
  BY <1>0 DEF NameLess
<1>2. PICK j \in 1..Len(c) :
        /\ \A l \in 1..(j - 1) : l <= Len(b) /\ toupper(b[l]) = toupper(c[l])
        /\ j <= Len(b) => toupper(b[j]) < toupper(c[j])
  BY <1>0 DEF NameLess
<1>3. ASSUME NEW k \in 1..Len(c),
             \A l \in 1..(k - 1) :
               l <= Len(a) /\ toupper(a[l]) = toupper(c[l]),
             k <= Len(a) => toupper(a[k]) < toupper(c[k])
      PROVE  NameLess(a, c)
  BY <1>0, <1>3 DEF NameLess
<1>4. CASE i < j
  <2>1. i \in 1..(j - 1) /\ i \in 1..Len(c)
    BY <1>0, <1>4
  <2>2. toupper(b[i]) = toupper(c[i])
    BY <1>2, <2>1
  <2>3. ASSUME NEW l \in 1..(i - 1)
        PROVE  l <= Len(a) /\ toupper(a[l]) = toupper(c[l])
    <3>1. l \in 1..(j - 1)
      BY <1>0, <1>4
    <3> QED
      BY <1>1, <1>2, <3>1
  <2> QED
    BY <1>1, <1>3, <2>1, <2>2, <2>3
<1>5. CASE j < i
  <2>1. j \in 1..(i - 1) /\ j <= Len(b)
    BY <1>0, <1>5
  <2>2. toupper(a[j]) = toupper(b[j]) /\ toupper(b[j]) < toupper(c[j])
    BY <1>1, <1>2, <2>1
  <2>3. ASSUME NEW l \in 1..(j - 1)
        PROVE  l <= Len(a) /\ toupper(a[l]) = toupper(c[l])
    <3>1. l \in 1..(i - 1)
      BY <1>0, <1>5
    <3> QED
      BY <1>1, <1>2, <3>1
  <2> QED
    BY <1>3, <2>2, <2>3
<1>6. CASE i = j
  <2>1. i <= Len(b) /\ i \in 1..Len(b) /\ i \in 1..Len(c)
    BY <1>0, <1>6
  <2>2. toupper(b[i]) < toupper(c[i])
    BY <1>2, <1>6, <2>1
  <2>3. ASSUME i <= Len(a) PROVE toupper(a[i]) < toupper(c[i])
    <3>1. i \in 1..Len(a) /\ toupper(a[i]) < toupper(b[i])
      BY <1>0, <1>1, <2>3
    <3>2. toupper(a[i]) \in Int /\ toupper(b[i]) \in Int /\ toupper(c[i]) \in Int
      BY <1>0, <2>1, <3>1
    <3> QED
      BY <2>2, <3>1, <3>2
  <2>4. ASSUME NEW l \in 1..(i - 1)
        PROVE  l <= Len(a) /\ toupper(a[l]) = toupper(c[l])
    BY <1>1, <1>2, <1>6
  <2> QED
    BY <1>3, <2>1, <2>3, <2>4
<1> QED
  BY <1>0, <1>4, <1>5, <1>6

LEMMA NameLessTotal ==
  ASSUME NEW a \in Seq(Byte), NEW b \in Seq(Byte), ~SameName(a, b)
  PROVE  NameLess(a, b) \/ NameLess(b, a)
<1>0. /\ Len(a) \in Nat /\ DOMAIN a = 1..Len(a)
      /\ Len(b) \in Nat /\ DOMAIN b = 1..Len(b)
      /\ \A i \in 1..Len(a) : toupper(a[i]) \in Int
      /\ \A i \in 1..Len(b) : toupper(b[i]) \in Int
  BY ToupperType
<1> DEFINE T == {i \in Nat \ {0} : \/ i > Len(a)
                                   \/ i > Len(b)
                                   \/ toupper(a[i]) # toupper(b[i])}
<1>1. Len(a) + 1 \in T /\ T \subseteq Nat
  BY <1>0
<1>2. PICK m \in T : \A k \in T : m <= k
  BY <1>1, LeastNat
<1>3. m \in Nat /\ m > 0
  BY <1>2
<1>4. ASSUME NEW l \in 1..(m - 1)
      PROVE  /\ l <= Len(a) /\ l <= Len(b)
             /\ toupper(a[l]) = toupper(b[l])
             /\ toupper(b[l]) = toupper(a[l])
  <2>1. l \in Nat \ {0} /\ ~(m <= l)
    BY <1>3
  <2>2. l \notin T
    BY <1>2, <2>1
  <2> QED
    BY <1>0, <2>1, <2>2
<1>5. CASE m > Len(a) /\ m > Len(b)
  <2>1. m - 1 <= Len(a) /\ m - 1 <= Len(b)
    <3>1. CASE m = 1
      BY <1>0, <3>1
    <3>2. CASE m # 1
      <4>1. m - 1 \in 1..(m - 1)
        BY <1>3, <3>2
      <4> QED
        BY <1>4, <4>1
    <3> QED
      BY <3>1, <3>2
  <2>2. Len(a) = m - 1 /\ Len(b) = m - 1
    BY <1>0, <1>3, <1>5, <2>1
  <2>3. SameName(a, b)
    BY <1>0, <1>4, <2>2 DEF SameName
  <2> QED
    BY <2>3
<1>6. CASE m > Len(a) /\ m <= Len(b)
  <2>1. m \in DOMAIN b /\ ~(m <= Len(a))
    BY <1>0, <1>3, <1>6
  <2> QED
    BY <1>4, <2>1 DEF NameLess
<1>7. CASE m <= Len(a) /\ m > Len(b)
  <2>1. m \in DOMAIN a /\ ~(m <= Len(b))
    BY <1>0, <1>3, <1>7
  <2> QED
    BY <1>4, <2>1 DEF NameLess
<1>8. CASE m <= Len(a) /\ m <= Len(b)
  <2>1. m \in DOMAIN a /\ m \in DOMAIN b
    BY <1>0, <1>3, <1>8
  <2>2. toupper(a[m]) # toupper(b[m])
    BY <1>0, <1>2, <1>8, <2>1
  <2>3. toupper(a[m]) < toupper(b[m]) \/ toupper(b[m]) < toupper(a[m])
    BY <1>0, <2>1, <2>2
  <2> QED
    BY <1>4, <2>1, <2>3 DEF NameLess
<1> QED
  BY <1>0, <1>3, <1>5, <1>6, <1>7, <1>8

(* What append keeps of a field_map. *)
IsFieldMap(m) ==
  /\ IsFiniteSet(DOMAIN m)
  /\ m \in [DOMAIN m -> Seq(Byte)]
  /\ DOMAIN m \subseteq Seq(Byte)
  /\ \A a, b \in DOMAIN m : SameName(a, b) => a = b

LEMMA NoFieldsIsMap == IsFieldMap(NoFields)
BY FS_EmptySet DEF IsFieldMap, NoFields

LEMMA AppendIsMap ==
  ASSUME NEW m, IsFieldMap(m), NEW name \in Seq(Byte), NEW value \in Seq(Byte)
  PROVE  IsFieldMap(append(m, name, value))
<1>1. CASE find(m, name) = {}
  <2>1. append(m, name, value) = [key \in DOMAIN m \cup {name} |->
                                    IF key = name THEN value ELSE m[key]]
    BY <1>1 DEF append
  <2>2. IsFiniteSet(DOMAIN m \cup {name})
    BY FS_AddElement DEF IsFieldMap
  <2>3. \A a \in DOMAIN m : ~SameName(a, name) /\ ~SameName(name, a)
    BY <1>1, SameNameSymmetric DEF find, IsFieldMap
  <2> QED
    BY <2>1, <2>2, <2>3 DEF IsFieldMap
<1>2. CASE find(m, name) # {}
  <2>1. append(m, name, value) = [key \in DOMAIN m |->
                                    IF SameName(key, name) /\ value # <<>>
                                    THEN m[key] \o <<Comma, SP>> \o value
                                    ELSE m[key]]
    BY <1>2 DEF append
  <2>2. ASSUME NEW key \in DOMAIN m
        PROVE  m[key] \o <<Comma, SP>> \o value \in Seq(Byte)
    <3>1. m[key] \in Seq(Byte) /\ <<Comma, SP>> \in Seq(Byte)
      BY DEF IsFieldMap, Comma, SP, Byte
    <3>2. m[key] \o <<Comma, SP>> \in Seq(Byte)
      BY <3>1, ConcatProperties
    <3> QED
      BY <3>2, ConcatProperties
  <2> QED
    BY <2>1, <2>2 DEF IsFieldMap
<1> QED
  BY <1>1, <1>2

(* The loop over a field_map visits every field once, in the order of the  *)
(* names, whatever their case.  There is such an order, since no two names *)
(* of a map differ in case only: each has its place by the number of names *)
(* before it.                                                              *)
THEOREM FieldsAreWrittenInOrder ==
  ASSUME NEW m, IsFieldMap(m)
  PROVE  /\ Cardinality(DOMAIN m) \in Nat
         /\ Names(m) \in [1..Cardinality(DOMAIN m) -> DOMAIN m]
         /\ \A name \in DOMAIN m :
              \E i \in 1..Cardinality(DOMAIN m) : Names(m)[i] = name
         /\ \A i, j \in 1..Cardinality(DOMAIN m) :
              i < j => NameLess(Names(m)[i], Names(m)[j])
<1> DEFINE D == DOMAIN m
           N == Cardinality(D)
           Before(name) == {other \in D : NameLess(other, name)}
           rank == [name \in D |-> Cardinality(Before(name))]
<1>1. N \in Nat /\ IsFiniteSet(D) /\ D \subseteq Seq(Byte)
  BY FS_CardinalityType DEF IsFieldMap
<1>2. ASSUME NEW x \in D
      PROVE  /\ IsFiniteSet(Before(x))
             /\ Cardinality(Before(x)) \in 0..(N - 1)
  <2>1. Before(x) \in SUBSET D /\ x \notin Before(x)
    BY <1>1, NameLessIrreflexive
  <2> HIDE DEF Before, N
  <2>2. /\ IsFiniteSet(Before(x))
        /\ Cardinality(Before(x)) <= N
        /\ N = Cardinality(Before(x)) => D = Before(x)
    BY <1>1, <2>1, FS_Subset DEF N
  <2>3. Cardinality(Before(x)) \in Nat
    BY <2>2, FS_CardinalityType
  <2> QED
    BY <1>1, <2>1, <2>2, <2>3
<1>3. ASSUME NEW x \in D, NEW y \in D, NameLess(x, y)
      PROVE  Cardinality(Before(x)) # Cardinality(Before(y))
  <2>1. Before(x) \in SUBSET Before(y)
    BY <1>1, <1>3, NameLessTransitive
  <2>2. x \in Before(y) /\ x \notin Before(x)
    BY <1>1, <1>3, NameLessIrreflexive
  <2> HIDE DEF Before
  <2>3. Cardinality(Before(y)) = Cardinality(Before(x)) => Before(y) = Before(x)
    BY <1>2, <2>1, FS_Subset
  <2> QED
    BY <2>2, <2>3
<1>4. rank \in [D -> 0..(N - 1)]
  BY <1>2
<1>5. ASSUME NEW x \in D, NEW y \in D, rank[x] = rank[y] PROVE x = y
  <2> SUFFICES ASSUME x # y PROVE FALSE
    OBVIOUS
  <2>1. ~SameName(x, y)
    BY DEF IsFieldMap
  <2>2. NameLess(x, y) \/ NameLess(y, x)
    BY <1>1, <2>1, NameLessTotal
  <2>3. Cardinality(Before(x)) = Cardinality(Before(y))
    BY <1>5
  <2> QED
    BY <1>3, <2>2, <2>3
<1> HIDE DEF rank, N
<1>6. rank \in Injection(D, 0..(N - 1))
  BY <1>4, <1>5 DEF Injection, IsInjective
<1>7. IsFiniteSet(0..(N - 1)) /\ Cardinality(0..(N - 1)) = N
  <2>1. 0 \in Int /\ N - 1 \in Int
    BY <1>1
  <2> QED
    BY <1>1, <2>1, FS_Interval
<1>8. rank \in Surjection(D, 0..(N - 1))
  BY <1>6, <1>7, FS_Injection DEF N
<1>9. ASSUME NEW i \in 1..N PROVE \E name \in D : Cardinality(Before(name)) = i - 1
  <2>1. i - 1 \in 0..(N - 1)
    BY <1>1
  <2>2. PICK name \in D : rank[name] = i - 1
    BY <1>8, <2>1 DEF Surjection
  <2> QED
    BY <2>2 DEF rank
<1> DEFINE w == [i \in 1..N |-> CHOOSE name \in D :
                                  Cardinality(Before(name)) = i - 1]
           InOrder(order) ==
             \A i, j \in 1..N :
               i < j => order[i] # order[j] /\ ~NameLess(order[j], order[i])
<1> HIDE DEF Before
<1>10. ASSUME NEW i \in 1..N
       PROVE  w[i] \in D /\ Cardinality(Before(w[i])) = i - 1
  BY <1>9
<1>11. w \in [1..N -> D]
  BY <1>10
<1> HIDE DEF w
<1>12. ASSUME NEW i \in 1..N, NEW j \in 1..N, i < j
       PROVE  w[i] # w[j] /\ ~NameLess(w[j], w[i])
  <2>1. /\ w[i] \in D /\ Cardinality(Before(w[i])) = i - 1
        /\ w[j] \in D /\ Cardinality(Before(w[j])) = j - 1
    BY <1>10, Zenon
  <2>2. w[i] # w[j]
    BY <1>12, <2>1
  <2>3. ASSUME NameLess(w[j], w[i]) PROVE FALSE
    <3>1. Before(w[j]) \in SUBSET Before(w[i])
      BY <1>1, <2>1, <2>3, NameLessTransitive DEF Before
    <3>2. Cardinality(Before(w[j])) <= Cardinality(Before(w[i]))
      BY <1>2, <2>1, <3>1, FS_Subset
    <3> QED
      BY <1>12, <2>1, <3>2
  <2> QED
    BY <2>2, <2>3
<1>13. InOrder(w)
  BY <1>12
<1>14. Names(m) = CHOOSE order \in [1..N -> D] : InOrder(order)
  BY DEF Names, N
<1>15. Names(m) \in [1..N -> D] /\ InOrder(Names(m))
  <2> HIDE DEF InOrder
  <2> QED
    BY <1>11, <1>13, <1>14
<1>16. ASSUME NEW i \in 1..N, NEW j \in 1..N, i < j
       PROVE  NameLess(Names(m)[i], Names(m)[j])
  <2>1. /\ Names(m)[i] \in D /\ Names(m)[j] \in D
        /\ Names(m)[i] # Names(m)[j]
        /\ ~NameLess(Names(m)[j], Names(m)[i])
    BY <1>15, <1>16
  <2>2. ~SameName(Names(m)[i], Names(m)[j])
    BY <2>1 DEF IsFieldMap
  <2> QED
    BY <1>1, <2>1, <2>2, NameLessTotal
<1>17. \A i, j \in 1..N : Names(m)[i] = Names(m)[j] => i = j
  BY <1>1, <1>15
<1>18. Names(m) \in Injection(1..N, D)
  BY <1>15, <1>17 DEF Injection, IsInjective
<1>19. IsFiniteSet(1..N) /\ Cardinality(1..N) = N
  BY <1>1, FS_Interval
<1>20. Names(m) \in Surjection(1..N, D)
  BY <1>1, <1>18, <1>19, FS_Injection DEF N
<1> QED
  BY <1>1, <1>15, <1>16, <1>20 DEF N, Surjection

-----------------------------------------------------------------------------
(* Texts. *)

(* f is the text of the first n of the pieces, for n up to len. *)
Joins(f, pieces, len) ==
  f = [i \in 1..len |-> IF i = 1 THEN pieces[i] ELSE f[i - 1] \o pieces[i]]

LEMMA JoinExists ==
  ASSUME NEW pieces PROVE \A len \in Nat : \E f : Joins(f, pieces, len)
<1> DEFINE T == {len \in Nat : \E f : Joins(f, pieces, len)}
<1>1. 0 \in T
  <2> DEFINE f == [i \in 1..0 |-> <<>>]
  <2>1. 1..0 = {}
    OBVIOUS
  <2>2. Joins(f, pieces, 0)
    BY <2>1 DEF Joins
  <2> QED
    BY <2>2
<1>2. ASSUME NEW len \in Nat, len \in T PROVE len + 1 \in T
  <2>1. PICK f : Joins(f, pieces, len)
    BY <1>2
  <2> DEFINE last == IF len = 0 THEN pieces[1] ELSE f[len] \o pieces[len + 1]
             g == [i \in 1..(len + 1) |-> IF i <= len THEN f[i] ELSE last]
  <2>2. \A i \in 1..len : g[i] = f[i]
    OBVIOUS
  <2>3. g[len + 1] = last
    <3> HIDE DEF last
    <3> QED
      OBVIOUS
  <2>4. g = [i \in 1..(len + 1) |-> g[i]]
    OBVIOUS
  <2> HIDE DEF g
  <2>5. ASSUME NEW i \in 1..(len + 1)
        PROVE  g[i] = IF i = 1 THEN pieces[i] ELSE g[i - 1] \o pieces[i]
    <3>1. CASE i <= len
      <4>1. i \in 1..len /\ (i # 1 => i - 1 \in 1..len)
        BY <3>1
      <4>2. f[i] = IF i = 1 THEN pieces[i] ELSE f[i - 1] \o pieces[i]
        BY <2>1, <4>1 DEF Joins
      <4> QED
        BY <2>2, <4>1, <4>2
    <3>2. CASE i = len + 1
      <4>1. CASE len = 0
        BY <2>3, <3>2, <4>1
      <4>2. CASE len # 0
        <5>1. i # 1 /\ i - 1 = len /\ g[len] = f[len]
          BY <2>2, <3>2, <4>2
        <5> QED
          BY <2>3, <3>2, <4>2, <5>1
      <4> QED
        BY <4>1, <4>2
    <3> QED
      BY <3>1, <3>2
  <2>6. Joins(g, pieces, len + 1)
    BY <2>4, <2>5 DEF Joins
  <2> QED
    BY <2>6
<1> HIDE DEF T
<1>3. \A len \in Nat : len \in T
  BY <1>1, <1>2, Induction
<1> QED
  BY <1>3 DEF T

LEMMA JoinType ==
  ASSUME NEW S, NEW pieces \in Seq(Seq(S)), NEW f,
         Joins(f, pieces, Len(pieces))
  PROVE  \A i \in 1..Len(pieces) : f[i] \in Seq(S)
<1> DEFINE T == {n \in Nat : n + 1 <= Len(pieces) => f[n + 1] \in Seq(S)}
<1>0. /\ Len(pieces) \in Nat
      /\ \A i \in 1..Len(pieces) : pieces[i] \in Seq(S)
      /\ \A i \in 1..Len(pieces) :
           f[i] = IF i = 1 THEN pieces[i] ELSE f[i - 1] \o pieces[i]
  <2>1. Len(pieces) \in Nat
    OBVIOUS
  <2>2. \A i \in 1..Len(pieces) : pieces[i] \in Seq(S)
    BY ElementOfSeq
  <2>3. ASSUME NEW i \in 1..Len(pieces)
        PROVE  f[i] = IF i = 1 THEN pieces[i] ELSE f[i - 1] \o pieces[i]
    BY DEF Joins
  <2> QED
    BY <2>1, <2>2, <2>3
<1>1. 0 \in T
  BY <1>0
<1>2. ASSUME NEW n \in Nat, n \in T PROVE n + 1 \in T
  <2> SUFFICES ASSUME n + 2 <= Len(pieces) PROVE f[n + 2] \in Seq(S)
    BY (n + 1) + 1 = n + 2
  <2>1. n + 2 \in 1..Len(pieces) /\ n + 2 # 1 /\ (n + 2) - 1 = n + 1
    BY <1>0
  <2>2. f[n + 1] \in Seq(S) /\ pieces[n + 2] \in Seq(S)
    BY <1>0, <1>2, <2>1
  <2>3. f[n + 2] = f[n + 1] \o pieces[n + 2]
    BY <1>0, <2>1
  <2> QED
    BY <2>2, <2>3, ConcatProperties
<1> HIDE DEF T
<1>3. \A n \in Nat : n \in T
  BY <1>1, <1>2, Induction
<1>4. ASSUME NEW i \in 1..Len(pieces) PROVE f[i] \in Seq(S)
  <2>1. i - 1 \in Nat /\ (i - 1) + 1 = i /\ i <= Len(pieces)
    BY <1>0
  <2>2. i - 1 \in T
    BY <1>3, <2>1
  <2> QED
    BY <2>1, <2>2 DEF T
<1> QED
  BY <1>4

LEMMA FlattenType ==
  ASSUME NEW S, NEW pieces \in Seq(Seq(S))
  PROVE  FlattenSeq(pieces) \in Seq(S)
<1>0. Len(pieces) \in Nat
  OBVIOUS
<1>1. CASE Len(pieces) = 0
  <2>1. FlattenSeq(pieces) = pieces
    BY <1>1 DEF FlattenSeq
  <2>2. pieces = <<>>
    BY <1>1, EmptySeq
  <2>3. <<>> \in Seq(S)
    BY EmptySeq
  <2> QED
    BY <2>1, <2>2, <2>3
<1>2. CASE Len(pieces) # 0
  <2> DEFINE flatten == CHOOSE f : Joins(f, pieces, Len(pieces))
  <2>3. Joins(flatten, pieces, Len(pieces))
    BY <1>0, JoinExists
  <2>4. FlattenSeq(pieces) = flatten[Len(pieces)]
    BY <1>2 DEF FlattenSeq, Joins
  <2> HIDE DEF flatten
  <2>5. \A i \in 1..Len(pieces) : flatten[i] \in Seq(S)
    BY <2>3, JoinType
  <2> QED
    BY <1>0, <1>2, <2>4, <2>5
<1> QED
  BY <1>1, <1>2

LEMMA FieldTextsType ==
  ASSUME NEW m, IsFieldMap(m)
  PROVE  FieldTexts(m) \in Seq(Byte)
<1> DEFINE N == Cardinality(DOMAIN m)
           pieces == [i \in 1..N |-> FieldText(m, Names(m)[i])]
<1>1. N \in Nat /\ Names(m) \in [1..N -> DOMAIN m]
  BY FieldsAreWrittenInOrder
<1>2. ASSUME NEW name \in DOMAIN m PROVE FieldText(m, name) \in Seq(Byte)
  <2>1. /\ name \in Seq(Byte) /\ m[name] \in Seq(Byte)
        /\ <<Colon, SP>> \in Seq(Byte) /\ CRLF \in Seq(Byte)
    BY DEF IsFieldMap, Colon, SP, CRLF, CR, LF, Byte
  <2>2. name \o <<Colon, SP>> \in Seq(Byte)
    BY <2>1, ConcatProperties
  <2>3. name \o <<Colon, SP>> \o m[name] \in Seq(Byte)
    BY <2>1, <2>2, ConcatProperties
  <2>4. name \o <<Colon, SP>> \o m[name] \o CRLF \in Seq(Byte)
    BY <2>1, <2>3, ConcatProperties
  <2> QED
    BY <2>4 DEF FieldText
<1> HIDE DEF N
<1>3. \A i \in 1..N : FieldText(m, Names(m)[i]) \in Seq(Byte)
  BY <1>1, <1>2
<1>4. pieces \in [1..N -> Seq(Byte)]
  BY <1>3
<1>5. pieces \in Seq(Seq(Byte))
  <2> HIDE DEF pieces
  <2> QED
    BY <1>1, <1>4
<1>6. DOMAIN Names(m) = 1..N
  BY <1>1
<1>7. FieldTexts(m) = FlattenSeq(pieces)
  BY <1>6 DEF FieldTexts
<1> QED
  BY <1>5, <1>7, FlattenType

LEMMA JoinedLength ==
  ASSUME NEW s \in Seq(Byte), NEW t \in Seq(Byte)
  PROVE  /\ s \o t \in Seq(Byte)
         /\ Len(s \o t) = Len(s) + Len(t)
         /\ Len(s) \in Nat /\ Len(t) \in Nat
BY ConcatProperties


-----------------------------------------------------------------------------
(* The lines of a response. *)

NoBreak(s) == \A i \in DOMAIN s : s[i] # CR /\ s[i] # LF

(* A line is whole if it ends at its only line break. *)
WholeLine(s) ==
  /\ Len(s) >= 2
  /\ \A i \in DOMAIN s : s[i] = CR <=> i = Len(s) - 1
  /\ \A i \in DOMAIN s : s[i] = LF <=> i = Len(s)

LEMMA JoinHasNoBreak ==
  ASSUME NEW s \in Seq(Byte), NEW t \in Seq(Byte), NoBreak(s), NoBreak(t)
  PROVE  s \o t \in Seq(Byte) /\ NoBreak(s \o t)
<1>1. s \o t \in Seq(Byte)
  BY ConcatProperties
<1>2. ASSUME NEW i \in 1..(Len(s) + Len(t))
      PROVE  (s \o t)[i] # CR /\ (s \o t)[i] # LF
  <2>1. CASE i <= Len(s)
    <3>1. (s \o t)[i] = s[i] /\ i \in DOMAIN s
      BY <2>1
    <3> QED
      BY <3>1 DEF NoBreak
  <2>2. CASE i > Len(s)
    <3>1. (s \o t)[i] = t[i - Len(s)] /\ i - Len(s) \in DOMAIN t
      BY <2>2
    <3> QED
      BY <3>1 DEF NoBreak
  <2> QED
    BY <2>1, <2>2
<1>3. DOMAIN (s \o t) = 1..(Len(s) + Len(t))
  OBVIOUS
<1> QED
  BY <1>1, <1>2, <1>3 DEF NoBreak

LEMMA BreakEndsLine ==
  ASSUME NEW s \in Seq(Byte), NoBreak(s) PROVE WholeLine(s \o CRLF)
<1> DEFINE t == s \o <<CR, LF>>
<1>1. /\ Len(t) = Len(s) + 2 /\ DOMAIN t = 1..(Len(s) + 2)
      /\ \A i \in 1..Len(s) : t[i] = s[i]
      /\ t[Len(s) + 1] = CR /\ t[Len(s) + 2] = LF
  BY DEF CR, LF
<1>2. Len(s) \in Nat /\ CR # LF
  BY DEF CR, LF
<1>3. \A i \in 1..Len(s) : t[i] # CR /\ t[i] # LF
  BY <1>1 DEF NoBreak
<1> HIDE DEF t
<1>4. WholeLine(t)
  BY <1>1, <1>2, <1>3 DEF WholeLine
<1> QED
  BY <1>4 DEF t, CRLF

(* What the create functions accept has no line break. *)
LEMMA AcceptedHasNoBreak ==
  ASSUME NEW s \in Seq(Byte), IsFieldName(s) \/ IsFieldValue(s)
  PROVE  NoBreak(s)
<1>1. is_not_printable(CR) /\ is_not_printable(LF)
  BY DEF is_not_printable, CR, LF, SP
<1>2. ~is_strict_whitespace(CR) /\ ~is_strict_whitespace(LF)
  BY DEF is_strict_whitespace, CR, LF, SP, HT
<1>3. CASE IsFieldName(s)
  BY <1>1, <1>3 DEF IsFieldName, is_token, is_not_token_char, NoBreak
<1>4. CASE IsFieldValue(s)
  BY <1>1, <1>2, <1>4 DEF IsFieldValue, NoBreak
<1> QED
  BY <1>3, <1>4

LEMMA DigitsHaveNoBreak ==
  ASSUME NEW n \in Nat PROVE Decimal[n] \in Seq(Byte) /\ NoBreak(Decimal[n])
<1>1. Decimal[n] \in Seq(DigitChar)
  BY DecimalIsNumeral
<1>2. \A i \in DOMAIN Decimal[n] : Decimal[n][i] \in DigitChar
  BY <1>1
<1> QED
  BY <1>1, <1>2, DigitsAreBytes DEF NoBreak, DigitChar, CR, LF

(* A map that can be written line by line. *)
IsLines(m) ==
  /\ IsFieldMap(m)
  /\ \A name \in DOMAIN m : NoBreak(name) /\ NoBreak(m[name])

LEMMA AppendIsLines ==
  ASSUME NEW m, IsLines(m), NEW name \in Seq(Byte), NEW value \in Seq(Byte),
         NoBreak(name), NoBreak(value)
  PROVE  IsLines(append(m, name, value))
<1> DEFINE new == append(m, name, value)
<1>1. IsFieldMap(new)
  BY AppendIsMap DEF IsLines
<1>2. CASE find(m, name) = {}
  <2>1. new = [key \in DOMAIN m \cup {name} |->
                 IF key = name THEN value ELSE m[key]]
    BY <1>2 DEF append
  <2> HIDE DEF new
  <2>2. \A key \in DOMAIN new : NoBreak(key) /\ NoBreak(new[key])
    BY <2>1 DEF IsLines
  <2> QED
    BY <1>1, <2>2 DEF IsLines, new
<1>3. CASE find(m, name) # {}
  <2>1. new = [key \in DOMAIN m |->
                 IF SameName(key, name) /\ value # <<>>
                 THEN m[key] \o <<Comma, SP>> \o value
                 ELSE m[key]]
    BY <1>3 DEF append
  <2>2. ASSUME NEW key \in DOMAIN m
        PROVE  NoBreak(m[key] \o <<Comma, SP>> \o value)
    <3>1. <<Comma, SP>> \in Seq(Byte) /\ NoBreak(<<Comma, SP>>)
      BY DEF NoBreak, Comma, SP, CR, LF, Byte
    <3>2. m[key] \in Seq(Byte) /\ NoBreak(m[key])
      BY DEF IsLines, IsFieldMap
    <3>3. /\ m[key] \o <<Comma, SP>> \in Seq(Byte)
          /\ NoBreak(m[key] \o <<Comma, SP>>)
      BY <3>1, <3>2, JoinHasNoBreak
    <3> QED
      BY <3>3, JoinHasNoBreak
  <2> HIDE DEF new
  <2>3. \A key \in DOMAIN new : NoBreak(key) /\ NoBreak(new[key])
    BY <2>1, <2>2 DEF IsLines
  <2> QED
    BY <1>1, <2>3 DEF IsLines, new
<1> QED
  BY <1>2, <1>3

LEMMA FieldTextIsWhole ==
  ASSUME NEW m, IsLines(m), NEW name \in DOMAIN m
  PROVE  WholeLine(FieldText(m, name))
<1>1. /\ name \in Seq(Byte) /\ NoBreak(name)
      /\ m[name] \in Seq(Byte) /\ NoBreak(m[name])
  BY DEF IsLines, IsFieldMap
<1>2. <<Colon, SP>> \in Seq(Byte) /\ NoBreak(<<Colon, SP>>)
  BY DEF NoBreak, Colon, SP, CR, LF, Byte
<1>3. name \o <<Colon, SP>> \in Seq(Byte) /\ NoBreak(name \o <<Colon, SP>>)
  BY <1>1, <1>2, JoinHasNoBreak
<1>4. /\ name \o <<Colon, SP>> \o m[name] \in Seq(Byte)
      /\ NoBreak(name \o <<Colon, SP>> \o m[name])
  BY <1>1, <1>3, JoinHasNoBreak
<1> QED
  BY <1>4, BreakEndsLine DEF FieldText

(* The text is a status line that fits the request, the lines of the       *)
(* fields and an empty line, and each field is one line.                   *)

-----------------------------------------------------------------------------
(* Places in a text. *)

(* The part of a text from a place on. *)
Rest(s, i) == SubSeq(s, i, Len(s))

LEMMA RestProperties ==
  ASSUME NEW s \in Seq(Byte), NEW i \in 1..(Len(s) + 1)
  PROVE  /\ Rest(s, i) \in Seq(Byte)
         /\ Len(Rest(s, i)) = Len(s) + 1 - i
         /\ \A j \in 1..(Len(s) + 1 - i) : Rest(s, i)[j] = s[i + j - 1]
<1>1. \A j \in i..Len(s) : s[j] \in Byte
  BY ElementOfSeq
<1>2. i \in Int /\ Len(s) \in Int /\ Len(s) >= i - 1
  BY LenProperties
<1> DEFINE t == SubSeq(s, i, Len(s))
<1>3. /\ t \in Seq(Byte)
      /\ Len(t) = IF i <= Len(s) THEN Len(s) - i + 1 ELSE 0
      /\ \A j \in 1..(Len(s) - i + 1) : t[j] = s[i + j - 1]
  BY <1>1, <1>2, SubSeqProperties
<1> HIDE DEF t
<1> QED
  BY <1>2, <1>3 DEF t, Rest

LEMMA RestOfRest ==
  ASSUME NEW s \in Seq(Byte), NEW i \in 1..(Len(s) + 1),
         NEW k \in 1..(Len(s) + 2 - i)
  PROVE  Rest(Rest(s, i), k) = Rest(s, i + k - 1)
<1> DEFINE t == Rest(s, i)
           u == Rest(t, k)
           v == Rest(s, i + k - 1)
<1>0. Len(s) \in Nat
  BY LenProperties
<1>1. /\ t \in Seq(Byte) /\ Len(t) = Len(s) + 1 - i
      /\ \A j \in 1..(Len(s) + 1 - i) : t[j] = s[i + j - 1]
  BY RestProperties
<1>2. k \in 1..(Len(t) + 1) /\ i + k - 1 \in 1..(Len(s) + 1)
  BY <1>0, <1>1
<1>3. /\ u \in Seq(Byte) /\ Len(u) = Len(t) + 1 - k
      /\ \A j \in 1..(Len(t) + 1 - k) : u[j] = t[k + j - 1]
  BY <1>1, <1>2, RestProperties
<1>4. /\ v \in Seq(Byte) /\ Len(v) = Len(s) + 1 - (i + k - 1)
      /\ \A j \in 1..(Len(s) + 1 - (i + k - 1)) : v[j] = s[i + k - 1 + j - 1]
  BY <1>2, RestProperties
<1> HIDE DEF t, u, v
<1>5. Len(u) = Len(v)
  BY <1>0, <1>1, <1>3, <1>4
<1>6. ASSUME NEW j \in 1..Len(u) PROVE u[j] = v[j]
  <2>1. /\ j \in 1..(Len(t) + 1 - k)
        /\ k + j - 1 \in 1..(Len(s) + 1 - i)
        /\ j \in 1..(Len(s) + 1 - (i + k - 1))
        /\ i + (k + j - 1) - 1 = i + k - 1 + j - 1
    BY <1>0, <1>1, <1>3
  <2> QED
    BY <1>1, <1>3, <1>4, <2>1
<1>7. u = v
  BY <1>3, <1>4, <1>5, <1>6, SeqEqual
<1> QED
  BY <1>7 DEF t, u, v

LEMMA TailIsRest ==
  ASSUME NEW s \in Seq(Byte), s # <<>>
  PROVE  Tail(s) = Rest(s, 2) /\ Tail(s) \in Seq(Byte) /\ Len(Tail(s)) = Len(s) - 1
BY TailIsSubSeq, HeadTailProperties DEF Rest

LEMMA PartType ==
  ASSUME NEW s \in Seq(Byte), NEW i \in 1..(Len(s) + 1), NEW j \in 0..Len(s)
  PROVE  SubSeq(s, i, j) \in Seq(Byte)
<1>1. \A x \in i..j : s[x] \in Byte
  BY LenProperties, ElementOfSeq
<1> QED
  BY <1>1, LenProperties, SubSeqProperties

LEMMA PartGrows ==
  ASSUME NEW s \in Seq(Byte), NEW p \in 0..(Len(s) - 1), NEW b \in 1..(p + 1)
  PROVE  SubSeq(s, b, p + 1) = Append(SubSeq(s, b, p), s[p + 1])
<1>0. PICK N \in Nat : N = Len(s)
  BY LenProperties
<1>1. b \in 1..(Len(s) + 1) /\ p \in 0..Len(s) /\ p + 1 \in 1..Len(s)
      /\ s[p + 1] \in Byte
  BY <1>0, ElementOfSeq
<1> DEFINE t == SubSeq(s, b, p)
           u == SubSeq(s, b, p + 1)
<1>2. t \in Seq(Byte) /\ u \in Seq(Byte)
  BY <1>0, <1>1, PartType
<1>3. /\ Len(t) = p + 1 - b /\ Len(u) = p + 2 - b
      /\ \A j \in 1..(p + 1 - b) : t[j] = s[b + j - 1]
      /\ \A j \in 1..(p + 2 - b) : u[j] = s[b + j - 1]
  BY <1>0, <1>1
<1> HIDE DEF t, u
<1>4. PICK c \in Nat : c = p + 1 - b /\ b + c = p + 1
  BY <1>1
<1>5. PICK x \in Byte : x = s[p + 1]
  BY <1>1
<1>6. PICK v : v = Append(t, x)
  OBVIOUS
<1>7. v \in Seq(Byte) /\ Len(v) = Len(t) + 1 /\ v[Len(t) + 1] = x
      /\ \A j \in 1..Len(t) : v[j] = t[j]
  BY <1>2, <1>5, <1>6, AppendProperties
<1>8. Len(t) = c /\ Len(u) = c + 1
  BY <1>3, <1>4
<1>9. ASSUME NEW j \in 1..(c + 1) PROVE u[j] = v[j]
  <2>1. CASE j <= c
    <3>1. j \in 1..(p + 1 - b) /\ j \in 1..(p + 2 - b) /\ j \in 1..Len(t)
      BY <1>4, <1>8, <2>1
    <3>2. u[j] = s[b + j - 1] /\ t[j] = s[b + j - 1]
      BY <1>3, <3>1, Zenon
    <3> QED
      BY <1>7, <3>1, <3>2
  <2>2. CASE j = c + 1
    <3>1. j \in 1..(p + 2 - b) /\ b + j - 1 = p + 1
      BY <1>4, <2>2
    <3>2. u[j] = s[p + 1]
      BY <1>3, <3>1, Zenon
    <3>3. v[j] = x
      BY <1>7, <1>8, <2>2
    <3> QED
      BY <1>5, <3>2, <3>3
  <2> QED
    BY <2>1, <2>2
<1>10. u = v
  BY <1>2, <1>7, <1>8, <1>9, SeqEqual
<1> QED
  BY <1>5, <1>6, <1>10 DEF t, u

StringPair == Seq(Byte) \X Seq(Byte)

(* Where the pieces of a text that is put together of them are in it. *)
IsLayout(p, pieces, flat) ==
  /\ p \in [0..Len(pieces) -> Nat]
  /\ p[0] = 0
  /\ p[Len(pieces)] = Len(flat)
  /\ \A i \in 1..Len(pieces) :
       /\ p[i] = p[i - 1] + Len(pieces[i])
       /\ p[i] <= Len(flat)
       /\ \A j \in 1..Len(pieces[i]) : flat[p[i - 1] + j] = pieces[i][j]

LEMMA FlattenLayout ==
  ASSUME NEW pieces \in Seq(Seq(Byte))
  PROVE  /\ FlattenSeq(pieces) \in Seq(Byte)
         /\ \E p : IsLayout(p, pieces, FlattenSeq(pieces))
<1> DEFINE N == Len(pieces)
<1>0. N \in Nat /\ \A i \in 1..N : pieces[i] \in Seq(Byte)
  BY LenProperties, ElementOfSeq
<1>1. FlattenSeq(pieces) \in Seq(Byte)
  BY FlattenType
<1>2. CASE N = 0
  <2>1. FlattenSeq(pieces) = pieces /\ pieces = <<>>
    BY <1>2, EmptySeq DEF FlattenSeq
  <2> DEFINE p == [i \in 0..0 |-> 0]
  <2>2. IsLayout(p, pieces, FlattenSeq(pieces))
    BY <2>1 DEF IsLayout
  <2> QED
    BY <1>1, <2>2
<1>3. CASE N # 0
  <2> DEFINE flatten == CHOOSE f : Joins(f, pieces, N)
  <2>1. Joins(flatten, pieces, N)
    BY <1>0, JoinExists
  <2>2. FlattenSeq(pieces) = flatten[N]
    BY <1>3 DEF FlattenSeq, Joins
  <2> HIDE DEF flatten
  <2>3. \A i \in 1..N : flatten[i] \in Seq(Byte) /\ Len(flatten[i]) \in Nat
    BY <2>1, JoinType, LenProperties
  <2>4. \A i \in 1..N : flatten[i] = IF i = 1 THEN pieces[i]
                                    ELSE flatten[i - 1] \o pieces[i]
    BY <2>1 DEF Joins
  <2> DEFINE p == [i \in 0..N |-> IF i = 0 THEN 0 ELSE Len(flatten[i])]
  <2>5. p \in [0..N -> Nat] /\ p[0] = 0 /\ \A i \in 1..N : p[i] = Len(flatten[i])
    BY <1>0, <2>3
  <2> HIDE DEF p, N
  <2>6. ASSUME NEW i \in 1..N PROVE p[i] = p[i - 1] + Len(pieces[i])
    <3>1. pieces[i] \in Seq(Byte) /\ Len(pieces[i]) \in Nat
      BY <1>0, LenProperties
    <3>2. CASE i = 1
      BY <2>4, <2>5, <3>1, <3>2
    <3>3. CASE i # 1
      <4>1. i - 1 \in 1..N
        BY <1>0, <3>3
      <4>2. flatten[i] = flatten[i - 1] \o pieces[i] /\ flatten[i - 1] \in Seq(Byte)
        BY <2>3, <2>4, <3>3, <4>1
      <4>3. Len(flatten[i]) = Len(flatten[i - 1]) + Len(pieces[i])
        BY <3>1, <4>2, ConcatProperties
      <4> QED
        BY <2>5, <4>1, <4>3
    <3> QED
      BY <3>2, <3>3
  <2> DEFINE Placed(m) == \A i \in 1..m :
                            /\ p[i] <= p[m]
                            /\ \A j \in 1..Len(pieces[i]) :
                                 flatten[m][p[i - 1] + j] = pieces[i][j]
             T == {m \in Nat : m + 1 <= N => Placed(m + 1)}
  <2>7. 0 \in T
    <3>1. flatten[1] = pieces[1] /\ pieces[1] \in Seq(Byte)
      BY <1>0, <1>3, <2>4
    <3>2. p[1] <= p[1] /\ Len(pieces[1]) \in Nat
      BY <1>0, <1>3, <2>5, <3>1, LenProperties
    <3>3. \A j \in 1..Len(pieces[1]) : flatten[1][p[1 - 1] + j] = pieces[1][j]
      BY <2>5, <3>1, <3>2
    <3>4. Placed(1)
      BY <3>2, <3>3
    <3> HIDE DEF Placed
    <3> QED
      BY <3>4
  <2>8. ASSUME NEW n \in Nat, n \in T PROVE n + 1 \in T
    <3> SUFFICES ASSUME n + 2 <= N PROVE Placed(n + 2)
      BY (n + 1) + 1 = n + 2
    <3>0. PICK m \in Nat : m = n + 1
      OBVIOUS
    <3>1. Placed(m) /\ m \in 1..N /\ m + 1 \in 1..N /\ m + 1 # 1 /\ (m + 1) - 1 = m
      BY <1>0, <2>8, <3>0
    <3>2. /\ flatten[m + 1] = flatten[m] \o pieces[m + 1]
          /\ flatten[m] \in Seq(Byte) /\ pieces[m + 1] \in Seq(Byte)
      BY <1>0, <2>3, <2>4, <3>1
    <3>3. p[m] = Len(flatten[m]) /\ p[m] \in Nat /\ p[m + 1] = p[m] + Len(pieces[m + 1])
      BY <2>5, <2>6, <3>1
    <3>4. Len(pieces[m + 1]) \in Nat
      BY <3>2, LenProperties
    <3>5. PICK a \in Nat : a = Len(flatten[m]) /\ a = p[m]
      BY <3>3
    <3>6. PICK b \in Nat : b = Len(pieces[m + 1]) /\ p[m + 1] = a + b
      BY <3>3, <3>4, <3>5
    <3>8. \A x \in 1..(a + b) :
            flatten[m + 1][x] = IF x <= a THEN flatten[m][x]
                                ELSE pieces[m + 1][x - a]
      <4>1. \A x \in 1..(Len(flatten[m]) + Len(pieces[m + 1])) :
              flatten[m + 1][x] = IF x <= Len(flatten[m]) THEN flatten[m][x]
                                  ELSE pieces[m + 1][x - Len(flatten[m])]
        BY <3>2, ConcatProperties
      <4> QED
        BY <3>5, <3>6, <4>1, Zenon
    <3>9. ASSUME NEW i \in 1..(m + 1)
          PROVE  /\ p[i] <= p[m + 1]
                 /\ \A j \in 1..Len(pieces[i]) :
                      flatten[m + 1][p[i - 1] + j] = pieces[i][j]
      <4>0. i \in 1..N /\ i - 1 \in 0..N
        BY <1>0, <3>1
      <4>1. PICK c \in Nat : c = Len(pieces[i])
        BY <1>0, <4>0, LenProperties
      <4>2. PICK o \in Nat : o = p[i - 1] /\ p[i] = o + c
        BY <2>5, <2>6, <4>0, <4>1
      <4>3. CASE i <= m
        <5>1. i \in 1..m /\ p[i] <= p[m]
          BY <3>1, <4>3
        <5>2. o + c <= a
          BY <3>5, <4>2, <5>1
        <5>3. ASSUME NEW j \in 1..c PROVE flatten[m + 1][o + j] = pieces[i][j]
          <6>1. o + j \in 1..(a + b) /\ o + j <= a
            BY <5>2
          <6>2. flatten[m + 1][o + j] = flatten[m][o + j]
            BY <3>8, <6>1
          <6> QED
            BY <3>1, <4>1, <4>2, <5>1, <6>2
        <5>4. p[i] <= p[m + 1]
          BY <3>6, <4>2, <5>2
        <5> QED
          BY <4>1, <4>2, <5>3, <5>4
      <4>4. CASE i = m + 1
        <5>1. o = a /\ c = b
          BY <3>1, <3>5, <3>6, <4>1, <4>2, <4>4
        <5>2. ASSUME NEW j \in 1..c PROVE flatten[m + 1][o + j] = pieces[i][j]
          <6>1. o + j \in 1..(a + b) /\ ~(o + j <= a) /\ (o + j) - a = j
            BY <5>1
          <6> QED
            BY <3>8, <4>4, <6>1
        <5>3. p[i] <= p[m + 1]
          BY <4>2, <4>4
        <5> QED
          BY <4>1, <4>2, <5>2, <5>3
      <4> QED
        BY <4>3, <4>4
    <3>10. Placed(m + 1)
      BY <3>9
    <3> QED
      BY <3>0, <3>10, m + 1 = n + 2
  <2> HIDE DEF T
  <2>9. \A n \in Nat : n \in T
    BY <2>7, <2>8, Induction
  <2>10. Placed(N)
    <3>1. N - 1 \in Nat /\ (N - 1) + 1 = N
      BY <1>0, <1>3
    <3> HIDE DEF Placed
    <3> QED
      BY <2>9, <3>1 DEF T
  <2>11. IsLayout(p, pieces, flatten[N])
    <3>1. N \in 1..N
      BY <1>0, <1>3
    <3>2. p[N] = Len(flatten[N])
      BY <2>5, <3>1
    <3> QED
      BY <2>5, <2>6, <2>10, <3>2 DEF IsLayout, N
  <2> QED
    BY <1>1, <2>2, <2>11
<1> QED
  BY <1>2, <1>3

(* i is the first place, from a given one on, that is in T; or n + 1. *)
IsFirst(T, from, n, i) ==
  /\ i \in from..(n + 1)
  /\ i <= n => i \in T
  /\ \A j \in from..(i - 1) : j \notin T

LEMMA FirstExists ==
  ASSUME NEW T, NEW n \in Nat, NEW from \in 1..(n + 1)
  PROVE  IsFirst(T, from, n, First(T, from, n))
<1> DEFINE R == {i \in from..(n + 1) : i <= n => i \in T}
<1>1. R \subseteq Nat /\ n + 1 \in R
  OBVIOUS
<1>2. PICK i \in R : \A k \in R : i <= k
  BY <1>1, LeastNat
<1>3. \A j \in from..(i - 1) : j \notin T
  BY <1>2
<1>4. IsFirst(T, from, n, i)
  BY <1>2, <1>3 DEF IsFirst
<1>5. First(T, from, n) = CHOOSE x \in from..(n + 1) : IsFirst(T, from, n, x)
  BY DEF First, IsFirst
<1>6. i \in from..(n + 1)
  OBVIOUS
<1> QED
  BY <1>4, <1>5, <1>6

LEMMA FirstIs ==
  ASSUME NEW T, NEW n \in Nat, NEW from \in 1..(n + 1), NEW i,
         IsFirst(T, from, n, i)
  PROVE  First(T, from, n) = i
<1> DEFINE p == First(T, from, n)
<1>1. IsFirst(T, from, n, p)
  BY FirstExists
<1> HIDE DEF p
<1>2. CASE p < i
  BY <1>1, <1>2 DEF IsFirst
<1>3. CASE i < p
  BY <1>1, <1>3 DEF IsFirst
<1>4. p = i
  BY <1>1, <1>2, <1>3 DEF IsFirst
<1> QED
  BY <1>4 DEF p

(* The first place of a character, if there is one up to n or not. *)
LEMMA PlaceFound ==
  ASSUME NEW s, NEW c, NEW n \in Nat, NEW from \in 1..(n + 1),
         NEW i \in from..n, s[i] = c, \A j \in from..(i - 1) : s[j] # c
  PROVE  Place(s, c, from, n) = i
<1> DEFINE T == {j \in 1..n : s[j] = c}
<1>1. i \in T /\ i \in from..(n + 1) /\ \A j \in from..(i - 1) : j \notin T
  OBVIOUS
<1> HIDE DEF T
<1>2. IsFirst(T, from, n, i)
  BY <1>1 DEF IsFirst
<1> QED
  BY <1>2, FirstIs DEF Place, T

LEMMA PlaceNotFound ==
  ASSUME NEW s, NEW c, NEW n \in Nat, NEW from \in 1..(n + 1),
         \A j \in from..n : s[j] # c
  PROVE  Place(s, c, from, n) = n + 1
<1> DEFINE T == {j \in 1..n : s[j] = c}
<1>1. n + 1 \in from..(n + 1) /\ \A j \in from..((n + 1) - 1) : j \notin T
  OBVIOUS
<1> HIDE DEF T
<1>2. IsFirst(T, from, n, n + 1)
  BY <1>1 DEF IsFirst
<1> QED
  BY <1>2, FirstIs DEF Place, T

(* The same, for a whole text. *)
IsPlace(s, c, from, i) ==
  /\ i \in from..(Len(s) + 1)
  /\ i <= Len(s) => s[i] = c
  /\ \A j \in from..(i - 1) : s[j] # c

LEMMA PlaceExists ==
  ASSUME NEW s \in Seq(Byte), NEW c, NEW from \in 1..(Len(s) + 1)
  PROVE  IsPlace(s, c, from, Place(s, c, from, Len(s)))
<1>0. PICK N \in Nat : N = Len(s)
  BY LenProperties
<1> DEFINE T == {j \in 1..N : s[j] = c}
           i == First(T, from, N)
<1>1. IsFirst(T, from, N, i)
  BY <1>0, FirstExists
<1>2. Place(s, c, from, Len(s)) = i
  BY <1>0 DEF Place
<1> HIDE DEF i
<1> QED
  BY <1>0, <1>1, <1>2 DEF IsFirst, IsPlace

LEMMA PlaceIs ==
  ASSUME NEW s \in Seq(Byte), NEW c, NEW from \in 1..(Len(s) + 1), NEW i,
         IsPlace(s, c, from, i)
  PROVE  Place(s, c, from, Len(s)) = i
<1>0. PICK N \in Nat : N = Len(s)
  BY LenProperties
<1>1. CASE i <= N
  <2>1. i \in from..N /\ s[i] = c /\ \A j \in from..(i - 1) : s[j] # c
    BY <1>0, <1>1 DEF IsPlace
  <2> QED
    BY <1>0, <2>1, PlaceFound
<1>2. CASE ~(i <= N)
  <2>1. i = N + 1 /\ \A j \in from..N : s[j] # c
    BY <1>0, <1>2 DEF IsPlace
  <2> QED
    BY <1>0, <2>1, PlaceNotFound
<1> QED
  BY <1>1, <1>2

-----------------------------------------------------------------------------
(* The readings of one line, by the grammar of request headers. *)

(* What a reading of lines may end with. *)
LineEnd ==
  {"more_data_needed", "completed", "expected_linefeed", "bad_field_name",
   "bad_field_value"}

(* The reading of one line gives one of these, or a line and a later place. *)
IsReading(x, i, n) ==
  /\ x.ec \in LineEnd \cup {"line"}
  /\ x.ec = "line" => x.line \in StringPair /\ x.next \in (i + 1)..(n + 1)

LEMMA StopsAreReadings ==
  ASSUME NEW i, NEW n
  PROVE  /\ IsReading(Stopped(More), i, n)
         /\ IsReading(Stopped("completed"), i, n)
         /\ IsReading(Stopped("expected_linefeed"), i, n)
         /\ IsReading(Stopped("bad_field_name"), i, n)
         /\ IsReading(Stopped("bad_field_value"), i, n)
BY DEF IsReading, Stopped, More, LineEnd

LEMMA LineIsReading ==
  ASSUME NEW name \in Seq(Byte), NEW val \in Seq(Byte), NEW n \in Nat,
         NEW i \in Nat, NEW next \in (i + 1)..(n + 1)
  PROVE  IsReading(Line(name, val, next), i, n)
<1>1. <<name, val>> \in StringPair
  BY DEF StringPair
<1> DEFINE x == Line(name, val, next)
<1>2. x.ec = "line" /\ x.line = <<name, val>> /\ x.next = next
  BY DEF Line
<1> HIDE DEF x
<1>3. IsReading(x, i, n)
  BY <1>1, <1>2 DEF IsReading, LineEnd
<1> QED
  BY <1>3 DEF x

LEMMA AddsType ==
  ASSUME NEW s \in Seq(Byte), NEW v, NEW i \in 1..Len(s)
  PROVE  Adds(s, v, i) \in Seq(Byte)
<1>1. s[i] \in Byte /\ SP \in Byte
  BY ElementOfSeq DEF SP, Byte
<1>2. <<>> \in Seq(Byte) /\ <<s[i]>> \in Seq(Byte) /\ <<SP, s[i]>> \in Seq(Byte)
  BY <1>1
<1> QED
  BY <1>2, Zenon DEF Adds

LEMMA UnfoldedType ==
  ASSUME NEW s \in Seq(Byte), NEW v \in 1..(Len(s) + 1),
         NEW k \in 0..(Len(s) + 1 - v)
  PROVE  Unfolded(s, v, k) \in Seq(Byte)
<1>0. PICK N \in Nat : N = Len(s)
  BY LenProperties
<1>1. \A i \in 1..k : v + i - 1 \in 1..Len(s)
  BY <1>0
<1>2. \A i \in 1..k : Adds(s, v, v + i - 1) \in Seq(Byte)
  BY <1>1, AddsType
<1>3. [i \in 1..k |-> Adds(s, v, v + i - 1)] \in Seq(Seq(Byte))
  BY <1>0, <1>2
<1> QED
  BY <1>3, FlattenType DEF Unfolded

LEMMA FromNoValueReading ==
  ASSUME NEW s \in Seq(Byte), NEW n \in 0..Len(s), NEW i \in 1..n,
         NEW name \in Seq(Byte)
  PROVE  IsReading(FromNoValue(s, n, i, name), i, n)
<1>0. n \in Nat /\ i \in Nat
  BY LenProperties
<1>1. CASE i = n
  <2>1. FromNoValue(s, n, i, name) = Stopped(More)
    BY <1>1 DEF FromNoValue
  <2> QED
    BY <2>1, StopsAreReadings
<1>2. CASE i # n /\ s[i + 1] # LF
  <2>1. FromNoValue(s, n, i, name) = Stopped("expected_linefeed")
    BY <1>2 DEF FromNoValue
  <2> QED
    BY <2>1, StopsAreReadings
<1>3. CASE i # n /\ s[i + 1] = LF
  <2>1. i + 2 \in (i + 1)..(n + 1) /\ <<>> \in Seq(Byte)
    BY <1>0, <1>3
  <2>2. FromNoValue(s, n, i, name) = Line(name, <<>>, i + 2)
    BY <1>3 DEF FromNoValue
  <2> QED
    BY <1>0, <2>1, <2>2, LineIsReading
<1> QED
  BY <1>1, <1>2, <1>3

LEMMA FromTextReading ==
  ASSUME NEW s \in Seq(Byte), NEW n \in 0..Len(s), NEW i \in 1..n,
         NEW name \in Seq(Byte)
  PROVE  IsReading(FromText(s, n, i, name), i, n)
<1>0. n \in Nat /\ i \in Nat /\ i \in 1..(n + 1) /\ Len(s) \in Nat
  BY LenProperties
<1> DEFINE T == {j \in 1..n : EndsValue(s, n, j)}
           last == First(T, i, n)
           val == rtrim(Unfolded(s, i, last - i))
<1>1. IsFirst(T, i, n, last)
  BY <1>0, FirstExists
<1>2. last \in i..(n + 1) /\ (last <= n => last < n)
  BY <1>0, <1>1 DEF IsFirst, EndsValue
<1>3. Unfolded(s, i, last - i) \in Seq(Byte)
  <2> HIDE DEF last
  <2>1. i \in 1..(Len(s) + 1) /\ last - i \in 0..(Len(s) + 1 - i)
    BY <1>0, <1>2
  <2> QED
    BY <2>1, UnfoldedType
<1>4. val \in Seq(Byte)
  BY <1>3, RtrimType
<1> HIDE DEF val
<1>5. FromText(s, n, i, name) =
        IF last > n THEN Stopped(More)
        ELSE IF s[last + 1] # LF THEN Stopped("expected_linefeed")
        ELSE IF ~IsFieldName(name) THEN Stopped("bad_field_name")
        ELSE IF ~IsFieldValue(val) THEN Stopped("bad_field_value")
        ELSE Line(name, val, last + 2)
  BY Zenon DEF FromText, val
<1> HIDE DEF last
<1>6. last <= n => last + 2 \in (i + 1)..(n + 1)
  BY <1>0, <1>2
<1>7. last <= n => IsReading(Line(name, val, last + 2), i, n)
  BY <1>0, <1>4, <1>6, LineIsReading
<1>8. /\ IsReading(Stopped(More), i, n)
      /\ IsReading(Stopped("expected_linefeed"), i, n)
      /\ IsReading(Stopped("bad_field_name"), i, n)
      /\ IsReading(Stopped("bad_field_value"), i, n)
  BY StopsAreReadings
<1>9. last > n \/ last <= n
  BY <1>0, <1>2
<1> HIDE DEF IsReading
<1> QED
  BY <1>5, <1>7, <1>8, <1>9, Zenon

LEMMA ReadingLater ==
  ASSUME NEW x, NEW n \in Nat, NEW i \in Nat, NEW j \in i..n, IsReading(x, j, n)
  PROVE  IsReading(x, i, n)
BY DEF IsReading

LEMMA FromValueReading ==
  ASSUME NEW s \in Seq(Byte), NEW n \in 0..Len(s), NEW i \in 1..(n + 1),
         NEW name \in Seq(Byte)
  PROVE  IsReading(FromValue(s, n, i, name), i, n)
<1>0. n \in Nat /\ i \in Nat /\ Len(s) \in Nat
  BY LenProperties
<1> DEFINE T == {j \in 1..n : ~is_strict_whitespace(s[j])}
           v == First(T, i, n)
<1>1. IsFirst(T, i, n, v)
  BY <1>0, FirstExists
<1>2. v \in i..(n + 1)
  BY <1>1 DEF IsFirst
<1>3. FromValue(s, n, i, name) =
        IF v > n THEN Stopped(More)
        ELSE IF s[v] # CR THEN FromText(s, n, v, name)
        ELSE IF ~IsFieldName(name) THEN Stopped("bad_field_name")
        ELSE FromNoValue(s, n, v, name)
  BY Zenon DEF FromValue
<1> HIDE DEF v
<1>4. v <= n => v \in 1..n /\ v \in i..n
  BY <1>0, <1>2
<1>5. v <= n => IsReading(FromText(s, n, v, name), i, n)
  BY <1>0, <1>4, FromTextReading, ReadingLater
<1>6. v <= n => IsReading(FromNoValue(s, n, v, name), i, n)
  BY <1>0, <1>4, FromNoValueReading, ReadingLater
<1>7. /\ IsReading(Stopped(More), i, n)
      /\ IsReading(Stopped("bad_field_name"), i, n)
  BY StopsAreReadings
<1>8. v > n \/ v <= n
  BY <1>0, <1>2
<1> QED
  BY <1>3, <1>5, <1>6, <1>7, <1>8, Zenon

LEMMA FromLineReading ==
  ASSUME NEW s \in Seq(Byte), NEW n \in 0..Len(s), NEW i \in 1..(n + 1)
  PROVE  IsReading(FromLine(s, n, i), i, n)
<1>0. n \in Nat /\ i \in Nat /\ Len(s) \in Nat
  BY LenProperties
<1>1. /\ IsReading(Stopped(More), i, n)
      /\ IsReading(Stopped("completed"), i, n)
      /\ IsReading(Stopped("expected_linefeed"), i, n)
  BY StopsAreReadings
<1>2. ASSUME i <= n PROVE IsReading(FromName(s, n, i), i, n)
  <2> DEFINE T == {j \in 1..n : s[j] = Colon}
             colon == First(T, i + 1, n)
  <2>1. i + 1 \in 1..(n + 1)
    BY <1>0, <1>2
  <2>2. IsFirst(T, i + 1, n, colon)
    BY <1>0, <2>1, FirstExists
  <2>3. colon \in (i + 1)..(n + 1)
    BY <2>2 DEF IsFirst
  <2>4. FromName(s, n, i) =
          IF colon > n THEN Stopped(More)
          ELSE FromValue(s, n, colon + 1, SubSeq(s, i, colon - 1))
    BY DEF FromName, Place
  <2> HIDE DEF colon
  <2>5. CASE colon > n
    BY <1>1, <2>4, <2>5
  <2>6. CASE colon <= n
    <3>1. i \in 1..(Len(s) + 1) /\ colon - 1 \in 0..Len(s)
          /\ colon + 1 \in 1..(n + 1)
      BY <1>0, <2>3, <2>6
    <3>2. SubSeq(s, i, colon - 1) \in Seq(Byte)
      BY <3>1, PartType
    <3>3. IsReading(FromValue(s, n, colon + 1, SubSeq(s, i, colon - 1)),
                    colon + 1, n)
      BY <3>1, <3>2, FromValueReading
    <3>4. FromName(s, n, i)
            = FromValue(s, n, colon + 1, SubSeq(s, i, colon - 1))
      BY <1>0, <2>3, <2>4, <2>6
    <3>5. IsReading(FromName(s, n, i), colon + 1, n)
      BY <3>3, <3>4
    <3> QED
      BY <1>0, <2>3, <2>6, <3>5 DEF IsReading
  <2> QED
    BY <1>0, <2>3, <2>5, <2>6
<1>3. FromLine(s, n, i) \in {Stopped(More), Stopped("completed"),
                             Stopped("expected_linefeed")}
      \/ (i <= n /\ FromLine(s, n, i) = FromName(s, n, i))
  BY <1>0 DEF FromLine
<1> QED
  BY <1>1, <1>2, <1>3

(* The recursive function of the lines is what its definition says of it,  *)
(* and gives lines.                                                        *)
LinesStep(f, s, n, i) ==
  LET first == FromLine(s, n, i)
  IN IF first.ec = "line"
     THEN [ec |-> f[first.next].ec, lines |-> <<first.line>> \o f[first.next].lines]
     ELSE [ec |-> first.ec, lines |-> <<>>]

LinesType == [ec : LineEnd, lines : Seq(StringPair)]

LEMMA LinesUnfold ==
  ASSUME NEW s \in Seq(Byte), NEW n \in 0..Len(s)
  PROVE  \A i \in 1..(n + 1) :
           /\ FieldLines(s, n)[i] = LinesStep(FieldLines(s, n), s, n, i)
           /\ FieldLines(s, n)[i] \in LinesType
<1>0. n \in Nat
  BY LenProperties
<1> DEFINE S == 1..(n + 1)
           V == LinesType
           step == [i \in S |-> [f \in [S -> V] |-> LinesStep(f, s, n, i)]]
           size == [i \in S |-> n + 1 - i]
<1>1. ASSUME NEW i \in S PROVE IsReading(FromLine(s, n, i), i, n)
  BY FromLineReading
<1>2. ASSUME NEW i \in S, NEW f, \A r \in S : i < r => f[r] \in V
      PROVE  LinesStep(f, s, n, i) \in V
  <2> DEFINE first == FromLine(s, n, i)
  <2>1. IsReading(first, i, n)
    BY <1>1
  <2> HIDE DEF first
  <2>2. CASE first.ec = "line"
    <3>1. first.line \in StringPair /\ first.next \in S /\ i < first.next
      BY <1>0, <2>1, <2>2 DEF IsReading
    <3>2. f[first.next] \in V
      BY <1>2, <3>1
    <3>3. <<first.line>> \in Seq(StringPair)
      BY <3>1
    <3>4. f[first.next].ec \in LineEnd /\ f[first.next].lines \in Seq(StringPair)
      BY <3>2 DEF LinesType
    <3>5. <<first.line>> \o f[first.next].lines \in Seq(StringPair)
      BY <3>3, <3>4, ConcatProperties
    <3>6. LinesStep(f, s, n, i)
            = [ec |-> f[first.next].ec,
               lines |-> <<first.line>> \o f[first.next].lines]
      BY <2>2 DEF LinesStep, first
    <3> QED
      BY <3>4, <3>5, <3>6 DEF LinesType
  <2>3. CASE first.ec # "line"
    <3>1. first.ec \in LineEnd
      BY <2>1, <2>3 DEF IsReading
    <3>2. LinesStep(f, s, n, i) = [ec |-> first.ec, lines |-> <<>>]
      BY <2>3 DEF LinesStep, first
    <3> QED
      BY <3>1, <3>2 DEF LinesType
  <2> QED
    BY <2>2, <2>3
<1>3. ASSUME NEW i \in S, NEW f \in [S -> V], NEW g \in [S -> V],
             \A r \in S : i < r => f[r] = g[r]
      PROVE  LinesStep(f, s, n, i) = LinesStep(g, s, n, i)
  <2> DEFINE first == FromLine(s, n, i)
  <2>1. IsReading(first, i, n)
    BY <1>1
  <2> HIDE DEF first
  <2>2. CASE first.ec = "line"
    <3>1. first.next \in S /\ i < first.next
      BY <1>0, <2>1, <2>2 DEF IsReading
    <3>2. f[first.next] = g[first.next]
      BY <1>3, <3>1
    <3> QED
      BY <2>2, <3>2 DEF LinesStep, first
  <2>3. CASE first.ec # "line"
    BY <2>3 DEF LinesStep, first
  <2> QED
    BY <2>2, <2>3
<1>4. IsRecursion(step, size, S, V)
  <2>1. size \in [S -> Nat]
    BY <1>0
  <2>2. V # {}
    <3>1. [ec |-> "completed", lines |-> <<>>] \in V
      BY DEF LinesType, LineEnd
    <3> QED
      BY <3>1
  <2>3. \A i, r \in S : size[r] < size[i] <=> i < r
    BY <1>0
  <2>4. step \in [S -> [[S -> V] -> V]]
    BY <1>2
  <2>5. \A i \in S : \A f, g \in [S -> V] :
          (\A r \in S : size[r] < size[i] => f[r] = g[r])
            => step[i][f] = step[i][g]
    BY <1>3, <2>3
  <2> HIDE DEF S, V, size, step
  <2> QED
    BY <2>1, <2>2, <2>4, <2>5 DEF IsRecursion
<1>5. \E f \in [S -> V] : \A i \in S : f[i] = step[i][f]
  <2> HIDE DEF S, V, size, step
  <2> QED
    BY <1>4, Recursion
<1>6. PICK f \in [S -> V] : \A i \in S : f[i] = step[i][f]
  BY <1>5
<1> DEFINE Is(e) == e = [i \in S |-> LinesStep(e, s, n, i)]
<1>7. Is(f)
  BY <1>6
<1>8. FieldLines(s, n) = CHOOSE e : Is(e)
  BY DEF FieldLines, LinesStep
<1>9. Is(FieldLines(s, n))
  <2> HIDE DEF Is
  <2> QED
    BY <1>7, <1>8
<1>10. \A i \in S : FieldLines(s, n)[i] = LinesStep(FieldLines(s, n), s, n, i)
  BY <1>9
<1> DEFINE F == FieldLines(s, n)
           T == {m \in Nat : \A i \in S : n + 1 - i = m => F[i] \in V}
<1>11. ASSUME NEW k \in Nat, \A m \in 0..(k - 1) : m \in T PROVE k \in T
  <2> SUFFICES ASSUME NEW i \in S, n + 1 - i = k PROVE F[i] \in V
    OBVIOUS
  <2>1. ASSUME NEW r \in S, i < r PROVE F[r] \in V
    <3>1. n + 1 - r \in 0..(k - 1)
      BY <1>0, <2>1
    <3> QED
      BY <1>11, <3>1
  <2> HIDE DEF S, V
  <2> QED
    BY <1>2, <1>10, <2>1
<1> HIDE DEF T
<1>12. \A k \in Nat : k \in T
  BY <1>11, StrongInduction
<1>13. ASSUME NEW i \in S PROVE F[i] \in V
  <2>1. n + 1 - i \in Nat
    BY <1>0
  <2>2. n + 1 - i \in T
    BY <1>12, <2>1
  <2> QED
    BY <2>2 DEF T
<1> QED
  BY <1>10, <1>13

-----------------------------------------------------------------------------
(* The lines that have been read, and those from i on. *)
Reads(s, n, i, method, target, ver, lines) ==
  LET section == FieldLines(s, n)[i]
      all == lines \o section.lines
  IN IF section.ec # "completed" THEN Stopped(section.ec)
     ELSE [ec |-> "completed",
           header |-> [method |-> method, target |-> target,
                       version |-> ver, fields |-> FieldsOf(all)],
           lines |-> all]

LEMMA SectionType ==
  ASSUME NEW s \in Seq(Byte), NEW n \in 0..Len(s), NEW i \in 1..(n + 1)
  PROVE  /\ FieldLines(s, n)[i].ec \in LineEnd
         /\ FieldLines(s, n)[i].lines \in Seq(StringPair)
<1>1. FieldLines(s, n)[i] \in LinesType
  BY LinesUnfold
<1> QED
  BY <1>1 DEF LinesType

LEMMA ReadsNone ==
  ASSUME NEW s \in Seq(Byte), NEW n \in 0..Len(s), NEW i \in 1..(n + 1),
         NEW method, NEW target, NEW ver
  PROVE  FromFields(s, n, i, method, target, ver)
           = Reads(s, n, i, method, target, ver, <<>>)
<1> DEFINE section == FieldLines(s, n)[i]
<1>1. section.lines \in Seq(StringPair)
  BY SectionType
<1> HIDE DEF section
<1>2. <<>> \o section.lines = section.lines
  BY <1>1, ConcatEmptySeq
<1> QED
  BY <1>2 DEF FromFields, Reads, section

LEMMA OneMore ==
  ASSUME NEW S, NEW a \in Seq(S), NEW x \in S, NEW u \in Seq(S)
  PROVE  a \o (<<x>> \o u) = Append(a, x) \o u
<1>1. <<x>> \in Seq(S)
  OBVIOUS
<1>2. (a \o <<x>>) \o u = a \o (<<x>> \o u)
  BY <1>1, ConcatAssociative
<1>3. a \o <<x>> = Append(a, x)
  BY AppendIsConcat
<1> QED
  BY <1>2, <1>3

LEMMA ReadsNext ==
  ASSUME NEW s \in Seq(Byte), NEW n \in 0..Len(s), NEW i \in 1..(n + 1),
         NEW method, NEW target, NEW ver, NEW lines \in Seq(StringPair),
         NEW name \in Seq(Byte), NEW val \in Seq(Byte), NEW next,
         FromLine(s, n, i) = Line(name, val, next)
  PROVE  Reads(s, n, i, method, target, ver, lines)
           = Reads(s, n, next, method, target, ver,
                   Append(lines, <<name, val>>))
<1> DEFINE F == FieldLines(s, n)
           first == FromLine(s, n, i)
           line == <<name, val>>
<1>1. first.ec = "line" /\ first.line = line /\ first.next = next
  BY DEF Line
<1>2. IsReading(first, i, n)
  BY FromLineReading
<1>3. F[i] = LinesStep(F, s, n, i)
  BY LinesUnfold
<1>4. LinesStep(F, s, n, i)
        = [ec |-> F[next].ec, lines |-> <<line>> \o F[next].lines]
  <2> HIDE DEF F, line
  <2> QED
    BY <1>1, Zenon DEF LinesStep
<1>5. line \in StringPair /\ next \in 1..(n + 1)
  <2>1. n \in Nat
    BY LenProperties
  <2> QED
    BY <1>1, <1>2, <2>1 DEF IsReading
<1>6. F[next].lines \in Seq(StringPair)
  BY <1>5, SectionType
<1> HIDE DEF F, first, line
<1>7. F[i].ec = F[next].ec /\ F[i].lines = <<line>> \o F[next].lines
  BY <1>3, <1>4
<1>8. lines \o F[i].lines = Append(lines, line) \o F[next].lines
  <2>1. PICK u \in Seq(StringPair) : u = F[next].lines
    BY <1>6
  <2>2. PICK l \in StringPair : l = line
    BY <1>5
  <2>3. lines \o (<<l>> \o u) = Append(lines, l) \o u
    BY OneMore
  <2> QED
    BY <1>7, <2>1, <2>2, <2>3, Zenon
<1> QED
  BY <1>7, <1>8 DEF Reads, F, line

LEMMA ReadsStop ==
  ASSUME NEW s \in Seq(Byte), NEW n \in 0..Len(s), NEW i \in 1..(n + 1),
         NEW method, NEW target, NEW ver, NEW lines \in Seq(StringPair),
         NEW code, code \notin {"line", "completed"},
         FromLine(s, n, i) = Stopped(code)
  PROVE  Reads(s, n, i, method, target, ver, lines) = Stopped(code)
<1> DEFINE F == FieldLines(s, n)
<1>1. F[i] = LinesStep(F, s, n, i)
  BY LinesUnfold
<1>2. FromLine(s, n, i).ec = code
  BY DEF Stopped
<1> HIDE DEF F
<1>3. F[i].ec = code
  BY <1>1, <1>2 DEF LinesStep
<1> QED
  BY <1>3 DEF Reads, F

LEMMA ReadsEnd ==
  ASSUME NEW s \in Seq(Byte), NEW n \in 0..Len(s), NEW i \in 1..(n + 1),
         NEW method, NEW target, NEW ver, NEW lines \in Seq(StringPair),
         FromLine(s, n, i) = Stopped("completed")
  PROVE  Reads(s, n, i, method, target, ver, lines)
           = [ec |-> "completed",
              header |-> [method |-> method, target |-> target,
                          version |-> ver, fields |-> FieldsOf(lines)],
              lines |-> lines]
<1> DEFINE F == FieldLines(s, n)
<1>1. F[i] = LinesStep(F, s, n, i)
  BY LinesUnfold
<1>2. FromLine(s, n, i).ec = "completed"
  BY DEF Stopped
<1> HIDE DEF F
<1>3. F[i] = [ec |-> "completed", lines |-> <<>>]
  BY <1>1, <1>2 DEF LinesStep
<1>4. F[i].ec = "completed" /\ F[i].lines = <<>>
  BY <1>3
<1>5. lines \o F[i].lines = lines
  BY <1>4, ConcatEmptySeq
<1> QED
  BY <1>4, <1>5 DEF Reads, F

-----------------------------------------------------------------------------
(* The parts of the request line: what ends a part is there, or it is not. *)

(* The first c from i on is at e. *)
IsAt(s, c, i, e) == s[e] = c /\ \A j \in i..(e - 1) : s[j] # c

IsNot(s, c, i, n) == \A j \in i..n : s[j] # c

LEMMA MeaningStarts ==
  ASSUME NEW s, NEW n \in Nat, IsNot(s, SP, 1, n)
  PROVE  Meaning(s, n) = Stopped(More)
<1>1. Place(s, SP, 1, n) = n + 1
  BY PlaceNotFound DEF IsNot
<1> QED
  BY <1>1 DEF Meaning

LEMMA MethodEnds ==
  ASSUME NEW s, NEW n \in Nat, NEW e \in 1..n, IsAt(s, SP, 1, e)
  PROVE  LET method == SubSeq(s, 1, e - 1) IN
         /\ ~IsMethod(method) => Meaning(s, n) = Stopped("bad_request_method")
         /\ IsMethod(method) => Meaning(s, n) = FromTarget(s, n, e + 1, method)
<1>1. Place(s, SP, 1, n) = e
  BY PlaceFound DEF IsAt
<1>2. ~(e > n)
  OBVIOUS
<1> QED
  BY <1>1, <1>2, Zenon DEF Meaning

LEMMA TargetStarts ==
  ASSUME NEW s, NEW n \in Nat, NEW i \in 1..(n + 1), NEW method,
         IsNot(s, SP, i, n)
  PROVE  FromTarget(s, n, i, method) = Stopped(More)
<1>1. Place(s, SP, i, n) = n + 1
  BY PlaceNotFound DEF IsNot
<1> QED
  BY <1>1 DEF FromTarget

LEMMA TargetEnds ==
  ASSUME NEW s, NEW n \in Nat, NEW i \in 1..(n + 1), NEW method,
         NEW e \in i..n, IsAt(s, SP, i, e)
  PROVE  LET target == SubSeq(s, i, e - 1) IN
         /\ ~IsTarget(target) =>
              FromTarget(s, n, i, method) = Stopped("bad_request_target")
         /\ IsTarget(target) =>
              FromTarget(s, n, i, method)
                = FromProtocol(s, n, e + 1, method, target)
<1>1. Place(s, SP, i, n) = e
  BY PlaceFound DEF IsAt
<1>2. ~(e > n)
  OBVIOUS
<1> QED
  BY <1>1, <1>2, Zenon DEF FromTarget

LEMMA ProtocolStarts ==
  ASSUME NEW s, NEW n \in Nat, NEW i \in 1..(n + 1), NEW method, NEW target,
         IsNot(s, Slash, i, n)
  PROVE  FromProtocol(s, n, i, method, target) = Stopped(More)
<1>1. Place(s, Slash, i, n) = n + 1
  BY PlaceNotFound DEF IsNot
<1> QED
  BY <1>1 DEF FromProtocol

LEMMA ProtocolEnds ==
  ASSUME NEW s, NEW n \in Nat, NEW i \in 1..(n + 1), NEW method, NEW target,
         NEW e \in i..n, IsAt(s, Slash, i, e)
  PROVE  /\ SubSeq(s, i, e - 1) # HTTP =>
              FromProtocol(s, n, i, method, target) = Stopped("wrong_protocol")
         /\ SubSeq(s, i, e - 1) = HTTP =>
              FromProtocol(s, n, i, method, target)
                = FromMajor(s, n, e + 1, method, target)
<1>1. Place(s, Slash, i, n) = e
  BY PlaceFound DEF IsAt
<1>2. ~(e > n)
  OBVIOUS
<1> QED
  BY <1>1, <1>2, Zenon DEF FromProtocol

LEMMA MajorStarts ==
  ASSUME NEW s, NEW n \in Nat, NEW i \in 1..(n + 1), NEW method, NEW target,
         IsNot(s, Dot, i, n)
  PROVE  FromMajor(s, n, i, method, target) = Stopped(More)
<1>1. Place(s, Dot, i, n) = n + 1
  BY PlaceNotFound DEF IsNot
<1> QED
  BY <1>1 DEF FromMajor

LEMMA MajorEnds ==
  ASSUME NEW s, NEW n \in Nat, NEW i \in 1..(n + 1), NEW method, NEW target,
         NEW e \in i..n, IsAt(s, Dot, i, e)
  PROVE  LET major == to_number(SubSeq(s, i, e - 1), VersionMax) IN
         /\ major = None =>
              FromMajor(s, n, i, method, target)
                = Stopped("bad_protocol_version")
         /\ major # None =>
              FromMajor(s, n, i, method, target)
                = FromMinor(s, n, e + 1, method, target, major)
<1>1. Place(s, Dot, i, n) = e
  BY PlaceFound DEF IsAt
<1>2. ~(e > n)
  OBVIOUS
<1> QED
  BY <1>1, <1>2, Zenon DEF FromMajor

LEMMA MinorStarts ==
  ASSUME NEW s, NEW n \in Nat, NEW i \in 1..(n + 1), NEW method, NEW target,
         NEW major, IsNot(s, CR, i, n)
  PROVE  FromMinor(s, n, i, method, target, major) = Stopped(More)
<1>1. Place(s, CR, i, n) = n + 1
  BY PlaceNotFound DEF IsNot
<1> QED
  BY <1>1 DEF FromMinor

LEMMA MinorEnds ==
  ASSUME NEW s, NEW n \in Nat, NEW i \in 1..(n + 1), NEW method, NEW target,
         NEW major, NEW e \in i..n, IsAt(s, CR, i, e)
  PROVE  LET minor == to_number(SubSeq(s, i, e - 1), VersionMax) IN
         /\ minor = None =>
              FromMinor(s, n, i, method, target, major)
                = Stopped("bad_protocol_version")
         /\ minor # None =>
              FromMinor(s, n, i, method, target, major)
                = FromBreak(s, n, e, method, target, version(major, minor))
<1>1. Place(s, CR, i, n) = e
  BY PlaceFound DEF IsAt
<1>2. ~(e > n)
  OBVIOUS
<1> QED
  BY <1>1, <1>2, Zenon DEF FromMinor

-----------------------------------------------------------------------------
(* The parts of a line. *)

LEMMA NameStarts ==
  ASSUME NEW s, NEW n \in Nat, NEW i \in 1..n, s[i] # CR,
         IsNot(s, Colon, i + 1, n)
  PROVE  FromLine(s, n, i) = Stopped(More)
<1>1. Place(s, Colon, i + 1, n) = n + 1
  BY PlaceNotFound DEF IsNot
<1>2. FromName(s, n, i) = Stopped(More)
  BY <1>1 DEF FromName
<1> QED
  BY <1>2 DEF FromLine

LEMMA NameEnds ==
  ASSUME NEW s, NEW n \in Nat, NEW i \in 1..n, s[i] # CR,
         NEW e \in (i + 1)..n, IsAt(s, Colon, i + 1, e)
  PROVE  FromLine(s, n, i) = FromValue(s, n, e + 1, SubSeq(s, i, e - 1))
<1>1. Place(s, Colon, i + 1, n) = e
  BY PlaceFound DEF IsAt
<1>2. FromName(s, n, i) = FromValue(s, n, e + 1, SubSeq(s, i, e - 1))
  BY <1>1 DEF FromName
<1> QED
  BY <1>2 DEF FromLine

(* There is only white space from i to n. *)
IsWhite(s, i, n) == \A j \in i..n : is_strict_whitespace(s[j])

LEMMA ValueStarts ==
  ASSUME NEW s, NEW n \in Nat, NEW i \in 1..(n + 1), NEW name, IsWhite(s, i, n)
  PROVE  FromValue(s, n, i, name) = Stopped(More)
<1> DEFINE T == {j \in 1..n : ~is_strict_whitespace(s[j])}
<1>1. IsFirst(T, i, n, n + 1)
  BY DEF IsFirst, IsWhite
<1>2. First(T, i, n) = n + 1
  BY <1>1, FirstIs
<1> QED
  BY <1>2 DEF FromValue

LEMMA ValueFound ==
  ASSUME NEW s, NEW n \in Nat, NEW i \in 1..(n + 1), NEW name,
         NEW v \in i..n, IsWhite(s, i, v - 1), ~is_strict_whitespace(s[v])
  PROVE  FromValue(s, n, i, name) =
           IF s[v] # CR THEN FromText(s, n, v, name)
           ELSE IF ~IsFieldName(name) THEN Stopped("bad_field_name")
           ELSE FromNoValue(s, n, v, name)
<1> DEFINE T == {j \in 1..n : ~is_strict_whitespace(s[j])}
<1>1. IsFirst(T, i, n, v)
  BY DEF IsFirst, IsWhite
<1>2. First(T, i, n) = v /\ ~(v > n)
  BY <1>1, FirstIs
<1> QED
  BY <1>2, Zenon DEF FromValue

LEMMA TextStarts ==
  ASSUME NEW s, NEW n \in Nat, NEW i \in 1..(n + 1), NEW name,
         \A j \in i..n : ~EndsValue(s, n, j)
  PROVE  FromText(s, n, i, name) = Stopped(More)
<1> DEFINE T == {j \in 1..n : EndsValue(s, n, j)}
<1>1. IsFirst(T, i, n, n + 1)
  BY DEF IsFirst
<1>2. First(T, i, n) = n + 1
  BY <1>1, FirstIs
<1> QED
  BY <1>2 DEF FromText

(* What the value is that begins at i and ends at e. *)
TextEnding(s, i, name, e) ==
  LET val == rtrim(Unfolded(s, i, e - i))
  IN IF s[e + 1] # LF THEN Stopped("expected_linefeed")
     ELSE IF ~IsFieldName(name) THEN Stopped("bad_field_name")
     ELSE IF ~IsFieldValue(val) THEN Stopped("bad_field_value")
     ELSE Line(name, val, e + 2)

LEMMA TextEnds ==
  ASSUME NEW s, NEW n \in Nat, NEW i \in 1..(n + 1), NEW name,
         NEW e \in i..n, EndsValue(s, n, e),
         \A j \in i..(e - 1) : ~EndsValue(s, n, j)
  PROVE  FromText(s, n, i, name) = TextEnding(s, i, name, e)
<1> DEFINE T == {j \in 1..n : EndsValue(s, n, j)}
<1>1. IsFirst(T, i, n, e)
  BY DEF IsFirst
<1>2. First(T, i, n) = e /\ ~(e > n)
  BY <1>1, FirstIs
<1> QED
  BY <1>2, Zenon DEF FromText, TextEnding

-----------------------------------------------------------------------------
(* A text that is put together of one more piece. *)

LEMMA FlattenGrows ==
  ASSUME NEW S, NEW a \in Seq(Seq(S)), NEW x \in Seq(S)
  PROVE  FlattenSeq(Append(a, x)) = FlattenSeq(a) \o x
<1> DEFINE b == Append(a, x)
<1>0. PICK N \in Nat : N = Len(a)
  BY LenProperties
<1>1. /\ b \in Seq(Seq(S)) /\ Len(b) = N + 1 /\ b[N + 1] = x
      /\ \A i \in 1..N : b[i] = a[i]
  BY <1>0, AppendProperties
<1> DEFINE g == CHOOSE f : Joins(f, b, N + 1)
<1>2. Joins(g, b, N + 1)
  <2>1. N + 1 \in Nat
    OBVIOUS
  <2>2. \E f : Joins(f, b, N + 1)
    BY <2>1, JoinExists
  <2> HIDE DEF b
  <2> QED
    BY <2>2
<1>3. FlattenSeq(b) = g[N + 1]
  <2> HIDE DEF b
  <2> QED
    BY <1>1 DEF FlattenSeq, Joins
<1> HIDE DEF g
<1>4. \A i \in 1..(N + 1) : g[i] = IF i = 1 THEN b[i] ELSE g[i - 1] \o b[i]
  BY <1>2 DEF Joins
<1>5. CASE N = 0
  <2>1. a = <<>>
    BY <1>0, <1>5, EmptySeq
  <2>2. FlattenSeq(a) = a
    BY <1>0, <1>5 DEF FlattenSeq
  <2>3. g[1] = b[1] /\ b[1] = x
    BY <1>1, <1>4, <1>5
  <2>4. <<>> \o x = x
    BY ConcatEmptySeq
  <2> QED
    BY <1>3, <1>5, <2>1, <2>2, <2>3, <2>4
<1>6. CASE N # 0
  <2> DEFINE h == CHOOSE f : Joins(f, a, N)
  <2>1. Joins(h, a, N)
    BY <1>0, JoinExists
  <2>2. FlattenSeq(a) = h[N]
    BY <1>0, <1>6 DEF FlattenSeq, Joins
  <2> HIDE DEF h
  <2>3. \A i \in 1..N : h[i] = IF i = 1 THEN a[i] ELSE h[i - 1] \o a[i]
    BY <2>1 DEF Joins
  <2> HIDE DEF b
  <2> DEFINE T == {n \in Nat : n + 1 <= N => g[n + 1] = h[n + 1]}
  <2>4. 0 \in T
    <3>1. 1 \in 1..N /\ 1 \in 1..(N + 1)
      BY <1>6
    <3> QED
      BY <1>1, <1>4, <2>3, <3>1
  <2>5. ASSUME NEW n \in Nat, n \in T PROVE n + 1 \in T
    <3> SUFFICES ASSUME n + 2 <= N PROVE g[n + 2] = h[n + 2]
      BY (n + 1) + 1 = n + 2
    <3>1. /\ n + 2 \in 1..N /\ n + 2 \in 1..(N + 1)
          /\ n + 2 # 1 /\ (n + 2) - 1 = n + 1 /\ n + 1 <= N
      OBVIOUS
    <3>2. g[n + 1] = h[n + 1]
      BY <2>5, <3>1
    <3>3. g[n + 2] = g[n + 1] \o b[n + 2]
      BY <1>4, <3>1
    <3>4. h[n + 2] = h[n + 1] \o a[n + 2]
      BY <2>3, <3>1
    <3> QED
      BY <1>1, <3>1, <3>2, <3>3, <3>4
  <2> HIDE DEF T
  <2>6. \A n \in Nat : n \in T
    BY <2>4, <2>5, Induction
  <2>7. g[N] = h[N]
    <3>1. PICK n \in Nat : n + 1 = N /\ n + 1 <= N
      <4>1. N - 1 \in Nat /\ (N - 1) + 1 = N /\ (N - 1) + 1 <= N
        BY <1>6
      <4> QED
        BY <4>1
    <3>2. n \in T
      BY <2>6
    <3>3. g[n + 1] = h[n + 1]
      BY <3>1, <3>2 DEF T
    <3> QED
      BY <3>1, <3>3
  <2>8. g[N + 1] = g[N] \o b[N + 1]
    <3>1. N + 1 \in 1..(N + 1) /\ N + 1 # 1 /\ (N + 1) - 1 = N
      BY <1>6
    <3> QED
      BY <1>4, <3>1
  <2> QED
    BY <1>1, <1>3, <2>2, <2>7, <2>8 DEF b
<1> QED
  BY <1>5, <1>6

LEMMA FlattenNothing ==
  ASSUME NEW a \in Seq({<<>>}) PROVE FlattenSeq(a) = <<>>
<1>1. \A i \in 1..Len(a) : a[i] \in Seq({})
  BY ElementOfSeq, EmptySeq
<1>2. a \in Seq(Seq({}))
  BY <1>1, LenProperties
<1>3. FlattenSeq(a) \in Seq({})
  BY <1>2, FlattenType
<1>4. PICK u \in Seq({}) : u = FlattenSeq(a)
  BY <1>3
<1>5. Len(u) = 0
  <2>1. Len(u) \in Nat /\ \A i \in 1..Len(u) : u[i] \in {}
    BY ElementOfSeq, LenProperties
  <2> QED
    BY <2>1
<1> QED
  BY <1>4, <1>5, EmptySeq

LEMMA UnfoldedNothing == ASSUME NEW s, NEW v PROVE Unfolded(s, v, 0) = <<>>
<1> DEFINE a == [i \in 1..0 |-> Adds(s, v, v + i - 1)]
<1>1. a = <<>>
  <2>1. a \in [1..0 -> {<<>>}]
    OBVIOUS
  <2>2. a \in Seq({<<>>}) /\ Len(a) = 0
    <3> HIDE DEF a
    <3> QED
      BY <2>1
  <2> QED
    BY <2>2, EmptySeq
<1>2. FlattenSeq(<<>>) = <<>>
  BY EmptySeq DEF FlattenSeq
<1> QED
  BY <1>1, <1>2 DEF Unfolded

LEMMA UnfoldedGrows ==
  ASSUME NEW s \in Seq(Byte), NEW v \in 1..Len(s), NEW k \in 0..(Len(s) - v)
  PROVE  Unfolded(s, v, k + 1) = Unfolded(s, v, k) \o Adds(s, v, v + k)
<1>0. PICK N \in Nat : N = Len(s)
  BY LenProperties
<1> DEFINE a == [i \in 1..k |-> Adds(s, v, v + i - 1)]
           b == [i \in 1..(k + 1) |-> Adds(s, v, v + i - 1)]
           x == Adds(s, v, v + k)
<1>1. \A i \in 1..(k + 1) : v + i - 1 \in 1..Len(s)
  BY <1>0
<1>2. \A i \in 1..(k + 1) : Adds(s, v, v + i - 1) \in Seq(Byte)
  BY <1>1, AddsType
<1>3. k \in Nat /\ v + (k + 1) - 1 = v + k
  BY <1>0
<1>4. x \in Seq(Byte)
  <2>1. k + 1 \in 1..(k + 1)
    BY <1>3
  <2>2. Adds(s, v, v + (k + 1) - 1) \in Seq(Byte)
    BY <1>2, <2>1
  <2> QED
    BY <1>3, <2>2
<1>5. a \in Seq(Seq(Byte)) /\ Len(a) = k
  <2>1. \A i \in 1..k : i \in 1..(k + 1)
    BY <1>3
  <2>2. a \in [1..k -> Seq(Byte)]
    BY <1>2, <2>1
  <2> HIDE DEF a
  <2> QED
    BY <1>3, <2>2
<1>6. b \in Seq(Seq(Byte)) /\ Len(b) = k + 1
  <2>1. b \in [1..(k + 1) -> Seq(Byte)]
    BY <1>2
  <2>2. k + 1 \in Nat
    BY <1>3
  <2> HIDE DEF b
  <2> QED
    BY <2>1, <2>2
<1>7. \A i \in 1..k : b[i] = a[i]
  BY <1>3
<1>8. b[k + 1] = x
  BY <1>3
<1> HIDE DEF a, b, x
<1>9. PICK c : c = Append(a, x)
  OBVIOUS
<1>10. /\ c \in Seq(Seq(Byte)) /\ Len(c) = k + 1
       /\ c[k + 1] = x /\ \A i \in 1..k : c[i] = a[i]
  BY <1>4, <1>5, <1>9, AppendProperties
<1>11. \A i \in 1..(k + 1) : b[i] = c[i]
  BY <1>3, <1>7, <1>8, <1>10
<1>12. b = c
  BY <1>6, <1>10, <1>11, SeqEqual
<1>13. FlattenSeq(b) = FlattenSeq(a) \o x
  BY <1>4, <1>5, <1>9, <1>12, FlattenGrows
<1> QED
  BY <1>13 DEF Unfolded, a, b, x

-----------------------------------------------------------------------------
(* The fields of one more line. *)

LEMMA SameNameTransitive ==
  ASSUME NEW a \in Seq(Byte), NEW b \in Seq(Byte), NEW c \in Seq(Byte),
         SameName(a, b), SameName(b, c)
  PROVE  SameName(a, c)
BY DEF SameName

(* The text of a name, and what it is of. *)
Elements(lines, name) == [i \in DOMAIN lines |-> Element(lines, i, name)]

LEMMA LineParts ==
  ASSUME NEW lines \in Seq(StringPair), NEW i \in DOMAIN lines
  PROVE  lines[i][1] \in Seq(Byte) /\ lines[i][2] \in Seq(Byte)
<1>1. lines[i] \in StringPair
  BY ElementOfSeq, LenProperties
<1> QED
  BY <1>1 DEF StringPair

LEMMA ElementsType ==
  ASSUME NEW lines \in Seq(StringPair), NEW name
  PROVE  /\ Elements(lines, name) \in Seq(Seq(Byte))
         /\ Len(Elements(lines, name)) = Len(lines)
<1>1. DOMAIN lines = 1..Len(lines) /\ Len(lines) \in Nat
  BY LenProperties
<1>2. <<>> \in Seq(Byte) /\ <<Comma, SP>> \in Seq(Byte)
  BY DEF Comma, SP, Byte
<1>3. ASSUME NEW i \in DOMAIN lines PROVE Element(lines, i, name) \in Seq(Byte)
  <2>1. lines[i][2] \in Seq(Byte)
    BY LineParts
  <2>2. <<Comma, SP>> \o lines[i][2] \in Seq(Byte)
    BY <1>2, <2>1, ConcatProperties
  <2> QED
    BY <1>2, <2>1, <2>2, Zenon DEF Element
<1>4. Elements(lines, name) \in [1..Len(lines) -> Seq(Byte)]
  BY <1>1, <1>3 DEF Elements
<1> QED
  BY <1>1, <1>4

LEMMA FieldsOfType ==
  ASSUME NEW lines \in Seq(StringPair)
  PROVE  FieldsType(FieldsOf(lines))
<1>1. ASSUME NEW name \in DOMAIN FieldsOf(lines)
      PROVE  name \in Seq(Byte) /\ FieldsOf(lines)[name] \in Seq(Byte)
  <2>1. PICK i \in DOMAIN lines : name = lines[i][1]
    BY DEF FieldsOf, Firsts
  <2>2. FieldsOf(lines)[name] = FlattenSeq(Elements(lines, name))
    BY DEF FieldsOf, Elements
  <2> QED
    BY <2>1, <2>2, LineParts, ElementsType, FlattenType
<1> QED
  BY <1>1 DEF FieldsType

LEMMA NoLinesGiveNoFields == FieldsOf(<<>>) = NoFields
<1>1. DOMAIN <<>> = {}
  OBVIOUS
<1>2. Firsts(<<>>) = {}
  BY <1>1 DEF Firsts
<1> QED
  BY <1>2 DEF FieldsOf, NoFields

(* A name is in the map if a line has it. *)
LEMMA FindsLine ==
  ASSUME NEW lines \in Seq(StringPair), NEW k \in Seq(Byte)
  PROVE  find(FieldsOf(lines), k) # {}
           <=> \E j \in DOMAIN lines : SameName(lines[j][1], k)
<1>0. DOMAIN lines = 1..Len(lines) /\ Len(lines) \in Nat
  BY LenProperties
<1>1. ASSUME NEW j \in DOMAIN lines, SameName(lines[j][1], k)
      PROVE  find(FieldsOf(lines), k) # {}
  <2> DEFINE T == {i \in DOMAIN lines : SameName(lines[i][1], k)}
  <2>1. T \subseteq Nat /\ T # {}
    BY <1>0, <1>1
  <2>2. PICK m \in T : \A i \in T : m <= i
    BY <2>1, LeastNat
  <2>3. ASSUME NEW i \in 1..(m - 1) PROVE ~SameName(lines[i][1], lines[m][1])
    <3>1. i \in DOMAIN lines /\ ~(m <= i)
      BY <1>0, <2>2
    <3>2. ~SameName(lines[i][1], k)
      BY <2>2, <3>1
    <3> QED
      BY <2>2, <3>1, <3>2, LineParts, SameNameTransitive
  <2>4. m \in Firsts(lines)
    BY <2>2, <2>3 DEF Firsts
  <2> QED
    BY <2>2, <2>4 DEF find, FieldsOf
<1>2. ASSUME find(FieldsOf(lines), k) # {}
      PROVE  \E j \in DOMAIN lines : SameName(lines[j][1], k)
  BY <1>2 DEF find, FieldsOf, Firsts
<1> QED
  BY <1>1, <1>2

LEMMA FieldsGrow ==
  ASSUME NEW lines \in Seq(StringPair), NEW k \in Seq(Byte), NEW val \in Seq(Byte)
  PROVE  FieldsOf(Append(lines, <<k, val>>)) = append(FieldsOf(lines), k, val)
<1> DEFINE all == Append(lines, <<k, val>>)
           F == FieldsOf(lines)
<1>0. PICK N \in Nat : N = Len(lines)
  BY LenProperties
<1>1. <<k, val>> \in StringPair
  BY DEF StringPair
<1>2. /\ all \in Seq(StringPair) /\ Len(all) = N + 1
      /\ \A i \in 1..N : all[i] = lines[i]
      /\ all[N + 1][1] = k /\ all[N + 1][2] = val
  BY <1>0, <1>1, AppendProperties
<1> HIDE DEF all
<1>3. DOMAIN lines = 1..N /\ DOMAIN all = 1..(N + 1)
  BY <1>0, <1>2, LenProperties
<1>4. \A i \in 1..N : lines[i][1] \in Seq(Byte) /\ lines[i][2] \in Seq(Byte)
  BY <1>3, LineParts
<1>5. \A i \in 1..N : i \in Firsts(all) <=> i \in Firsts(lines)
  BY <1>2, <1>3 DEF Firsts
<1>6. N + 1 \in Firsts(all) <=> \A j \in 1..N : ~SameName(lines[j][1], k)
  <2>1. N + 1 \in DOMAIN all /\ (N + 1) - 1 = N
    BY <1>3
  <2> QED
    BY <1>2, <2>1 DEF Firsts
<1>7. N + 1 \in Firsts(all) <=> find(F, k) = {}
  BY <1>3, <1>6, FindsLine
<1>8. Firsts(lines) \subseteq 1..N /\ Firsts(all) \subseteq 1..(N + 1)
  BY <1>3 DEF Firsts
<1> DEFINE x(name) == Element(all, N + 1, name)
<1>9. ASSUME NEW name
      PROVE  FlattenSeq(Elements(all, name))
               = FlattenSeq(Elements(lines, name)) \o x(name)
  <2> DEFINE a == Elements(lines, name)
             b == Elements(all, name)
  <2>1. a \in Seq(Seq(Byte)) /\ Len(a) = N /\ b \in Seq(Seq(Byte)) /\ Len(b) = N + 1
    BY <1>0, <1>2, ElementsType
  <2>2. \A i \in 1..N : b[i] = a[i]
    <3>1. ASSUME NEW i \in 1..N PROVE Element(all, i, name) = Element(lines, i, name)
      BY <1>2, <1>5, Zenon DEF Element
    <3> QED
      BY <1>3, <3>1 DEF Elements
  <2>3. b[N + 1] = x(name)
    BY <1>3 DEF Elements
  <2> HIDE DEF a, b, x
  <2>4. x(name) \in Seq(Byte)
    BY <2>1, <2>3, ElementOfSeq
  <2>5. PICK c : c = Append(a, x(name))
    OBVIOUS
  <2>6. /\ c \in Seq(Seq(Byte)) /\ Len(c) = N + 1
        /\ c[N + 1] = x(name) /\ \A i \in 1..N : c[i] = a[i]
    BY <2>1, <2>4, <2>5, AppendProperties
  <2>7. ASSUME NEW i \in 1..(N + 1) PROVE b[i] = c[i]
    <3>1. i \in 1..N \/ i = N + 1
      OBVIOUS
    <3> QED
      BY <2>2, <2>3, <2>6, <3>1, Zenon
  <2>8. b = c
    BY <2>1, <2>6, <2>7, SeqEqual
  <2>9. FlattenSeq(c) = FlattenSeq(a) \o x(name)
    BY <2>1, <2>4, <2>5, FlattenGrows
  <2> QED
    BY <2>8, <2>9 DEF a, b
<1>10. ASSUME NEW name \in DOMAIN F
       PROVE  /\ F[name] = FlattenSeq(Elements(lines, name))
              /\ F[name] \in Seq(Byte) /\ name \in Seq(Byte)
  <2>1. F[name] = FlattenSeq(Elements(lines, name))
    BY DEF FieldsOf, Elements
  <2> QED
    BY <2>1, FieldsOfType DEF FieldsType
<1>11. DOMAIN F = {lines[i][1] : i \in Firsts(lines)}
  BY DEF FieldsOf
<1>12. FieldsOf(all) = [name \in {all[i][1] : i \in Firsts(all)} |->
                          FlattenSeq(Elements(all, name))]
  BY DEF FieldsOf, Elements
<1> HIDE DEF F
<1>13. CASE find(F, k) = {}
  <2>1. N + 1 \in Firsts(all) /\ \A j \in 1..N : ~SameName(lines[j][1], k)
    BY <1>6, <1>7, <1>13
  <2>2. {all[i][1] : i \in Firsts(all)} = DOMAIN F \cup {k}
    BY <1>2, <1>5, <1>8, <1>11, <2>1
  <2>3. ASSUME NEW name \in DOMAIN F PROVE ~SameName(k, name) /\ name # k
    <3>1. ~SameName(name, k)
      BY <1>8, <1>11, <2>1
    <3> QED
      BY <1>10, <3>1, SameNameSymmetric, SameNameReflexive
  <2>4. ASSUME NEW name \in DOMAIN F
        PROVE  FlattenSeq(Elements(all, name)) = F[name]
    <3>1. x(name) = <<>>
      BY <1>2, <2>3 DEF Element
    <3>2. F[name] \o <<>> = F[name]
      BY <1>10, ConcatEmptySeq
    <3> HIDE DEF x
    <3> QED
      BY <1>9, <1>10, <3>1, <3>2
  <2>5. FlattenSeq(Elements(all, k)) = val
    <3>1. \A i \in DOMAIN lines : Element(lines, i, k) = <<>>
      BY <1>3, <2>1 DEF Element
    <3>2. Elements(lines, k) \in [1..N -> {<<>>}]
      BY <1>3, <3>1 DEF Elements
    <3>3. FlattenSeq(Elements(lines, k)) = <<>>
      BY <3>2, FlattenNothing
    <3>4. x(k) = val
      BY <1>2, <2>1, SameNameReflexive DEF Element
    <3>5. <<>> \o val = val
      BY ConcatEmptySeq
    <3> HIDE DEF x
    <3> QED
      BY <1>9, <3>3, <3>4, <3>5
  <2>6. append(F, k, val) = [name \in DOMAIN F \cup {k} |->
                               IF name = k THEN val ELSE F[name]]
    BY <1>13 DEF append
  <2>7. \A name \in DOMAIN F \cup {k} :
          FlattenSeq(Elements(all, name)) = IF name = k THEN val ELSE F[name]
    BY <2>3, <2>4, <2>5
  <2> QED
    BY <1>12, <2>2, <2>6, <2>7 DEF F, all
<1>14. CASE find(F, k) # {}
  <2>1. N + 1 \notin Firsts(all)
    BY <1>7, <1>14
  <2>2. {all[i][1] : i \in Firsts(all)} = DOMAIN F
    <3>1. Firsts(all) = Firsts(lines)
      <4>1. \A i \in 1..(N + 1) : i # N + 1 => i \in 1..N
        OBVIOUS
      <4>2. \A i \in 1..N : i \in 1..(N + 1)
        OBVIOUS
      <4> QED
        BY <1>5, <1>8, <2>1, <4>1, <4>2, Zenon
    <3> QED
      BY <1>2, <1>8, <1>11, <3>1
  <2>3. ASSUME NEW name \in DOMAIN F
        PROVE  FlattenSeq(Elements(all, name))
                 = IF SameName(name, k) /\ val # <<>>
                   THEN F[name] \o <<Comma, SP>> \o val ELSE F[name]
    <3>1. SameName(name, k) <=> SameName(k, name)
      BY <1>10, SameNameSymmetric
    <3>2. CASE SameName(name, k) /\ val # <<>>
      <4>1. x(name) = <<Comma, SP>> \o val
        BY <1>2, <2>1, <3>1, <3>2, Zenon DEF Element
      <4>2. <<Comma, SP>> \in Seq(Byte)
        BY DEF Comma, SP, Byte
      <4>3. F[name] \o (<<Comma, SP>> \o val) = F[name] \o <<Comma, SP>> \o val
        BY <1>10, <4>2, ConcatAssociative
      <4> HIDE DEF x
      <4> QED
        BY <1>9, <1>10, <3>2, <4>1, <4>3, Zenon
    <3>3. CASE ~(SameName(name, k) /\ val # <<>>)
      <4>1. x(name) = <<>>
        BY <1>2, <3>1, <3>3 DEF Element
      <4>2. F[name] \o <<>> = F[name]
        BY <1>10, ConcatEmptySeq
      <4> HIDE DEF x
      <4> QED
        BY <1>9, <1>10, <3>3, <4>1, <4>2, Zenon
    <3> QED
      BY <3>2, <3>3
  <2>4. append(F, k, val) = [name \in DOMAIN F |->
                               IF SameName(name, k) /\ val # <<>>
                               THEN F[name] \o <<Comma, SP>> \o val
                               ELSE F[name]]
    BY <1>14 DEF append
  <2> QED
    BY <1>12, <2>2, <2>3, <2>4 DEF F, all
<1> QED
  BY <1>13, <1>14

-----------------------------------------------------------------------------
(* What the states of the parser say of the text s, of which p characters  *)
(* have been taken, of the buffer b, of the name and of the header h.      *)

HeaderOf(method, target, ver, fields) ==
  [method |-> method, target |-> target, version |-> ver, fields |-> fields]

(* b is the text from i on, which has no c. *)
Collects(s, p, b, c, i) ==
  i \in 1..(p + 1) /\ b = SubSeq(s, i, p) /\ IsNot(s, c, i, p)

InMethod(s, p, b, h) ==
  /\ Collects(s, p, b, SP, 1)
  /\ h = HeaderOf(<<>>, <<>>, version(0, 0), NoFields)

InTarget(s, p, b, h) ==
  \E i, method :
    /\ Collects(s, p, b, SP, i)
    /\ h = HeaderOf(method, <<>>, version(0, 0), NoFields)
    /\ \A n \in p..Len(s) : Meaning(s, n) = FromTarget(s, n, i, method)

InProtocol(s, p, b, h) ==
  \E i, method, target :
    /\ Collects(s, p, b, Slash, i)
    /\ h = HeaderOf(method, target, version(0, 0), NoFields)
    /\ \A n \in p..Len(s) :
         Meaning(s, n) = FromProtocol(s, n, i, method, target)

InMajor(s, p, b, h) ==
  \E i, method, target :
    /\ Collects(s, p, b, Dot, i)
    /\ h = HeaderOf(method, target, version(0, 0), NoFields)
    /\ \A n \in p..Len(s) : Meaning(s, n) = FromMajor(s, n, i, method, target)

InMinor(s, p, b, h) ==
  \E i, method, target, major :
    /\ Collects(s, p, b, CR, i)
    /\ h = HeaderOf(method, target, version(major, 0), NoFields)
    /\ \A n \in p..Len(s) :
         Meaning(s, n) = FromMinor(s, n, i, method, target, major)

AtBreak(s, p, h) ==
  \E method, target, ver :
    /\ p \in 1..Len(s)
    /\ h = HeaderOf(method, target, ver, NoFields)
    /\ \A n \in p..Len(s) :
         Meaning(s, n) = FromBreak(s, n, p, method, target, ver)

LEMMA CollectsNothing ==
  ASSUME NEW s \in Seq(Byte), NEW p \in 0..Len(s), NEW c
  PROVE  Collects(s, p, <<>>, c, p + 1)
<1>0. PICK N \in Nat : N = Len(s)
  BY LenProperties
<1>1. \A j \in (p + 1)..p : s[j] # c
  OBVIOUS
<1>2. SubSeq(s, p + 1, p) = <<>>
  OBVIOUS
<1>3. p + 1 \in 1..(p + 1)
  BY <1>0
<1> QED
  BY <1>1, <1>2, <1>3 DEF Collects, IsNot

LEMMA CollectsOne ==
  ASSUME NEW s \in Seq(Byte), NEW p \in Nat, p + 1 <= Len(s), NEW b, NEW c,
         NEW i, Collects(s, p, b, c, i), s[p + 1] # c
  PROVE  Collects(s, p + 1, Append(b, s[p + 1]), c, i)
<1>0. PICK N \in Nat : N = Len(s)
  BY LenProperties
<1>1. i \in 1..(p + 1) /\ b = SubSeq(s, i, p) /\ \A j \in i..p : s[j] # c
  BY DEF Collects, IsNot
<1>2. i \in 1..((p + 1) + 1)
  BY <1>1
<1>3. \A j \in i..(p + 1) : s[j] # c
  BY <1>1
<1>4. p \in 0..(Len(s) - 1)
  BY <1>0
<1>5. SubSeq(s, i, p + 1) = Append(SubSeq(s, i, p), s[p + 1])
  BY <1>1, <1>4, PartGrows
<1> QED
  BY <1>1, <1>2, <1>3, <1>5 DEF Collects, IsNot

LEMMA CollectsEnd ==
  ASSUME NEW s, NEW p \in Nat, NEW b, NEW c,
         NEW i, NEW e \in Nat, Collects(s, p, b, c, i), e = p + 1, s[e] = c
  PROVE  i \in 1..(p + 1) /\ IsAt(s, c, i, e)
<1>1. e - 1 = p
  OBVIOUS
<1> QED
  BY <1>1, Zenon DEF Collects, IsNot, IsAt

(* Where the request line has not ended, more is needed. *)
LEMMA LineNeedsMore ==
  ASSUME NEW s \in Seq(Byte), NEW p \in 0..Len(s), NEW b, NEW h,
         \/ InMethod(s, p, b, h) \/ InTarget(s, p, b, h)
         \/ InProtocol(s, p, b, h) \/ InMajor(s, p, b, h)
         \/ InMinor(s, p, b, h) \/ AtBreak(s, p, h)
  PROVE  Meaning(s, p) = Stopped(More)
<1>0. p \in Nat /\ p \in p..Len(s)
  BY LenProperties
<1>1. CASE InMethod(s, p, b, h)
  BY <1>0, <1>1, MeaningStarts DEF InMethod, Collects
<1>2. CASE InTarget(s, p, b, h)
  BY <1>0, <1>2, TargetStarts DEF InTarget, Collects
<1>3. CASE InProtocol(s, p, b, h)
  BY <1>0, <1>3, ProtocolStarts DEF InProtocol, Collects
<1>4. CASE InMajor(s, p, b, h)
  BY <1>0, <1>4, MajorStarts DEF InMajor, Collects
<1>5. CASE InMinor(s, p, b, h)
  BY <1>0, <1>5, MinorStarts DEF InMinor, Collects
<1>6. CASE AtBreak(s, p, h)
  BY <1>0, <1>6 DEF AtBreak, FromBreak
<1> QED
  BY <1>1, <1>2, <1>3, <1>4, <1>5, <1>6

(* A character that does not end a part is collected. *)
LEMMA LineCollects ==
  ASSUME NEW s \in Seq(Byte), NEW p \in Nat, p + 1 <= Len(s), NEW b, NEW h
  PROVE  LET x == s[p + 1] IN
         /\ InMethod(s, p, b, h) /\ x # SP
              => InMethod(s, p + 1, Append(b, x), h)
         /\ InTarget(s, p, b, h) /\ x # SP
              => InTarget(s, p + 1, Append(b, x), h)
         /\ InProtocol(s, p, b, h) /\ x # Slash
              => InProtocol(s, p + 1, Append(b, x), h)
         /\ InMajor(s, p, b, h) /\ x # Dot
              => InMajor(s, p + 1, Append(b, x), h)
         /\ InMinor(s, p, b, h) /\ x # CR
              => InMinor(s, p + 1, Append(b, x), h)
<1>1. (p + 1)..Len(s) \subseteq p..Len(s)
  BY LenProperties
<1> DEFINE x == s[p + 1]
<1>2. \A c, i : Collects(s, p, b, c, i) /\ x # c
                  => Collects(s, p + 1, Append(b, x), c, i)
  BY CollectsOne
<1> HIDE DEF x
<1>3. ASSUME InMethod(s, p, b, h), x # SP PROVE InMethod(s, p + 1, Append(b, x), h)
  BY <1>2, <1>3 DEF InMethod
<1>4. ASSUME InTarget(s, p, b, h), x # SP PROVE InTarget(s, p + 1, Append(b, x), h)
  BY <1>1, <1>2, <1>4 DEF InTarget
<1>5. ASSUME InProtocol(s, p, b, h), x # Slash
      PROVE  InProtocol(s, p + 1, Append(b, x), h)
  BY <1>1, <1>2, <1>5 DEF InProtocol
<1>6. ASSUME InMajor(s, p, b, h), x # Dot PROVE InMajor(s, p + 1, Append(b, x), h)
  BY <1>1, <1>2, <1>6 DEF InMajor
<1>7. ASSUME InMinor(s, p, b, h), x # CR PROVE InMinor(s, p + 1, Append(b, x), h)
  BY <1>1, <1>2, <1>7 DEF InMinor
<1> QED
  BY <1>3, <1>4, <1>5, <1>6, <1>7 DEF x

(* The steps from a part to the next one. *)
LEMMA MethodStep ==
  ASSUME NEW s \in Seq(Byte), NEW p \in Nat, p + 1 <= Len(s), NEW b, NEW h,
         InMethod(s, p, b, h), s[p + 1] = SP
  PROVE  /\ IsMethod(b) => InTarget(s, p + 1, <<>>, [h EXCEPT !.method = b])
         /\ ~IsMethod(b) => Meaning(s, p + 1) = Stopped("bad_request_method")
<1>0. PICK e \in Nat : e = p + 1 /\ e \in 0..Len(s)
  BY LenProperties
<1>1. IsAt(s, SP, 1, e) /\ b = SubSeq(s, 1, e - 1)
  <2>1. s[e] = SP /\ Collects(s, p, b, SP, 1) /\ e = p + 1
    BY <1>0 DEF InMethod
  <2>2. IsAt(s, SP, 1, e)
    BY <2>1, CollectsEnd
  <2>3. e - 1 = p
    BY <2>1
  <2> QED
    BY <2>1, <2>2, <2>3, Zenon DEF Collects
<1>2. ASSUME NEW n \in e..Len(s)
      PROVE  /\ IsMethod(b) => Meaning(s, n) = FromTarget(s, n, e + 1, b)
             /\ ~IsMethod(b) => Meaning(s, n) = Stopped("bad_request_method")
  <2>1. n \in Nat /\ e \in 1..n
    BY <1>0
  <2> QED
    BY <1>1, <2>1, MethodEnds
<1>3. e \in e..Len(s)
  BY <1>0
<1>4. Collects(s, e, <<>>, SP, e + 1)
  BY <1>0, CollectsNothing
<1>5. [h EXCEPT !.method = b] = HeaderOf(b, <<>>, version(0, 0), NoFields)
  BY DEF InMethod, HeaderOf
<1>6. IsMethod(b) => InTarget(s, e, <<>>, [h EXCEPT !.method = b])
  BY <1>2, <1>4, <1>5 DEF InTarget
<1> QED
  BY <1>0, <1>2, <1>3, <1>6

LEMMA TargetStep ==
  ASSUME NEW s \in Seq(Byte), NEW p \in Nat, p + 1 <= Len(s), NEW b, NEW h,
         InTarget(s, p, b, h), s[p + 1] = SP
  PROVE  /\ IsTarget(b) => InProtocol(s, p + 1, <<>>, [h EXCEPT !.target = b])
         /\ ~IsTarget(b) => Meaning(s, p + 1) = Stopped("bad_request_target")
<1>0. PICK e \in Nat : e = p + 1 /\ e \in 0..Len(s)
  BY LenProperties
<1>1. PICK i, method :
        /\ Collects(s, p, b, SP, i)
        /\ h = HeaderOf(method, <<>>, version(0, 0), NoFields)
        /\ \A n \in p..Len(s) : Meaning(s, n) = FromTarget(s, n, i, method)
  BY DEF InTarget
<1>2. i \in 1..e /\ IsAt(s, SP, i, e) /\ b = SubSeq(s, i, e - 1)
  <2>1. s[e] = SP /\ Collects(s, p, b, SP, i) /\ e = p + 1
    BY <1>0, <1>1
  <2>2. i \in 1..(p + 1) /\ IsAt(s, SP, i, e)
    BY <2>1, CollectsEnd
  <2>3. e - 1 = p
    BY <2>1
  <2> QED
    BY <2>1, <2>2, <2>3, Zenon DEF Collects
<1>3. ASSUME NEW n \in e..Len(s)
      PROVE  /\ IsTarget(b) =>
                  Meaning(s, n) = FromProtocol(s, n, e + 1, method, b)
             /\ ~IsTarget(b) => Meaning(s, n) = Stopped("bad_request_target")
  <2>1. n \in Nat /\ e \in i..n /\ n \in p..Len(s) /\ i \in 1..(n + 1)
    BY <1>0, <1>2
  <2>2. Meaning(s, n) = FromTarget(s, n, i, method)
    BY <1>1, <2>1
  <2> QED
    BY <1>2, <2>1, <2>2, TargetEnds
<1>4. e \in e..Len(s)
  BY <1>0
<1>5. Collects(s, e, <<>>, Slash, e + 1)
  BY <1>0, CollectsNothing
<1>6. [h EXCEPT !.target = b] = HeaderOf(method, b, version(0, 0), NoFields)
  BY <1>1 DEF HeaderOf
<1>7. IsTarget(b) => InProtocol(s, e, <<>>, [h EXCEPT !.target = b])
  BY <1>3, <1>5, <1>6 DEF InProtocol
<1> QED
  BY <1>0, <1>3, <1>4, <1>7

LEMMA ProtocolStep ==
  ASSUME NEW s \in Seq(Byte), NEW p \in Nat, p + 1 <= Len(s), NEW b, NEW h,
         InProtocol(s, p, b, h), s[p + 1] = Slash
  PROVE  /\ b = HTTP => InMajor(s, p + 1, <<>>, h)
         /\ b # HTTP => Meaning(s, p + 1) = Stopped("wrong_protocol")
<1>0. PICK e \in Nat : e = p + 1 /\ e \in 0..Len(s)
  BY LenProperties
<1>1. PICK i, method, target :
        /\ Collects(s, p, b, Slash, i)
        /\ h = HeaderOf(method, target, version(0, 0), NoFields)
        /\ \A n \in p..Len(s) :
             Meaning(s, n) = FromProtocol(s, n, i, method, target)
  BY DEF InProtocol
<1>2. i \in 1..e /\ IsAt(s, Slash, i, e) /\ b = SubSeq(s, i, e - 1)
  <2>1. s[e] = Slash /\ Collects(s, p, b, Slash, i) /\ e = p + 1
    BY <1>0, <1>1
  <2>2. i \in 1..(p + 1) /\ IsAt(s, Slash, i, e)
    BY <2>1, CollectsEnd
  <2>3. e - 1 = p
    BY <2>1
  <2> QED
    BY <2>1, <2>2, <2>3, Zenon DEF Collects
<1>3. ASSUME NEW n \in e..Len(s)
      PROVE  /\ b = HTTP =>
                  Meaning(s, n) = FromMajor(s, n, e + 1, method, target)
             /\ b # HTTP => Meaning(s, n) = Stopped("wrong_protocol")
  <2>1. n \in Nat /\ e \in i..n /\ n \in p..Len(s) /\ i \in 1..(n + 1)
    BY <1>0, <1>2
  <2>2. Meaning(s, n) = FromProtocol(s, n, i, method, target)
    BY <1>1, <2>1
  <2> QED
    BY <1>2, <2>1, <2>2, ProtocolEnds
<1>4. e \in e..Len(s)
  BY <1>0
<1>5. Collects(s, e, <<>>, Dot, e + 1)
  BY <1>0, CollectsNothing
<1>6. b = HTTP => InMajor(s, e, <<>>, h)
  BY <1>1, <1>3, <1>5 DEF InMajor
<1> QED
  BY <1>0, <1>3, <1>4, <1>6

LEMMA MajorStep ==
  ASSUME NEW s \in Seq(Byte), NEW p \in Nat, p + 1 <= Len(s), NEW b, NEW h,
         InMajor(s, p, b, h), s[p + 1] = Dot,
         NEW val, val = to_number(b, VersionMax)
  PROVE  /\ val # None =>
              InMinor(s, p + 1, <<>>, [h EXCEPT !.version.major = val])
         /\ val = None => Meaning(s, p + 1) = Stopped("bad_protocol_version")
<1>0. PICK e \in Nat : e = p + 1 /\ e \in 0..Len(s)
  BY LenProperties
<1>1. PICK i, method, target :
        /\ Collects(s, p, b, Dot, i)
        /\ h = HeaderOf(method, target, version(0, 0), NoFields)
        /\ \A n \in p..Len(s) :
             Meaning(s, n) = FromMajor(s, n, i, method, target)
  BY DEF InMajor
<1>2. i \in 1..e /\ IsAt(s, Dot, i, e) /\ b = SubSeq(s, i, e - 1)
  <2>1. s[e] = Dot /\ Collects(s, p, b, Dot, i) /\ e = p + 1
    BY <1>0, <1>1
  <2>2. i \in 1..(p + 1) /\ IsAt(s, Dot, i, e)
    BY <2>1, CollectsEnd
  <2>3. e - 1 = p
    BY <2>1
  <2> QED
    BY <2>1, <2>2, <2>3, Zenon DEF Collects
<1>3. ASSUME NEW n \in e..Len(s)
      PROVE  /\ val # None =>
                  Meaning(s, n) = FromMinor(s, n, e + 1, method, target, val)
             /\ val = None => Meaning(s, n) = Stopped("bad_protocol_version")
  <2>1. n \in Nat /\ e \in i..n /\ n \in p..Len(s) /\ i \in 1..(n + 1)
    BY <1>0, <1>2
  <2>2. Meaning(s, n) = FromMajor(s, n, i, method, target)
    BY <1>1, <2>1
  <2> QED
    BY <1>2, <2>1, <2>2, MajorEnds
<1>4. e \in e..Len(s)
  BY <1>0
<1>5. Collects(s, e, <<>>, CR, e + 1)
  BY <1>0, CollectsNothing
<1>6. [h EXCEPT !.version.major = val]
        = HeaderOf(method, target, version(val, 0), NoFields)
  BY <1>1 DEF HeaderOf, version
<1>7. val # None => InMinor(s, e, <<>>, [h EXCEPT !.version.major = val])
  BY <1>3, <1>5, <1>6 DEF InMinor
<1> QED
  BY <1>0, <1>3, <1>4, <1>7

LEMMA MinorStep ==
  ASSUME NEW s \in Seq(Byte), NEW p \in Nat, p + 1 <= Len(s), NEW b, NEW h,
         InMinor(s, p, b, h), s[p + 1] = CR,
         NEW val, val = to_number(b, VersionMax)
  PROVE  /\ val # None => AtBreak(s, p + 1, [h EXCEPT !.version.minor = val])
         /\ val = None => Meaning(s, p + 1) = Stopped("bad_protocol_version")
<1>0. PICK e \in Nat : e = p + 1 /\ e \in 1..Len(s)
  BY LenProperties
<1>1. PICK i, method, target, major :
        /\ Collects(s, p, b, CR, i)
        /\ h = HeaderOf(method, target, version(major, 0), NoFields)
        /\ \A n \in p..Len(s) :
             Meaning(s, n) = FromMinor(s, n, i, method, target, major)
  BY DEF InMinor
<1>2. i \in 1..e /\ IsAt(s, CR, i, e) /\ b = SubSeq(s, i, e - 1)
  <2>1. s[e] = CR /\ Collects(s, p, b, CR, i) /\ e = p + 1
    BY <1>0, <1>1
  <2>2. i \in 1..(p + 1) /\ IsAt(s, CR, i, e)
    BY <2>1, CollectsEnd
  <2>3. e - 1 = p
    BY <2>1
  <2> QED
    BY <2>1, <2>2, <2>3, Zenon DEF Collects
<1>3. ASSUME NEW n \in e..Len(s)
      PROVE  /\ val # None =>
                  Meaning(s, n)
                    = FromBreak(s, n, e, method, target, version(major, val))
             /\ val = None => Meaning(s, n) = Stopped("bad_protocol_version")
  <2>1. n \in Nat /\ e \in i..n /\ n \in p..Len(s) /\ i \in 1..(n + 1)
    BY <1>0, <1>2
  <2>2. Meaning(s, n) = FromMinor(s, n, i, method, target, major)
    BY <1>1, <2>1
  <2> QED
    BY <1>2, <2>1, <2>2, MinorEnds
<1>4. e \in e..Len(s)
  BY <1>0
<1>5. [h EXCEPT !.version.minor = val]
        = HeaderOf(method, target, version(major, val), NoFields)
  BY <1>1 DEF HeaderOf, version
<1>6. val # None => AtBreak(s, e, [h EXCEPT !.version.minor = val])
  BY <1>0, <1>3, <1>5 DEF AtBreak
<1> QED
  BY <1>0, <1>3, <1>4, <1>6

-----------------------------------------------------------------------------
(* The lines before the place L have been read, and h is what they gave.   *)
LinesRead(s, p, L, h, lines) ==
  /\ lines \in Seq(StringPair)
  /\ L \in 1..(p + 1)
  /\ \E method, target, ver :
       /\ h = HeaderOf(method, target, ver, FieldsOf(lines))
       /\ \A n \in p..Len(s) :
            Meaning(s, n) = Reads(s, n, L, method, target, ver, lines)

LEMMA LinesStop ==
  ASSUME NEW s \in Seq(Byte), NEW p \in Nat, NEW L, NEW h, NEW lines,
         LinesRead(s, p, L, h, lines), NEW n \in p..Len(s),
         NEW code, code \notin {"line", "completed"},
         FromLine(s, n, L) = Stopped(code)
  PROVE  Meaning(s, n) = Stopped(code)
<1>1. PICK method, target, ver :
         Meaning(s, n) = Reads(s, n, L, method, target, ver, lines)
  BY DEF LinesRead
<1>2. n \in 0..Len(s) /\ L \in 1..(n + 1) /\ lines \in Seq(StringPair)
  BY LenProperties DEF LinesRead
<1>3. Reads(s, n, L, method, target, ver, lines) = Stopped(code)
  BY <1>2, ReadsStop
<1> QED
  BY <1>1, <1>3

LEMMA LinesEnd ==
  ASSUME NEW s \in Seq(Byte), NEW p \in Nat, NEW L, NEW h, NEW lines,
         LinesRead(s, p, L, h, lines), NEW n \in p..Len(s),
         FromLine(s, n, L) = Stopped("completed")
  PROVE  Meaning(s, n) = [ec |-> "completed", header |-> h, lines |-> lines]
<1>1. PICK method, target, ver :
         /\ h = HeaderOf(method, target, ver, FieldsOf(lines))
         /\ Meaning(s, n) = Reads(s, n, L, method, target, ver, lines)
  BY DEF LinesRead
<1>2. n \in 0..Len(s) /\ L \in 1..(n + 1) /\ lines \in Seq(StringPair)
  BY LenProperties DEF LinesRead
<1>3. Reads(s, n, L, method, target, ver, lines)
        = [ec |-> "completed", header |-> h, lines |-> lines]
  <2>1. Reads(s, n, L, method, target, ver, lines)
          = [ec |-> "completed",
             header |-> [method |-> method, target |-> target,
                         version |-> ver, fields |-> FieldsOf(lines)],
             lines |-> lines]
    BY <1>2, ReadsEnd
  <2> QED
    BY <1>1, <2>1, Zenon DEF HeaderOf
<1> QED
  BY <1>1, <1>3

LEMMA LinesReadNext ==
  ASSUME NEW s \in Seq(Byte), NEW p \in Nat, NEW L, NEW h, NEW lines,
         LinesRead(s, p, L, h, lines), NEW q \in p..Len(s),
         NEW name \in Seq(Byte), NEW val \in Seq(Byte), NEW next \in 1..(q + 1),
         \A n \in q..Len(s) : FromLine(s, n, L) = Line(name, val, next)
  PROVE  LinesRead(s, q, next,
                   [h EXCEPT !.fields = append(@, name, val)],
                   Append(lines, <<name, val>>))
<1> DEFINE all == Append(lines, <<name, val>>)
<1>1. PICK method, target, ver :
         /\ h = HeaderOf(method, target, ver, FieldsOf(lines))
         /\ \A n \in p..Len(s) :
              Meaning(s, n) = Reads(s, n, L, method, target, ver, lines)
  BY DEF LinesRead
<1>2. L \in 1..(p + 1) /\ lines \in Seq(StringPair) /\ <<name, val>> \in StringPair
  BY DEF LinesRead, StringPair
<1>3. all \in Seq(StringPair)
  BY <1>2, AppendProperties
<1>4. ASSUME NEW n \in q..Len(s)
      PROVE  Meaning(s, n) = Reads(s, n, next, method, target, ver, all)
  <2>1. n \in 0..Len(s) /\ L \in 1..(n + 1) /\ n \in p..Len(s)
    BY <1>2, LenProperties
  <2>2. FromLine(s, n, L) = Line(name, val, next)
    OBVIOUS
  <2>3. Reads(s, n, L, method, target, ver, lines)
          = Reads(s, n, next, method, target, ver, all)
    BY <1>2, <2>1, <2>2, ReadsNext
  <2> QED
    BY <1>1, <2>1, <2>3
<1>5. FieldsOf(all) = append(FieldsOf(lines), name, val)
  BY <1>2, FieldsGrow
<1> HIDE DEF all
<1>6. [h EXCEPT !.fields = append(@, name, val)]
        = HeaderOf(method, target, ver, FieldsOf(all))
  BY <1>1, <1>5 DEF HeaderOf
<1>7. LinesRead(s, q, next, [h EXCEPT !.fields = append(@, name, val)], all)
  BY <1>3, <1>4, <1>6 DEF LinesRead
<1> QED
  BY <1>7 DEF all

LEMMA LinesLater ==
  ASSUME NEW s \in Seq(Byte), NEW p \in Nat, NEW L, NEW h, NEW lines,
         LinesRead(s, p, L, h, lines), NEW q \in p..Len(s)
  PROVE  LinesRead(s, q, L, h, lines)
<1>1. q..Len(s) \subseteq p..Len(s) /\ \A i \in 1..(p + 1) : i \in 1..(q + 1)
  BY LenProperties
<1> QED
  BY <1>1, Zenon DEF LinesRead

-----------------------------------------------------------------------------
(* The states of the fields. *)

AtLine(s, p, h) == \E lines : LinesRead(s, p, p + 1, h, lines)

InName(s, p, b, h) ==
  \E L, lines :
    /\ LinesRead(s, p, L, h, lines)
    /\ L \in 1..p /\ s[L] # CR /\ IsNot(s, Colon, L + 1, p)
    /\ b = SubSeq(s, L, p)

BeforeValue(s, p, name, h) ==
  \E L, lines, c :
    /\ LinesRead(s, p, L, h, lines)
    /\ c \in 1..(p + 1) /\ IsWhite(s, c, p)
    /\ \A n \in p..Len(s) : FromLine(s, n, L) = FromValue(s, n, c, name)

(* The '\r' at p ends a line without a value, which is in the header. *)
NoValueBreaks(s, p, h) ==
  \E L, lines, name, g :
    /\ LinesRead(s, p, L, g, lines)
    /\ h = [g EXCEPT !.fields = append(@, name, <<>>)]
    /\ p \in 1..Len(s) /\ name \in Seq(Byte)
    /\ \A n \in p..Len(s) : FromLine(s, n, L) = FromNoValue(s, n, p, name)

AtLastBreak(s, p, h) ==
  p \in 1..Len(s) /\ s[p] = CR /\ \E lines : LinesRead(s, p, p, h, lines)

(* The first p characters have no end of the value at v, and b is it. *)
ValueRead(s, p, v, b) ==
  /\ v \in 1..p
  /\ \A j \in v..p : ~EndsValue(s, p, j)
  /\ b = Unfolded(s, v, p + 1 - v)

InText(s, p, v) == s[p] # CR /\ ~StartsLine(s, v, p + 1)

TextBreaks(s, p) == s[p] = CR

TextBroken(s, p, v) == p > v /\ s[p - 1] = CR /\ s[p] = LF

Continues(s, p, v) ==
  is_strict_whitespace(s[p]) /\ StartsLine(s, v, p + 1)

(* The value that is read, which begins at v. *)
OfValue(s, p, v, b, name, h) ==
  /\ ValueRead(s, p, v, b)
  /\ \E L, lines :
       /\ LinesRead(s, p, L, h, lines)
       /\ \A n \in p..Len(s) : FromLine(s, n, L) = FromText(s, n, v, name)

LEMMA AtLineMore ==
  ASSUME NEW s \in Seq(Byte), NEW p \in 0..Len(s), NEW h, AtLine(s, p, h)
  PROVE  Meaning(s, p) = Stopped(More)
<1>0. p \in Nat /\ p \in p..Len(s) /\ p + 1 > p
  BY LenProperties
<1>1. FromLine(s, p, p + 1) = Stopped(More)
  BY <1>0 DEF FromLine
<1>2. PICK lines : LinesRead(s, p, p + 1, h, lines)
  BY DEF AtLine
<1>3. More \notin {"line", "completed"}
  BY DEF More
<1> QED
  BY <1>0, <1>1, <1>2, <1>3, LinesStop

LEMMA InNameMore ==
  ASSUME NEW s \in Seq(Byte), NEW p \in 0..Len(s), NEW b, NEW h,
         InName(s, p, b, h)
  PROVE  Meaning(s, p) = Stopped(More)
<1>0. p \in Nat /\ p \in p..Len(s)
  BY LenProperties
<1>1. PICK L, lines :
    /\ LinesRead(s, p, L, h, lines)
    /\ L \in 1..p /\ s[L] # CR /\ IsNot(s, Colon, L + 1, p)
  BY DEF InName
<1>2. FromLine(s, p, L) = Stopped(More)
  BY <1>0, <1>1, NameStarts
<1>3. More \notin {"line", "completed"}
  BY DEF More
<1> QED
  BY <1>0, <1>1, <1>2, <1>3, LinesStop

LEMMA BeforeValueMore ==
  ASSUME NEW s \in Seq(Byte), NEW p \in 0..Len(s), NEW name, NEW h,
         BeforeValue(s, p, name, h)
  PROVE  Meaning(s, p) = Stopped(More)
<1>0. p \in Nat /\ p \in p..Len(s)
  BY LenProperties
<1>1. PICK L, lines, c :
    /\ LinesRead(s, p, L, h, lines)
    /\ c \in 1..(p + 1) /\ IsWhite(s, c, p)
    /\ \A n \in p..Len(s) : FromLine(s, n, L) = FromValue(s, n, c, name)
  BY DEF BeforeValue
<1>2. FromLine(s, p, L) = Stopped(More)
  BY <1>0, <1>1, ValueStarts
<1>3. More \notin {"line", "completed"}
  BY DEF More
<1> QED
  BY <1>0, <1>1, <1>2, <1>3, LinesStop

LEMMA NoValueMore ==
  ASSUME NEW s \in Seq(Byte), NEW p \in 0..Len(s), NEW h,
         NoValueBreaks(s, p, h)
  PROVE  Meaning(s, p) = Stopped(More)
<1>0. p \in Nat /\ p \in p..Len(s)
  BY LenProperties
<1>1. PICK L, lines, name, g :
    /\ LinesRead(s, p, L, g, lines)
    /\ \A n \in p..Len(s) : FromLine(s, n, L) = FromNoValue(s, n, p, name)
  BY DEF NoValueBreaks
<1>2. FromLine(s, p, L) = Stopped(More)
  BY <1>0, <1>1 DEF FromNoValue
<1>3. More \notin {"line", "completed"}
  BY DEF More
<1> QED
  BY <1>0, <1>1, <1>2, <1>3, LinesStop

LEMMA LastBreakMore ==
  ASSUME NEW s \in Seq(Byte), NEW p \in 0..Len(s), NEW h, AtLastBreak(s, p, h)
  PROVE  Meaning(s, p) = Stopped(More)
<1>0. p \in Nat /\ p \in p..Len(s) /\ ~(p > p)
  BY LenProperties
<1>1. PICK lines : LinesRead(s, p, p, h, lines)
  BY DEF AtLastBreak
<1>2. FromLine(s, p, p) = Stopped(More)
  BY <1>0, Zenon DEF FromLine, AtLastBreak
<1>3. More \notin {"line", "completed"}
  BY DEF More
<1> QED
  BY <1>0, <1>1, <1>2, <1>3, LinesStop

LEMMA OfValueMore ==
  ASSUME NEW s \in Seq(Byte), NEW p \in 0..Len(s), NEW v, NEW b, NEW name, NEW h,
         OfValue(s, p, v, b, name, h)
  PROVE  Meaning(s, p) = Stopped(More)
<1>0. p \in Nat /\ p \in p..Len(s)
  BY LenProperties
<1>1. v \in 1..p /\ \A j \in v..p : ~EndsValue(s, p, j)
  BY DEF OfValue, ValueRead
<1>2. PICK L, lines :
       /\ LinesRead(s, p, L, h, lines)
       /\ \A n \in p..Len(s) : FromLine(s, n, L) = FromText(s, n, v, name)
  BY DEF OfValue
<1>3. v \in 1..(p + 1)
  BY <1>0, <1>1
<1>4. FromText(s, p, v, name) = Stopped(More)
  BY <1>0, <1>1, <1>3, TextStarts
<1>5. FromLine(s, p, L) = Stopped(More)
  BY <1>0, <1>2, <1>4
<1>6. More \notin {"line", "completed"}
  BY DEF More
<1> QED
  BY <1>0, <1>2, <1>5, <1>6, LinesStop

-----------------------------------------------------------------------------
(* The steps from line to line. *)

LEMMA BreakStep ==
  ASSUME NEW s \in Seq(Byte), NEW p \in Nat, p + 1 <= Len(s), NEW h,
         AtBreak(s, p, h)
  PROVE  /\ s[p + 1] = LF => AtLine(s, p + 1, h)
         /\ s[p + 1] # LF => Meaning(s, p + 1) = Stopped("expected_linefeed")
<1>0. PICK e \in Nat : e = p + 1 /\ e \in 0..Len(s) /\ e \in e..Len(s)
  BY LenProperties
<1>1. PICK method, target, ver :
    /\ h = HeaderOf(method, target, ver, NoFields)
    /\ \A n \in p..Len(s) :
         Meaning(s, n) = FromBreak(s, n, p, method, target, ver)
  BY DEF AtBreak
<1>2. ASSUME NEW n \in e..Len(s)
      PROVE  /\ s[e] # LF => Meaning(s, n) = Stopped("expected_linefeed")
             /\ s[e] = LF =>
                  Meaning(s, n) = Reads(s, n, e + 1, method, target, ver, <<>>)
  <2>1. n \in p..Len(s) /\ p # n /\ p + 1 = e /\ p + 2 = e + 1
    BY <1>0
  <2>2. Meaning(s, n) = FromBreak(s, n, p, method, target, ver)
    BY <1>1, <2>1
  <2>3. n \in 0..Len(s) /\ e + 1 \in 1..(n + 1)
    BY <1>0, LenProperties
  <2>4. FromFields(s, n, e + 1, method, target, ver)
          = Reads(s, n, e + 1, method, target, ver, <<>>)
    BY <2>3, ReadsNone
  <2> QED
    BY <2>1, <2>2, <2>4, Zenon DEF FromBreak
<1>3. <<>> \in Seq(StringPair) /\ e + 1 \in 1..(e + 1)
  BY <1>0
<1>4. h = HeaderOf(method, target, ver, FieldsOf(<<>>))
  BY <1>1, NoLinesGiveNoFields
<1>5. s[e] = LF => LinesRead(s, e, e + 1, h, <<>>)
  BY <1>2, <1>3, <1>4 DEF LinesRead
<1> QED
  BY <1>0, <1>2, <1>5 DEF AtLine

LEMMA LineBegins ==
  ASSUME NEW s \in Seq(Byte), NEW e \in 1..Len(s), NEW h, NEW lines,
         LinesRead(s, e, e, h, lines)
  PROVE  /\ s[e] = CR => AtLastBreak(s, e, h)
         /\ s[e] # CR => InName(s, e, <<s[e]>>, h)
<1>0. PICK p \in Nat : e = p + 1 /\ p \in 0..(Len(s) - 1)
  <2>1. e - 1 \in Nat /\ e = (e - 1) + 1 /\ e - 1 \in 0..(Len(s) - 1)
    BY LenProperties
  <2> QED
    BY <2>1
<1>2. SubSeq(s, e, e) = <<s[e]>>
  <2>1. p + 1 \in 1..(p + 1)
    OBVIOUS
  <2>2. SubSeq(s, p + 1, p + 1) = Append(SubSeq(s, p + 1, p), s[p + 1])
    BY <1>0, <2>1, PartGrows
  <2>3. SubSeq(s, p + 1, p) = <<>>
    OBVIOUS
  <2>4. Append(<<>>, s[p + 1]) = <<s[p + 1]>>
    OBVIOUS
  <2> QED
    BY <1>0, <2>2, <2>3, <2>4, Zenon
<1>3. IsNot(s, Colon, e + 1, e) /\ e \in 1..e
  BY <1>0 DEF IsNot
<1>4. s[e] # CR => InName(s, e, <<s[e]>>, h)
  BY <1>2, <1>3 DEF InName
<1>5. s[e] = CR => AtLastBreak(s, e, h)
  BY DEF AtLastBreak
<1> QED
  BY <1>4, <1>5

LEMMA LineStep ==
  ASSUME NEW s \in Seq(Byte), NEW p \in Nat, p + 1 <= Len(s), NEW h,
         AtLine(s, p, h)
  PROVE  /\ s[p + 1] = CR => AtLastBreak(s, p + 1, h)
         /\ s[p + 1] # CR => InName(s, p + 1, <<s[p + 1]>>, h)
<1>0. PICK e \in Nat : e = p + 1 /\ e \in 1..Len(s) /\ e \in p..Len(s)
  BY LenProperties
<1>1. PICK lines : LinesRead(s, p, e, h, lines)
  BY <1>0 DEF AtLine
<1>2. LinesRead(s, e, e, h, lines)
  BY <1>0, <1>1, LinesLater
<1> QED
  BY <1>0, <1>2, LineBegins

LEMMA NameStep ==
  ASSUME NEW s \in Seq(Byte), NEW p \in Nat, p + 1 <= Len(s), NEW b, NEW h,
         InName(s, p, b, h)
  PROVE  /\ s[p + 1] # Colon => InName(s, p + 1, Append(b, s[p + 1]), h)
         /\ s[p + 1] = Colon => BeforeValue(s, p + 1, b, h)
<1>0. PICK e \in Nat : e = p + 1 /\ e \in 1..Len(s) /\ e \in p..Len(s)
  BY LenProperties
<1>1. PICK L, lines :
    /\ LinesRead(s, p, L, h, lines)
    /\ L \in 1..p /\ s[L] # CR /\ IsNot(s, Colon, L + 1, p)
    /\ b = SubSeq(s, L, p)
  BY DEF InName
<1>2. LinesRead(s, e, L, h, lines)
  BY <1>0, <1>1, LinesLater
<1>3. ASSUME s[e] # Colon PROVE InName(s, e, Append(b, s[e]), h)
  <2>1. p \in 0..(Len(s) - 1) /\ L \in 1..(p + 1)
    BY <1>0, <1>1, LenProperties
  <2>2. SubSeq(s, L, p + 1) = Append(SubSeq(s, L, p), s[p + 1])
    BY <2>1, PartGrows
  <2>3. L \in 1..e /\ IsNot(s, Colon, L + 1, e)
    BY <1>0, <1>1, <1>3 DEF IsNot
  <2> QED
    BY <1>0, <1>1, <1>2, <2>2, <2>3 DEF InName
<1>4. ASSUME s[e] = Colon PROVE BeforeValue(s, e, b, h)
  <2>1. IsAt(s, Colon, L + 1, e) /\ e - 1 = p
    BY <1>0, <1>1, <1>4 DEF IsAt, IsNot
  <2>2. ASSUME NEW n \in e..Len(s)
        PROVE  FromLine(s, n, L) = FromValue(s, n, e + 1, b)
    <3>1. n \in Nat /\ L \in 1..n /\ e \in (L + 1)..n
      BY <1>0, <1>1
    <3>2. FromLine(s, n, L) = FromValue(s, n, e + 1, SubSeq(s, L, e - 1))
      BY <1>1, <2>1, <3>1, NameEnds
    <3> QED
      BY <1>1, <2>1, <3>2
  <2>3. e + 1 \in 1..(e + 1) /\ IsWhite(s, e + 1, e)
    BY <1>0 DEF IsWhite
  <2> QED
    BY <1>2, <2>2, <2>3 DEF BeforeValue
<1> QED
  BY <1>0, <1>3, <1>4

LEMMA WhiteStep ==
  ASSUME NEW s \in Seq(Byte), NEW p \in Nat, p + 1 <= Len(s), NEW name, NEW h,
         BeforeValue(s, p, name, h), is_strict_whitespace(s[p + 1])
  PROVE  BeforeValue(s, p + 1, name, h)
<1>0. PICK e \in Nat : e = p + 1 /\ e \in 1..Len(s) /\ e \in p..Len(s)
  BY LenProperties
<1>1. PICK L, lines, c :
    /\ LinesRead(s, p, L, h, lines)
    /\ c \in 1..(p + 1) /\ IsWhite(s, c, p)
    /\ \A n \in p..Len(s) : FromLine(s, n, L) = FromValue(s, n, c, name)
  BY DEF BeforeValue
<1>2. LinesRead(s, e, L, h, lines)
  BY <1>0, <1>1, LinesLater
<1>3. c \in 1..(e + 1) /\ IsWhite(s, c, e)
  BY <1>0, <1>1 DEF IsWhite
<1>4. e..Len(s) \subseteq p..Len(s)
  BY <1>0, LenProperties
<1>5. BeforeValue(s, e, name, h)
  BY <1>1, <1>2, <1>3, <1>4 DEF BeforeValue
<1> QED
  BY <1>0, <1>5

LEMMA NoValueStep ==
  ASSUME NEW s \in Seq(Byte), NEW p \in Nat, p + 1 <= Len(s), NEW h,
         NEW name \in Seq(Byte), BeforeValue(s, p, name, h), s[p + 1] = CR
  PROVE  /\ ~IsFieldName(name) => Meaning(s, p + 1) = Stopped("bad_field_name")
         /\ IsFieldName(name) =>
              NoValueBreaks(s, p + 1,
                            [h EXCEPT !.fields = append(@, name, <<>>)])
<1>0. PICK e \in Nat : e = p + 1 /\ e \in 1..Len(s) /\ e \in p..Len(s)
  BY LenProperties
<1>1. PICK L, lines, c :
    /\ LinesRead(s, p, L, h, lines)
    /\ c \in 1..(p + 1) /\ IsWhite(s, c, p)
    /\ \A n \in p..Len(s) : FromLine(s, n, L) = FromValue(s, n, c, name)
  BY DEF BeforeValue
<1>2. LinesRead(s, e, L, h, lines)
  BY <1>0, <1>1, LinesLater
<1>3. ~is_strict_whitespace(s[e]) /\ s[e] = CR
  BY <1>0 DEF is_strict_whitespace, CR, SP, HT
<1>4. e - 1 = p
  BY <1>0
<1>5. ASSUME NEW n \in e..Len(s)
      PROVE  FromLine(s, n, L) = IF ~IsFieldName(name)
                                 THEN Stopped("bad_field_name")
                                 ELSE FromNoValue(s, n, e, name)
  <2>1. n \in Nat /\ n \in p..Len(s) /\ c \in 1..(n + 1) /\ e \in c..n
    BY <1>0, <1>1
  <2>2. FromValue(s, n, c, name) =
           IF s[e] # CR THEN FromText(s, n, e, name)
           ELSE IF ~IsFieldName(name) THEN Stopped("bad_field_name")
           ELSE FromNoValue(s, n, e, name)
    BY <1>1, <1>3, <1>4, <2>1, ValueFound
  <2> QED
    BY <1>1, <1>3, <2>1, <2>2
<1>6. ASSUME ~IsFieldName(name) PROVE Meaning(s, e) = Stopped("bad_field_name")
  <2>1. e \in e..Len(s)
    BY <1>0, LenProperties
  <2>2. FromLine(s, e, L) = Stopped("bad_field_name")
    BY <1>5, <1>6, <2>1
  <2>3. "bad_field_name" \notin {"line", "completed"}
    OBVIOUS
  <2> QED
    BY <1>2, <2>1, <2>2, <2>3, LinesStop
<1>7. ASSUME IsFieldName(name)
      PROVE  NoValueBreaks(s, e, [h EXCEPT !.fields = append(@, name, <<>>)])
  <2>1. \A n \in e..Len(s) : FromLine(s, n, L) = FromNoValue(s, n, e, name)
    BY <1>5, <1>7
  <2> QED
    BY <1>0, <1>2, <2>1, Zenon DEF NoValueBreaks
<1> QED
  BY <1>0, <1>6, <1>7

LEMMA NoValueEnds ==
  ASSUME NEW s \in Seq(Byte), NEW p \in Nat, p + 1 <= Len(s), NEW h,
         NoValueBreaks(s, p, h)
  PROVE  /\ s[p + 1] = LF => AtLine(s, p + 1, h)
         /\ s[p + 1] # LF => Meaning(s, p + 1) = Stopped("expected_linefeed")
<1>0. PICK e \in Nat : e = p + 1 /\ e \in 1..Len(s) /\ e \in p..Len(s)
  BY LenProperties
<1>1. PICK L, lines, name, g :
    /\ LinesRead(s, p, L, g, lines)
    /\ h = [g EXCEPT !.fields = append(@, name, <<>>)]
    /\ name \in Seq(Byte)
    /\ \A n \in p..Len(s) : FromLine(s, n, L) = FromNoValue(s, n, p, name)
  BY DEF NoValueBreaks
<1>2. e \in e..Len(s)
  BY <1>0, LenProperties
<1>3. ASSUME NEW n \in e..Len(s)
      PROVE  FromLine(s, n, L) = IF s[e] # LF
                                 THEN Stopped("expected_linefeed")
                                 ELSE Line(name, <<>>, e + 1)
  <2>1. n \in p..Len(s) /\ p # n /\ p + 1 = e /\ p + 2 = e + 1
    BY <1>0
  <2> QED
    BY <1>1, <2>1, Zenon DEF FromNoValue
<1>4. ASSUME s[e] # LF PROVE Meaning(s, e) = Stopped("expected_linefeed")
  <2>1. FromLine(s, e, L) = Stopped("expected_linefeed")
    BY <1>2, <1>3, <1>4
  <2>2. "expected_linefeed" \notin {"line", "completed"}
    OBVIOUS
  <2> QED
    BY <1>0, <1>1, <2>1, <2>2, LinesStop
<1>5. ASSUME s[e] = LF PROVE AtLine(s, e, h)
  <2>1. \A n \in e..Len(s) : FromLine(s, n, L) = Line(name, <<>>, e + 1)
    BY <1>3, <1>5
  <2>2. e + 1 \in 1..(e + 1) /\ <<>> \in Seq(Byte)
    BY <1>0
  <2>3. LinesRead(s, e, e + 1, [g EXCEPT !.fields = append(@, name, <<>>)],
                  Append(lines, <<name, <<>>>>))
    BY <1>0, <1>1, <2>1, <2>2, LinesReadNext
  <2> QED
    BY <1>1, <2>3 DEF AtLine
<1> QED
  BY <1>0, <1>4, <1>5

LEMMA EndStep ==
  ASSUME NEW s \in Seq(Byte), NEW p \in Nat, p + 1 <= Len(s), NEW h,
         AtLastBreak(s, p, h)
  PROVE  /\ s[p + 1] = LF =>
              \E lines \in Seq(StringPair) :
                /\ Meaning(s, p + 1)
                     = [ec |-> "completed", header |-> h, lines |-> lines]
                /\ h.fields = FieldsOf(lines)
         /\ s[p + 1] # LF => Meaning(s, p + 1) = Stopped("expected_linefeed")
<1>0. PICK e \in Nat : e = p + 1 /\ e \in 1..Len(s) /\ e \in p..Len(s)
  BY LenProperties
<1>1. PICK lines : LinesRead(s, p, p, h, lines)
  BY DEF AtLastBreak
<1>2. s[p] = CR /\ ~(p > e) /\ p # e
  BY <1>0 DEF AtLastBreak
<1>3. FromLine(s, e, p)
        = Stopped(IF s[e] = LF THEN "completed" ELSE "expected_linefeed")
  BY <1>0, <1>2, Zenon DEF FromLine
<1>4. ASSUME s[e] = LF
      PROVE  Meaning(s, e)
               = [ec |-> "completed", header |-> h, lines |-> lines]
  BY <1>0, <1>1, <1>3, <1>4, LinesEnd
<1>5. ASSUME s[e] # LF PROVE Meaning(s, e) = Stopped("expected_linefeed")
  <2>1. "expected_linefeed" \notin {"line", "completed"}
    OBVIOUS
  <2> QED
    BY <1>0, <1>1, <1>3, <1>5, <2>1, LinesStop
<1>6. lines \in Seq(StringPair) /\ h.fields = FieldsOf(lines)
  BY <1>1 DEF LinesRead, HeaderOf
<1> QED
  BY <1>0, <1>4, <1>5, <1>6

-----------------------------------------------------------------------------
(* The steps within a value. *)

(* No line break before p ends the value, if it does not where p + 1 shows *)
(* it.                                                                     *)
LEMMA ValueGoesOn ==
  ASSUME NEW s \in Seq(Byte), NEW p \in Nat, NEW v, NEW b,
         ValueRead(s, p, v, b), NEW n \in Nat, n > p
  PROVE  \A j \in v..(p - 2) : ~EndsValue(s, n, j)
<1>1. v \in 1..p /\ \A j \in v..p : ~EndsValue(s, p, j)
  BY DEF ValueRead
<1>2. ASSUME NEW j \in v..(p - 2) PROVE ~EndsValue(s, n, j)
  <2>1. j < p /\ j + 1 < p /\ j < n /\ j + 1 < n /\ j \in v..p
    BY <1>1
  <2>2. ~EndsValue(s, p, j)
    BY <1>1, <2>1
  <2> QED
    BY <2>1, <2>2, Zenon DEF EndsValue
<1> QED
  BY <1>2

LEMMA ValueGrows ==
  ASSUME NEW s \in Seq(Byte), NEW p \in Nat, p + 1 <= Len(s),
         NEW v, NEW b, NEW name, NEW h, NEW x,
         OfValue(s, p, v, b, name, h),
         ~EndsValue(s, p + 1, p), p > v => ~EndsValue(s, p + 1, p - 1),
         Adds(s, v, p + 1) = x
  PROVE  OfValue(s, p + 1, v, b \o x, name, h)
<1>0. PICK e \in Nat : e = p + 1 /\ e \in 1..Len(s) /\ e \in p..Len(s) /\ e > p
  BY LenProperties
<1>1. ValueRead(s, p, v, b)
  BY DEF OfValue
<1>2. v \in 1..p /\ b = Unfolded(s, v, p + 1 - v)
  BY <1>1 DEF ValueRead
<1>3. ASSUME NEW j \in v..e PROVE ~EndsValue(s, e, j)
  <2>1. CASE j \in v..(p - 2)
    BY <1>0, <1>1, <2>1, ValueGoesOn
  <2>2. CASE j = p - 1
    <3>1. p > v
      BY <1>2, <2>2
    <3> QED
      BY <1>0, <2>2, <3>1
  <2>3. CASE j = p
    BY <1>0, <2>3
  <2>4. CASE j = e
    <3>1. ~(e < e) /\ ~(e + 1 < e)
      BY <1>0
    <3> QED
      BY <2>4, <3>1 DEF EndsValue
  <2> QED
    BY <1>0, <1>2, <2>1, <2>2, <2>3, <2>4
<1>4. PICK k \in Nat : k = p + 1 - v
  BY <1>2
<1>5. v \in 1..Len(s) /\ k \in 0..(Len(s) - v) /\ v + k = e /\ k + 1 = e + 1 - v
  BY <1>0, <1>2, <1>4, LenProperties
<1>6. Unfolded(s, v, k + 1) = Unfolded(s, v, k) \o Adds(s, v, v + k)
  BY <1>5, UnfoldedGrows
<1>7. b \o x = Unfolded(s, v, e + 1 - v)
  BY <1>0, <1>2, <1>4, <1>5, <1>6, Zenon
<1>8. v \in 1..e
  BY <1>0, <1>2
<1>9. ValueRead(s, e, v, b \o x)
  BY <1>3, <1>7, <1>8, Zenon DEF ValueRead
<1>10. PICK L, lines :
         /\ LinesRead(s, p, L, h, lines)
         /\ \A n \in p..Len(s) : FromLine(s, n, L) = FromText(s, n, v, name)
  BY DEF OfValue
<1>11. LinesRead(s, e, L, h, lines)
  BY <1>0, <1>10, LinesLater
<1>12. \A n \in e..Len(s) : n \in p..Len(s)
  BY <1>0
<1>13. OfValue(s, e, v, b \o x, name, h)
  BY <1>9, <1>10, <1>11, <1>12, Zenon DEF OfValue
<1> QED
  BY <1>0, <1>13

LEMMA ValueStays ==
  ASSUME NEW s \in Seq(Byte), NEW p \in Nat, p + 1 <= Len(s),
         NEW v, NEW b, NEW name, NEW h,
         OfValue(s, p, v, b, name, h),
         ~EndsValue(s, p + 1, p), p > v => ~EndsValue(s, p + 1, p - 1),
         Adds(s, v, p + 1) = <<>>
  PROVE  OfValue(s, p + 1, v, b, name, h)
<1>1. OfValue(s, p + 1, v, b \o <<>>, name, h)
  BY ValueGrows
<1>2. v \in 1..p /\ b = Unfolded(s, v, p + 1 - v)
  BY DEF OfValue, ValueRead
<1>3. v \in 1..(Len(s) + 1) /\ p + 1 - v \in 0..(Len(s) + 1 - v)
  BY <1>2, LenProperties
<1>4. b \in Seq(Byte)
  BY <1>2, <1>3, UnfoldedType
<1>5. b \o <<>> = b
  BY <1>4, ConcatEmptySeq
<1> QED
  BY <1>1, <1>5

(* A line break that comes right before p + 1 is not within the text. *)
LEMMA TextHasNoBreak ==
  ASSUME NEW s \in Seq(Byte), NEW p \in Nat, NEW v, NEW b,
         ValueRead(s, p, v, b),
         InText(s, p, v) \/ TextBreaks(s, p) \/ Continues(s, p, v), p > v
  PROVE  s[p - 1] # CR
<1>1. v \in 1..p /\ \A j \in v..p : ~EndsValue(s, p, j)
  BY DEF ValueRead
<1>2. p - 1 \in v..p /\ p - 1 < p /\ (p - 1) + 1 = p /\ (p + 1) - 2 = p - 1
      /\ (p - 1) + 2 = p + 1 /\ (p + 1) - 1 = p
  BY <1>1
<1>3. s[p - 1] = CR => s[p] = LF
  <2>1. ~EndsValue(s, p, p - 1)
    BY <1>1, <1>2
  <2> QED
    BY <1>2, <2>1 DEF EndsValue
<1>4. s[p - 1] = CR => StartsLine(s, v, p + 1)
  <2>1. \A j \in (p + 1)..p : is_strict_whitespace(s[j])
    OBVIOUS
  <2>2. p - 1 \in v..(p - 1)
    BY <1>1, <1>2
  <2> QED
    BY <1>2, <2>1, <2>2, Zenon DEF StartsLine
<1>5. LF # CR /\ ~is_strict_whitespace(LF)
  BY DEF LF, CR, is_strict_whitespace, SP, HT
<1> QED
  BY <1>3, <1>4, <1>5 DEF InText, TextBreaks, Continues

LEMMA NotCrEndsNothing ==
  ASSUME NEW s, NEW n, NEW j, s[j] # CR PROVE ~EndsValue(s, n, j)
BY DEF EndsValue

LEMMA StartsLineAgain ==
  ASSUME NEW s, NEW p \in Nat, NEW v \in 1..p
  PROVE  StartsLine(s, v, p + 2) <=>
           \/ s[p] = CR
           \/ StartsLine(s, v, p + 1) /\ is_strict_whitespace(s[p + 1])
<1>0. (p + 2) - 2 = p /\ (p + 2) - 1 = p + 1 /\ (p + 1) - 2 = p - 1 /\ (p + 1) - 1 = p
  OBVIOUS
<1>1. StartsLine(s, v, p + 2) <=>
        \E cr \in v..p :
          s[cr] = CR /\ \A j \in (cr + 2)..(p + 1) : is_strict_whitespace(s[j])
  BY <1>0, Zenon DEF StartsLine
<1>2. StartsLine(s, v, p + 1) <=>
        \E cr \in v..(p - 1) :
          s[cr] = CR /\ \A j \in (cr + 2)..p : is_strict_whitespace(s[j])
  BY <1>0, Zenon DEF StartsLine
<1> DEFINE W(j) == is_strict_whitespace(s[j])
<1> HIDE DEF W
<1>3. ASSUME s[p] = CR PROVE StartsLine(s, v, p + 2)
  <2>1. p \in v..p /\ \A j \in (p + 2)..(p + 1) : W(j)
    OBVIOUS
  <2> QED
    BY <1>1, <1>3, <2>1 DEF W
<1>4. ASSUME NEW cr \in v..(p - 1)
      PROVE  /\ cr \in v..p
             /\ (\A j \in (cr + 2)..(p + 1) : W(j))
                  <=> (\A j \in (cr + 2)..p : W(j)) /\ W(p + 1)
  <2>1. /\ \A j : j \in (cr + 2)..(p + 1) <=> j \in (cr + 2)..p \/ j = p + 1
        /\ cr \in v..p
    OBVIOUS
  <2> QED
    BY <2>1, Zenon
<1>5. \A cr \in v..p : cr \in v..(p - 1) \/ cr = p
  OBVIOUS
<1> QED
  BY <1>1, <1>2, <1>3, <1>4, <1>5, Zenon DEF W

LEMMA TextStep ==
  ASSUME NEW s \in Seq(Byte), NEW p \in Nat, p + 1 <= Len(s),
         NEW v, NEW b, NEW name, NEW h,
         OfValue(s, p, v, b, name, h), InText(s, p, v)
  PROVE  /\ s[p + 1] # CR =>
              /\ OfValue(s, p + 1, v, Append(b, s[p + 1]), name, h)
              /\ InText(s, p + 1, v)
         /\ s[p + 1] = CR =>
              OfValue(s, p + 1, v, b, name, h) /\ TextBreaks(s, p + 1)
<1>1. ValueRead(s, p, v, b) /\ v \in 1..p /\ b = Unfolded(s, v, p + 1 - v)
  BY DEF OfValue, ValueRead
<1>2. s[p] # CR /\ ~StartsLine(s, v, p + 1) /\ (p > v => s[p - 1] # CR)
  BY <1>1, TextHasNoBreak DEF InText
<1>3. ~EndsValue(s, p + 1, p) /\ (p > v => ~EndsValue(s, p + 1, p - 1))
  BY <1>2, NotCrEndsNothing
<1>4. (p + 1) - 1 = p /\ (p + 1) + 1 = p + 2
  OBVIOUS
<1>5. ASSUME s[p + 1] # CR
      PROVE  /\ OfValue(s, p + 1, v, Append(b, s[p + 1]), name, h)
             /\ InText(s, p + 1, v)
  <2>1. Adds(s, v, p + 1) = <<s[p + 1]>>
    BY <1>2, <1>4, <1>5, Zenon DEF Adds
  <2>2. OfValue(s, p + 1, v, b \o <<s[p + 1]>>, name, h)
    BY <1>3, <2>1, ValueGrows
  <2>3. v \in 1..(Len(s) + 1) /\ p + 1 - v \in 0..(Len(s) + 1 - v)
    BY <1>1, LenProperties
  <2>4. b \in Seq(Byte)
    BY <1>1, <2>3, UnfoldedType
  <2>5. s[p + 1] \in Byte
    BY ElementOfSeq, LenProperties
  <2>6. b \o <<s[p + 1]>> = Append(b, s[p + 1])
    BY <2>4, <2>5, AppendIsConcat
  <2>7. ~StartsLine(s, v, p + 2)
    BY <1>1, <1>2, StartsLineAgain
  <2> QED
    BY <1>4, <1>5, <2>2, <2>6, <2>7, Zenon DEF InText
<1>6. ASSUME s[p + 1] = CR
      PROVE  OfValue(s, p + 1, v, b, name, h) /\ TextBreaks(s, p + 1)
  <2>1. Adds(s, v, p + 1) = <<>>
    BY <1>6 DEF Adds
  <2> QED
    BY <1>3, <1>6, <2>1, ValueStays DEF TextBreaks
<1> QED
  BY <1>5, <1>6

LEMMA TextBreaksStep ==
  ASSUME NEW s \in Seq(Byte), NEW p \in Nat, p + 1 <= Len(s),
         NEW v, NEW b, NEW name, NEW h,
         OfValue(s, p, v, b, name, h), TextBreaks(s, p)
  PROVE  /\ s[p + 1] = LF =>
              OfValue(s, p + 1, v, b, name, h) /\ TextBroken(s, p + 1, v)
         /\ s[p + 1] # LF => Meaning(s, p + 1) = Stopped("expected_linefeed")
<1>0. PICK e \in Nat : e = p + 1 /\ e \in 1..Len(s) /\ e \in p..Len(s) /\ e > p
  BY LenProperties
<1>1. ValueRead(s, p, v, b) /\ v \in 1..p
  BY DEF OfValue, ValueRead
<1>2. s[p] = CR /\ (p > v => s[p - 1] # CR)
  BY <1>1, TextHasNoBreak DEF TextBreaks
<1>3. p > v => ~EndsValue(s, p + 1, p - 1)
  BY <1>2, NotCrEndsNothing
<1>4. ASSUME s[p + 1] = LF
      PROVE  OfValue(s, p + 1, v, b, name, h) /\ TextBroken(s, p + 1, v)
  <2>1. (p + 1) - 1 = p /\ p + 1 > v /\ ~(p + 1 < p + 1)
    BY <1>1
  <2>2. Adds(s, v, p + 1) = <<>>
    BY <1>2, <2>1, Zenon DEF Adds
  <2>3. ~EndsValue(s, p + 1, p)
    BY <1>4, <2>1, Zenon DEF EndsValue
  <2>4. OfValue(s, p + 1, v, b, name, h)
    BY <1>3, <2>2, <2>3, ValueStays
  <2> QED
    BY <1>2, <1>4, <2>1, <2>4, Zenon DEF TextBroken
<1>5. ASSUME s[p + 1] # LF PROVE Meaning(s, p + 1) = Stopped("expected_linefeed")
  <2>1. EndsValue(s, e, p)
    BY <1>0, <1>2, <1>5 DEF EndsValue
  <2>2. \A j \in v..(p - 1) : ~EndsValue(s, e, j)
    <3>1. \A j \in v..(p - 2) : ~EndsValue(s, e, j)
      BY <1>0, <1>1, ValueGoesOn
    <3>2. ASSUME NEW j \in v..(p - 1) PROVE j \in v..(p - 2) \/ (j = p - 1 /\ p > v)
      BY <1>1
    <3> QED
      BY <1>0, <1>3, <3>1, <3>2
  <2>3. v \in 1..(e + 1) /\ p \in v..e
    BY <1>0, <1>1
  <2>4. FromText(s, e, v, name) = TextEnding(s, v, name, p)
    BY <2>1, <2>2, <2>3, TextEnds
  <2>5. FromText(s, e, v, name) = Stopped("expected_linefeed")
    BY <1>5, <2>4, Zenon DEF TextEnding
  <2>6. PICK L, lines :
          /\ LinesRead(s, p, L, h, lines)
          /\ \A n \in p..Len(s) : FromLine(s, n, L) = FromText(s, n, v, name)
    BY DEF OfValue
  <2>7. FromLine(s, e, L) = Stopped("expected_linefeed")
    BY <1>0, <2>5, <2>6
  <2>8. "expected_linefeed" \notin {"line", "completed"}
    OBVIOUS
  <2>9. Meaning(s, e) = Stopped("expected_linefeed")
    BY <1>0, <2>6, <2>7, <2>8, LinesStop
  <2> QED
    BY <1>0, <2>9
<1> QED
  BY <1>4, <1>5

LEMMA ContinueStep ==
  ASSUME NEW s \in Seq(Byte), NEW p \in Nat, p + 1 <= Len(s),
         NEW v, NEW b, NEW name, NEW h,
         OfValue(s, p, v, b, name, h), TextBroken(s, p, v),
         is_strict_whitespace(s[p + 1])
  PROVE  OfValue(s, p + 1, v, b, name, h) /\ Continues(s, p + 1, v)
<1>1. v \in 1..p /\ p > v /\ s[p - 1] = CR /\ s[p] = LF /\ s[p] # CR
  BY DEF OfValue, ValueRead, TextBroken, LF, CR
<1>2. s[p + 1] # CR
  BY DEF is_strict_whitespace, CR, SP, HT
<1>3. /\ (p + 1) - 1 = p /\ (p + 1) - 2 = p - 1 /\ (p - 1) + 1 = p
      /\ (p - 1) + 2 = p + 1 /\ p - 1 \in v..(p - 1) /\ (p + 1) + 1 = p + 2
  BY <1>1
<1>4. StartsLine(s, v, p + 1)
  <2>1. \A j \in (p + 1)..p : is_strict_whitespace(s[j])
    OBVIOUS
  <2> QED
    BY <1>1, <1>3, <2>1, Zenon DEF StartsLine
<1>5. Adds(s, v, p + 1) = <<>>
  BY <1>1, <1>2, <1>3, <1>4, Zenon DEF Adds
<1>6. ~EndsValue(s, p + 1, p) /\ ~EndsValue(s, p + 1, p - 1)
  BY <1>1, <1>3, Zenon DEF EndsValue
<1>7. OfValue(s, p + 1, v, b, name, h)
  BY <1>5, <1>6, ValueStays
<1>8. StartsLine(s, v, p + 2)
  BY <1>1, <1>4, StartsLineAgain
<1> QED
  BY <1>3, <1>7, <1>8, Zenon DEF Continues

LEMMA ContinuesStep ==
  ASSUME NEW s \in Seq(Byte), NEW p \in Nat, p + 1 <= Len(s),
         NEW v, NEW b, NEW name, NEW h,
         OfValue(s, p, v, b, name, h), Continues(s, p, v)
  PROVE  /\ s[p + 1] = CR =>
              OfValue(s, p + 1, v, b, name, h) /\ TextBreaks(s, p + 1)
         /\ is_strict_whitespace(s[p + 1]) =>
              OfValue(s, p + 1, v, b, name, h) /\ Continues(s, p + 1, v)
         /\ s[p + 1] # CR /\ ~is_strict_whitespace(s[p + 1]) =>
              /\ OfValue(s, p + 1, v, b \o <<SP, s[p + 1]>>, name, h)
              /\ InText(s, p + 1, v)
<1>1. ValueRead(s, p, v, b) /\ v \in 1..p
  BY DEF OfValue, ValueRead
<1>2. s[p] # CR /\ StartsLine(s, v, p + 1) /\ (p > v => s[p - 1] # CR)
  <2>1. p > v => s[p - 1] # CR
    BY <1>1, TextHasNoBreak
  <2> QED
    BY <2>1 DEF Continues, is_strict_whitespace, CR, SP, HT
<1>3. ~EndsValue(s, p + 1, p) /\ (p > v => ~EndsValue(s, p + 1, p - 1))
  BY <1>2, NotCrEndsNothing
<1>4. (p + 1) - 1 = p /\ (p + 1) + 1 = p + 2
  OBVIOUS
<1>5. ASSUME s[p + 1] = CR
      PROVE  OfValue(s, p + 1, v, b, name, h) /\ TextBreaks(s, p + 1)
  <2>1. Adds(s, v, p + 1) = <<>>
    BY <1>5 DEF Adds
  <2> QED
    BY <1>3, <1>5, <2>1, ValueStays DEF TextBreaks
<1>6. ASSUME is_strict_whitespace(s[p + 1])
      PROVE  OfValue(s, p + 1, v, b, name, h) /\ Continues(s, p + 1, v)
  <2>1. Adds(s, v, p + 1) = <<>>
    BY <1>2, <1>4, <1>6, Zenon DEF Adds
  <2>2. StartsLine(s, v, p + 2)
    BY <1>1, <1>2, <1>6, StartsLineAgain
  <2>3. OfValue(s, p + 1, v, b, name, h)
    BY <1>3, <2>1, ValueStays
  <2> QED
    BY <1>4, <1>6, <2>2, <2>3, Zenon DEF Continues
<1>7. ASSUME s[p + 1] # CR, ~is_strict_whitespace(s[p + 1])
      PROVE  /\ OfValue(s, p + 1, v, b \o <<SP, s[p + 1]>>, name, h)
             /\ InText(s, p + 1, v)
  <2>1. Adds(s, v, p + 1) = <<SP, s[p + 1]>>
    BY <1>2, <1>4, <1>7, Zenon DEF Adds
  <2>2. ~StartsLine(s, v, p + 2)
    BY <1>1, <1>2, <1>7, StartsLineAgain
  <2>3. OfValue(s, p + 1, v, b \o <<SP, s[p + 1]>>, name, h)
    BY <1>3, <2>1, ValueGrows
  <2> QED
    BY <1>4, <1>7, <2>2, <2>3, Zenon DEF InText
<1> QED
  BY <1>5, <1>6, <1>7

LEMMA StartStep ==
  ASSUME NEW s \in Seq(Byte), NEW p \in Nat, p + 1 <= Len(s), NEW name, NEW h,
         BeforeValue(s, p, name, h), s[p + 1] # CR,
         ~is_strict_whitespace(s[p + 1])
  PROVE  /\ OfValue(s, p + 1, p + 1, <<s[p + 1]>>, name, h)
         /\ InText(s, p + 1, p + 1)
<1>0. PICK e \in Nat : e = p + 1 /\ e \in 1..Len(s) /\ e \in p..Len(s) /\ e > p
  BY LenProperties
<1>1. PICK L, lines, c :
    /\ LinesRead(s, p, L, h, lines)
    /\ c \in 1..(p + 1) /\ IsWhite(s, c, p)
    /\ \A n \in p..Len(s) : FromLine(s, n, L) = FromValue(s, n, c, name)
  BY DEF BeforeValue
<1>2. LinesRead(s, e, L, h, lines)
  BY <1>0, <1>1, LinesLater
<1>3. s[e] # CR /\ ~is_strict_whitespace(s[e]) /\ e - 1 = p
  BY <1>0
<1>4. ASSUME NEW n \in e..Len(s)
      PROVE  FromLine(s, n, L) = FromText(s, n, e, name)
  <2>1. n \in Nat /\ n \in p..Len(s) /\ c \in 1..(n + 1) /\ e \in c..n
    BY <1>0, <1>1
  <2>2. FromValue(s, n, c, name) =
           IF s[e] # CR THEN FromText(s, n, e, name)
           ELSE IF ~IsFieldName(name) THEN Stopped("bad_field_name")
           ELSE FromNoValue(s, n, e, name)
    BY <1>1, <1>3, <2>1, ValueFound
  <2> QED
    BY <1>1, <1>3, <2>1, <2>2
<1>5. ~StartsLine(s, e, e) /\ ~StartsLine(s, e, e + 1)
  BY <1>0 DEF StartsLine
<1>6. Adds(s, e, e) = <<s[e]>>
  <2>1. ~(e > e)
    BY <1>0
  <2> QED
    BY <1>3, <1>5, <2>1, Zenon DEF Adds
<1>7. Unfolded(s, e, 1) = <<s[e]>>
  <2>1. e \in 1..Len(s) /\ 0 \in 0..(Len(s) - e) /\ 0 + 1 = 1 /\ e + 0 = e
    BY <1>0, LenProperties
  <2>2. Unfolded(s, e, 0 + 1) = Unfolded(s, e, 0) \o Adds(s, e, e + 0)
    BY <2>1, UnfoldedGrows
  <2>3. Unfolded(s, e, 0) = <<>>
    BY UnfoldedNothing
  <2>4. <<s[e]>> \in Seq(Byte)
    BY <1>0, ElementOfSeq
  <2>5. <<>> \o <<s[e]>> = <<s[e]>>
    BY <2>4, ConcatEmptySeq
  <2> QED
    BY <1>6, <2>1, <2>2, <2>3, <2>5, Zenon
<1>8. e + 1 - e = 1 /\ e \in 1..e /\ \A j \in e..e : j = e
  BY <1>0
<1>9. \A j \in e..e : ~EndsValue(s, e, j)
  BY <1>3, <1>8, NotCrEndsNothing
<1>10. ValueRead(s, e, e, <<s[e]>>)
  BY <1>7, <1>8, <1>9, Zenon DEF ValueRead
<1>11. OfValue(s, e, e, <<s[e]>>, name, h)
  BY <1>2, <1>4, <1>10, Zenon DEF OfValue
<1> QED
  BY <1>0, <1>3, <1>5, <1>11, Zenon DEF InText

LEMMA StoreStep ==
  ASSUME NEW s \in Seq(Byte), NEW p \in Nat, p + 1 <= Len(s),
         NEW v, NEW b, NEW name \in Seq(Byte), NEW h,
         OfValue(s, p, v, b, name, h), TextBroken(s, p, v),
         ~is_strict_whitespace(s[p + 1]), NEW val, val = rtrim(b)
  PROVE  /\ ~IsFieldName(name) => Meaning(s, p + 1) = Stopped("bad_field_name")
         /\ IsFieldName(name) /\ ~IsFieldValue(val) =>
              Meaning(s, p + 1) = Stopped("bad_field_value")
         /\ IsFieldName(name) /\ IsFieldValue(val) =>
              \E lines :
                LinesRead(s, p + 1, p + 1,
                          [h EXCEPT !.fields = append(@, name, val)], lines)
<1>0. PICK e \in Nat : e = p + 1 /\ e \in 1..Len(s) /\ e \in p..Len(s) /\ e > p
  BY LenProperties
<1>1. ValueRead(s, p, v, b) /\ v \in 1..p /\ b = Unfolded(s, v, p + 1 - v)
  BY DEF OfValue, ValueRead
<1>2. p > v /\ s[p - 1] = CR /\ s[p] = LF
  BY DEF TextBroken
<1>3. PICK f \in Nat : f = p - 1
  BY <1>1
<1>4. f + 1 = p /\ f + 2 = e /\ f \in v..p /\ f - 1 = p - 2 /\ v \in Nat
  BY <1>0, <1>1, <1>2, <1>3
<1>5. s[f] = CR /\ s[f + 1] = LF
  BY <1>2, <1>3, <1>4
<1>6. b = Unfolded(s, v, f - v) /\ b \in Seq(Byte)
  <2>1. PICK k \in Nat : k = f - v
    BY <1>4
  <2>2. /\ v \in 1..Len(s) /\ k \in 0..(Len(s) - v) /\ k + 1 \in 0..(Len(s) - v)
        /\ v + k = f /\ v + (k + 1) = p /\ (k + 1) + 1 = p + 1 - v
        /\ k \in 0..(Len(s) + 1 - v) /\ v \in 1..(Len(s) + 1)
    BY <1>0, <1>1, <1>4, <2>1, LenProperties
  <2>3. Unfolded(s, v, k + 1) = Unfolded(s, v, k) \o Adds(s, v, f)
    BY <2>2, UnfoldedGrows
  <2>4. Unfolded(s, v, (k + 1) + 1) = Unfolded(s, v, k + 1) \o Adds(s, v, p)
    BY <2>2, UnfoldedGrows
  <2>5. Adds(s, v, f) = <<>>
    BY <1>5 DEF Adds
  <2>6. Adds(s, v, p) = <<>>
    BY <1>2, Zenon DEF Adds
  <2>7. Unfolded(s, v, k) \in Seq(Byte)
    BY <2>2, UnfoldedType
  <2>8. Unfolded(s, v, k) \o <<>> = Unfolded(s, v, k)
    BY <2>7, ConcatEmptySeq
  <2>9. b = Unfolded(s, v, k)
    BY <1>1, <2>2, <2>3, <2>4, <2>5, <2>6, <2>8, Zenon
  <2> QED
    BY <2>1, <2>7, <2>9
<1>7. val \in Seq(Byte) /\ val = rtrim(Unfolded(s, v, f - v))
  BY <1>6, RtrimType
<1>8. PICK L, lines :
        /\ LinesRead(s, p, L, h, lines)
        /\ \A n \in p..Len(s) : FromLine(s, n, L) = FromText(s, n, v, name)
  BY DEF OfValue
<1>9. ASSUME NEW n \in e..Len(s)
      PROVE  FromLine(s, n, L) =
               IF ~IsFieldName(name) THEN Stopped("bad_field_name")
               ELSE IF ~IsFieldValue(val) THEN Stopped("bad_field_value")
               ELSE Line(name, val, e)
  <2>1. n \in p..Len(s) /\ n \in Nat /\ v \in 1..(n + 1) /\ f \in v..n
        /\ f + 1 < n /\ n > p
    BY <1>0, <1>1, <1>4
  <2>2. EndsValue(s, n, f)
    BY <1>0, <1>4, <1>5, <2>1 DEF EndsValue
  <2>3. \A j \in v..(f - 1) : ~EndsValue(s, n, j)
    BY <1>1, <1>4, <2>1, ValueGoesOn
  <2>4. FromText(s, n, v, name) = TextEnding(s, v, name, f)
    BY <2>1, <2>2, <2>3, TextEnds
  <2>5. FromLine(s, n, L) = TextEnding(s, v, name, f)
    BY <1>8, <2>1, <2>4
  <2> QED
    BY <1>4, <1>5, <1>7, <2>5, Zenon DEF TextEnding
<1>10. e \in e..Len(s)
  BY <1>0
<1>11. ASSUME ~IsFieldName(name) PROVE Meaning(s, e) = Stopped("bad_field_name")
  <2>1. FromLine(s, e, L) = Stopped("bad_field_name")
    BY <1>9, <1>10, <1>11
  <2>2. "bad_field_name" \notin {"line", "completed"}
    OBVIOUS
  <2> QED
    BY <1>0, <1>8, <2>1, <2>2, LinesStop
<1>12. ASSUME IsFieldName(name), ~IsFieldValue(val)
       PROVE  Meaning(s, e) = Stopped("bad_field_value")
  <2>1. FromLine(s, e, L) = Stopped("bad_field_value")
    BY <1>9, <1>10, <1>12
  <2>2. "bad_field_value" \notin {"line", "completed"}
    OBVIOUS
  <2> QED
    BY <1>0, <1>8, <2>1, <2>2, LinesStop
<1>13. ASSUME IsFieldName(name), IsFieldValue(val)
       PROVE  LinesRead(s, e, e, [h EXCEPT !.fields = append(@, name, val)],
                        Append(lines, <<name, val>>))
  <2>1. \A n \in e..Len(s) : FromLine(s, n, L) = Line(name, val, e)
    BY <1>9, <1>13
  <2>2. e \in 1..(e + 1)
    BY <1>0
  <2> QED
    BY <1>0, <1>7, <1>8, <2>1, <2>2, LinesReadNext
<1>14. ASSUME IsFieldName(name), IsFieldValue(val)
       PROVE  \E l : LinesRead(s, e, e,
                               [h EXCEPT !.fields = append(@, name, val)], l)
  BY <1>13, <1>14, Zenon
<1> QED
  BY <1>0, <1>11, <1>12, <1>14, Zenon

-----------------------------------------------------------------------------
(* The length that lines give. *)

(* A text with one piece that is not empty is that piece. *)
LEMMA FlattenOnly ==
  ASSUME NEW pieces \in Seq(Seq(Byte)), NEW k \in 1..Len(pieces),
         \A i \in 1..Len(pieces) : i # k => pieces[i] = <<>>
  PROVE  FlattenSeq(pieces) = pieces[k]
<1>0. PICK N \in Nat : N = Len(pieces)
  BY LenProperties
<1>1. PICK flat \in Seq(Byte) : flat = FlattenSeq(pieces)
  BY FlattenLayout
<1>2. PICK p : IsLayout(p, pieces, flat)
  BY <1>1, FlattenLayout
<1>3. PICK u \in Seq(Byte) : u = pieces[k]
  BY ElementOfSeq
<1>4. PICK M \in Nat : M = Len(u)
  BY LenProperties
<1>5. /\ p[0] = 0 /\ p[N] = Len(flat)
      /\ \A i \in 1..N : p[i] = p[i - 1] + Len(pieces[i])
      /\ \A j \in 1..M : flat[p[k - 1] + j] = u[j]
  BY <1>0, <1>2, <1>3, <1>4 DEF IsLayout
<1>6. \A i \in 1..N : Len(pieces[i]) = IF i = k THEN M ELSE 0
  BY <1>0, <1>3, <1>4, EmptySeq
<1> DEFINE T == {n \in Nat : n <= N => p[n] = IF n < k THEN 0 ELSE M}
<1>7. 0 \in T
  BY <1>0, <1>5
<1>8. ASSUME NEW n \in Nat, n \in T PROVE n + 1 \in T
  <2> SUFFICES ASSUME n + 1 <= N
               PROVE  p[n + 1] = IF n + 1 < k THEN 0 ELSE M
    OBVIOUS
  <2>1. p[n] = IF n < k THEN 0 ELSE M
    BY <1>8
  <2>2. n + 1 \in 1..N /\ (n + 1) - 1 = n
    OBVIOUS
  <2>3. p[n + 1] = p[n] + (IF n + 1 = k THEN M ELSE 0)
    BY <1>5, <1>6, <2>2
  <2> QED
    BY <1>0, <2>1, <2>3
<1> HIDE DEF T
<1>9. \A n \in Nat : n \in T
  BY <1>7, <1>8, Induction
<1>10. p[N] = M /\ p[k - 1] = 0
  <2>1. k - 1 \in Nat /\ N \in T /\ k - 1 \in T
    BY <1>0, <1>9
  <2> QED
    BY <1>0, <2>1 DEF T
<1>11. Len(flat) = M /\ \A j \in 1..M : flat[j] = u[j]
  BY <1>5, <1>10
<1> QED
  BY <1>1, <1>3, <1>4, <1>11, SeqEqual

(* Every character of a piece is in the text. *)
LEMMA FlattenHas ==
  ASSUME NEW pieces \in Seq(Seq(Byte)), NEW k \in 1..Len(pieces),
         NEW j \in 1..Len(pieces[k])
  PROVE  \E i \in DOMAIN FlattenSeq(pieces) :
           FlattenSeq(pieces)[i] = pieces[k][j]
<1>0. PICK N \in Nat : N = Len(pieces)
  BY LenProperties
<1>1. PICK flat \in Seq(Byte) : flat = FlattenSeq(pieces)
  BY FlattenLayout
<1>2. PICK p : IsLayout(p, pieces, flat)
  BY <1>1, FlattenLayout
<1>3. PICK L \in Nat : L = Len(pieces[k])
  BY ElementOfSeq, LenProperties
<1>4. PICK n \in Nat : n = p[k - 1]
  <2>1. k - 1 \in 0..Len(pieces)
    BY <1>0
  <2>2. p \in [0..Len(pieces) -> Nat]
    BY <1>2 DEF IsLayout
  <2> QED
    BY <2>1, <2>2
<1>5. p[k] = n + L /\ p[k] <= Len(flat) /\ flat[n + j] = pieces[k][j]
  BY <1>0, <1>2, <1>3, <1>4 DEF IsLayout
<1>6. n + j \in 1..Len(flat)
  BY <1>3, <1>5, LenProperties
<1>7. n + j \in DOMAIN flat
  BY <1>6, LenProperties
<1> QED
  BY <1>1, <1>5, <1>7

LinesOf(lines, k) == {i \in DOMAIN lines : SameName(lines[i][1], k)}

GivenBy(lines, k) == {i \in LinesOf(lines, k) : lines[i][2] # <<>>}

(* If the value of a name has no comma then one line has given it. *)
LEMMA OneLineGives ==
  ASSUME NEW lines \in Seq(StringPair), NEW k \in Seq(Byte),
         NEW name \in find(FieldsOf(lines), k),
         NEW val, val = FieldsOf(lines)[name],
         val # <<>>, \A i \in DOMAIN val : val[i] # Comma
  PROVE  \E i \in GivenBy(lines, k) :
           GivenBy(lines, k) = {i} /\ val = lines[i][2]
<1>0. PICK N \in Nat : N = Len(lines) /\ DOMAIN lines = 1..N
  BY LenProperties
<1>1. /\ name \in DOMAIN FieldsOf(lines) /\ SameName(name, k)
      /\ name \in Seq(Byte)
  BY FieldsOfType DEF find, FieldsType
<1>2. PICK a : a = Elements(lines, name)
  OBVIOUS
<1>3. val = FlattenSeq(a)
  BY <1>1, <1>2 DEF FieldsOf, Elements
<1>4. a \in Seq(Seq(Byte)) /\ Len(a) = N
  BY <1>0, <1>2, ElementsType
<1>5. \A i \in 1..N : a[i] = Element(lines, i, name)
  BY <1>0, <1>2 DEF Elements
<1>6. ASSUME NEW i \in 1..N
      PROVE  /\ lines[i][1] \in Seq(Byte) /\ lines[i][2] \in Seq(Byte)
             /\ i \in LinesOf(lines, k) <=> SameName(lines[i][1], name)
  <2>1. lines[i][1] \in Seq(Byte) /\ lines[i][2] \in Seq(Byte)
    BY <1>0, LineParts
  <2>2. SameName(lines[i][1], k) <=> SameName(lines[i][1], name)
    BY <1>1, <2>1, SameNameTransitive, SameNameSymmetric
  <2> QED
    BY <1>0, <2>1, <2>2 DEF LinesOf
<1>7. GivenBy(lines, k) \subseteq 1..N
  BY <1>0 DEF GivenBy, LinesOf
<1>8. \A i \in 1..N : i \notin GivenBy(lines, k) => a[i] = <<>>
  BY <1>5, <1>6, Zenon DEF Element, GivenBy
<1>9. ASSUME NEW i \in GivenBy(lines, k)
      PROVE  i \in Firsts(lines) /\ a[i] = lines[i][2]
  <2>1. i \in 1..N /\ lines[i][2] # <<>> /\ SameName(lines[i][1], name)
    BY <1>6, <1>7 DEF GivenBy
  <2>2. ASSUME i \notin Firsts(lines) PROVE FALSE
    <3>1. a[i] = <<Comma, SP>> \o lines[i][2]
      BY <1>5, <2>1, <2>2, Zenon DEF Element
    <3>2. PICK u \in Seq(Byte) : u = lines[i][2]
      BY <1>6, <2>1
    <3>3. Comma \in Byte /\ SP \in Byte
      BY DEF Comma, SP, Byte
    <3>4. 1 \in 1..Len(a[i]) /\ a[i][1] = Comma
      <4>0. <<Comma, SP>> \in Seq(Byte) /\ Len(<<Comma, SP>>) = 2
        BY DEF Comma, SP, Byte
      <4>1. PICK c \in Seq(Byte) : c = <<Comma, SP>> /\ Len(c) = 2
        BY <4>0, Zenon
      <4>2. c[1] = Comma
        BY <4>1
      <4>3. /\ Len(c \o u) = Len(c) + Len(u) /\ Len(u) \in Nat
            /\ 1 <= Len(c) => (c \o u)[1] = c[1]
        BY <4>1, ConcatProperties, LenProperties
      <4> QED
        BY <3>1, <3>2, <4>1, <4>2, <4>3
    <3>5. \E j \in DOMAIN val : val[j] = Comma
      <4>1. i \in 1..Len(a)
        BY <1>4, <2>1
      <4>2. \E j \in DOMAIN FlattenSeq(a) : FlattenSeq(a)[j] = a[i][1]
        BY <1>4, <3>4, <4>1, FlattenHas
      <4> QED
        BY <1>3, <3>4, <4>2, Zenon
    <3> QED
      BY <3>5
  <2>3. i \in Firsts(lines)
    BY <2>2
  <2> QED
    BY <1>5, <2>1, <2>3, Zenon DEF Element
<1>10. GivenBy(lines, k) # {}
  <2>1. SUFFICES ASSUME GivenBy(lines, k) = {} PROVE FALSE
    OBVIOUS
  <2>2. a \in Seq({<<>>})
    BY <1>4, <1>8, <2>1, LenProperties
  <2> QED
    BY <1>3, <2>2, FlattenNothing
<1>11. PICK i \in GivenBy(lines, k) : TRUE
  BY <1>10
<1>12. ASSUME NEW j \in GivenBy(lines, k) PROVE j = i
  <2>1. /\ i \in 1..N /\ j \in 1..N
        /\ i \in Firsts(lines) /\ j \in Firsts(lines)
        /\ SameName(lines[i][1], name) /\ SameName(lines[j][1], name)
    BY <1>6, <1>7, <1>9 DEF GivenBy
  <2>2. SameName(lines[i][1], lines[j][1]) /\ SameName(lines[j][1], lines[i][1])
    BY <1>1, <1>6, <2>1, SameNameTransitive, SameNameSymmetric
  <2>3. CASE i < j
    BY <2>1, <2>2, <2>3 DEF Firsts
  <2>4. CASE j < i
    BY <2>1, <2>2, <2>4 DEF Firsts
  <2> QED
    BY <2>1, <2>3, <2>4
<1>13. GivenBy(lines, k) = {i}
  BY <1>12
<1>14. i \in 1..Len(a) /\ \A j \in 1..Len(a) : j # i => a[j] = <<>>
  BY <1>4, <1>7, <1>8, <1>13
<1>15. FlattenSeq(a) = a[i]
  BY <1>4, <1>14, FlattenOnly
<1> QED
  BY <1>3, <1>9, <1>13, <1>15

(* The length that is found in the fields is the one that the lines give. *)
LEMMA LengthOfLines ==
  ASSUME NEW lines \in Seq(StringPair), NEW len,
         len = get_content_length(FieldsOf(lines)), len # None
  PROVE  IF LinesOf(lines, ContentLength) = {} THEN len = 0
         ELSE \E i \in GivenBy(lines, ContentLength) :
                /\ GivenBy(lines, ContentLength) = {i}
                /\ len = Numeral(lines[i][2])
<1>0. ContentLength \in Seq(Byte)
  BY NameAssumption
<1>1. LinesOf(lines, ContentLength) = {}
        <=> find(FieldsOf(lines), ContentLength) = {}
  BY <1>0, FindsLine DEF LinesOf
<1>2. CASE find(FieldsOf(lines), ContentLength) = {}
  BY <1>1, <1>2 DEF get_content_length
<1>3. CASE find(FieldsOf(lines), ContentLength) # {}
  <2>1. PICK name \in find(FieldsOf(lines), ContentLength) :
          len = to_number(FieldsOf(lines)[name], SizeMax)
    BY <1>3 DEF get_content_length
  <2>2. PICK val : val = FieldsOf(lines)[name]
    OBVIOUS
  <2>3. /\ val # <<>> /\ \A i \in DOMAIN val : IsDigit(val[i])
        /\ len = Numeral(val)
    BY <2>1, <2>2, Zenon DEF to_number
  <2>4. \A i \in DOMAIN val : val[i] # Comma
    BY <2>3 DEF IsDigit, Comma
  <2>5. \E i \in GivenBy(lines, ContentLength) :
          GivenBy(lines, ContentLength) = {i} /\ val = lines[i][2]
    BY <1>0, <2>2, <2>3, <2>4, OneLineGives
  <2> QED
    BY <1>1, <1>3, <2>3, <2>5
<1> QED
  BY <1>2, <1>3

-----------------------------------------------------------------------------
(* A line that is written is read again. *)

(* The bytes of s from i on are a line: a name, which ends before e, a     *)
(* value, which is from v on and ends before last, and a line break; and   *)
(* no continuation follows.                                                *)
Written(s, n, i, e, v, last, name, val) ==
  /\ 1 <= i /\ i < e /\ v = e + 2 /\ v <= last /\ last + 2 <= n
  /\ Len(name) = e - i
  /\ \A j \in i..(e - 1) : s[j] = name[j - i + 1]
  /\ s[e] = Colon
  /\ s[e + 1] = SP
  /\ Len(val) = last - v
  /\ \A j \in v..(last - 1) : s[j] = val[j - v + 1]
  /\ s[last] = CR
  /\ s[last + 1] = LF
  /\ ~is_strict_whitespace(s[last + 2])

LEMMA PrintableIsPlain ==
  ASSUME NEW c, ~is_not_printable(c) PROVE ~is_strict_whitespace(c) /\ c # CR
<1>1. is_not_printable(32) /\ is_not_printable(9) /\ is_not_printable(13)
  BY DEF is_not_printable, SP
<1>2. c # 32 /\ c # 9 /\ c # 13
  BY <1>1
<1> QED
  BY <1>2, Zenon DEF is_strict_whitespace, SP, HT, CR

(* The bytes from v on that are those of val and no line break. *)
LEMMA PlainUnfolds ==
  ASSUME NEW s \in Seq(Byte), NEW v \in 1..Len(s), NEW val \in Seq(Byte),
         NEW b \in Nat, b = Len(val), v + b <= Len(s),
         \A j \in 1..b : s[v + j - 1] = val[j],
         \A j \in 1..b : val[j] # CR
  PROVE  Unfolded(s, v, b) = val
<1>0. PICK n \in Nat : n = Len(s)
  BY LenProperties
<1>1. ASSUME NEW j \in 1..b PROVE Adds(s, v, v + j - 1) = <<val[j]>>
  <2>0. PICK i \in Nat : i = v + j - 1 /\ i >= v /\ i < v + b
    BY <1>0
  <2>1. \A k \in v..i : s[k] # CR
    <3>1. ASSUME NEW k \in v..i PROVE s[k] # CR
      <4>1. PICK x \in 1..b : k = v + x - 1
        <5>1. k - v + 1 \in 1..b /\ k = v + (k - v + 1) - 1
          BY <2>0
        <5> QED
          BY <5>1
      <4> QED
        BY <4>1
    <3> QED
      BY <3>1
  <2>2. s[i] # CR /\ ~(i > v /\ s[i - 1] = CR)
    BY <2>0, <2>1
  <2>3. ~StartsLine(s, v, i)
    <3>1. \A cr \in v..(i - 2) : cr \in v..i
      BY <2>0
    <3> QED
      BY <2>1, <3>1 DEF StartsLine
  <2>4. Adds(s, v, i) = <<s[i]>>
    BY <2>2, <2>3, Zenon DEF Adds
  <2> QED
    BY <2>0, <2>4
<1> DEFINE T == {k \in Nat : k <= b => Unfolded(s, v, k) = SubSeq(val, 1, k)}
<1>2. 0 \in T
  <2>1. SubSeq(val, 1, 0) = <<>>
    BY EmptySeq
  <2> QED
    BY <2>1, UnfoldedNothing
<1>3. ASSUME NEW k \in Nat, k \in T PROVE k + 1 \in T
  <2> SUFFICES ASSUME k + 1 <= b
               PROVE  Unfolded(s, v, k + 1) = SubSeq(val, 1, k + 1)
    OBVIOUS
  <2>1. Unfolded(s, v, k) = SubSeq(val, 1, k)
    BY <1>3
  <2>2. k \in 0..(Len(s) - v) /\ k + 1 \in 1..b /\ v + (k + 1) - 1 = v + k
    BY <1>0
  <2>3. Unfolded(s, v, k + 1) = Unfolded(s, v, k) \o Adds(s, v, v + k)
    BY <2>2, UnfoldedGrows
  <2>4. Adds(s, v, v + k) = <<val[k + 1]>>
    BY <1>1, <2>2
  <2>5. SubSeq(val, 1, k) \o <<val[k + 1]>> = SubSeq(val, 1, k + 1)
    <3>1. val[k + 1] \in Byte /\ SubSeq(val, 1, k) \in Seq(Byte)
      <4>1. 1 \in 1..(Len(val) + 1) /\ k \in 0..Len(val)
        BY <2>2
      <4> QED
        BY <2>2, <4>1, ElementOfSeq, PartType
    <3>2. SubSeq(val, 1, k) \o <<val[k + 1]>> = Append(SubSeq(val, 1, k), val[k + 1])
      BY <3>1, AppendIsConcat
    <3>3. SubSeq(val, 1, k + 1) = Append(SubSeq(val, 1, k), val[k + 1])
      <4>1. k \in 0..(Len(val) - 1) /\ 1 \in 1..(k + 1)
        BY <2>2
      <4> QED
        BY <4>1, PartGrows
    <3> QED
      BY <3>2, <3>3
  <2> QED
    BY <2>1, <2>3, <2>4, <2>5, Zenon
<1> HIDE DEF T
<1>4. b \in T
  BY <1>2, <1>3, Induction
<1>5. SubSeq(val, 1, b) = val
  BY SubSeqFull
<1> QED
  BY <1>4, <1>5 DEF T

LEMMA ValueIsTrimmed ==
  ASSUME NEW val \in Seq(Byte), val # <<>>, IsFieldValue(val)
  PROVE  rtrim(val) = val
<1>0. PICK b \in Nat : b = Len(val) /\ b > 0
  BY EmptySeq, LenProperties
<1>1. ~is_strict_whitespace(val[b])
  <2>1. ~is_not_printable(val[b])
    BY <1>0, Zenon DEF IsFieldValue
  <2> QED
    BY <2>1, PrintableIsPlain
<1> DEFINE Ends(n) == /\ n > 0 => ~is_strict_whitespace(val[n])
                      /\ \A i \in (n + 1)..Len(val) :
                           is_strict_whitespace(val[i])
           last == CHOOSE n \in 0..Len(val) : Ends(n)
<1>2. b \in 0..Len(val) /\ Ends(b)
  BY <1>0, <1>1
<1>3. ASSUME NEW n \in 0..Len(val), Ends(n) PROVE n = b
  <2>1. SUFFICES ASSUME n < b PROVE FALSE
    BY <1>0
  <2>2. b \in (n + 1)..Len(val)
    BY <1>0, <2>1
  <2> QED
    BY <1>1, <1>3, <2>2
<1> HIDE DEF Ends
<1>4. last = b
  BY <1>2, <1>3
<1>5. rtrim(val) = SubSeq(val, 1, last)
  BY DEF rtrim, Ends
<1> HIDE DEF last
<1>6. SubSeq(val, 1, b) = val
  BY <1>0, SubSeqFull
<1> QED
  BY <1>4, <1>5, <1>6

LEMMA NameReads ==
  ASSUME NEW s \in Seq(Byte), NEW n \in Nat, n = Len(s),
         NEW i \in Nat, NEW e \in Nat, NEW v \in Nat, NEW last \in Nat,
         NEW name \in Seq(Byte), NEW val,
         IsFieldName(name), Written(s, n, i, e, v, last, name, val)
  PROVE  FromLine(s, n, i) = FromValue(s, n, e + 1, name)
<1>0. /\ 1 <= i /\ i < e /\ v = e + 2 /\ v <= last /\ last + 2 <= n
      /\ Len(name) = e - i
  BY DEF Written
<1>1. i \in 1..n /\ e \in (i + 1)..n
  BY <1>0
<1>2. \A j \in i..(e - 1) : s[j] # Colon /\ s[j] # CR
  <2>1. ASSUME NEW j \in i..(e - 1) PROVE s[j] # Colon /\ s[j] # CR
    <3>1. PICK x \in Nat : x = j - i + 1 /\ x \in 1..Len(name)
      BY <1>0
    <3>2. s[j] = name[x]
      BY <3>1 DEF Written
    <3>3. x \in DOMAIN name
      BY <3>1, LenProperties
    <3>4. ~is_not_token_char(name[x])
      BY <3>3 DEF IsFieldName, is_token
    <3>5. is_not_token_char(Colon) /\ is_not_token_char(CR)
      BY DEF is_not_token_char, is_delimiter, is_not_printable, Colon, CR, SP
    <3> QED
      BY <3>2, <3>4, <3>5
  <2> QED
    BY <2>1
<1>3. s[i] # CR
  BY <1>0, <1>2
<1>4. IsAt(s, Colon, i + 1, e)
  <2>1. \A j \in (i + 1)..(e - 1) : j \in i..(e - 1)
    BY <1>0
  <2>2. s[e] = Colon
    BY DEF Written
  <2> QED
    BY <1>2, <2>1, <2>2, Zenon DEF IsAt
<1>5. SubSeq(s, i, e - 1) = name
  <2> DEFINE u == SubSeq(s, i, e - 1)
  <2>1. i \in 1..(Len(s) + 1) /\ e - 1 \in 0..Len(s) /\ i <= e - 1
    BY <1>0
  <2>2. u \in Seq(Byte)
    BY <2>1, PartType
  <2>3. /\ Len(u) = e - i
        /\ \A j \in 1..(e - i) : u[j] = s[i + j - 1]
    <3>1. \A x \in i..(e - 1) : s[x] \in Byte
      BY <2>1, ElementOfSeq, LenProperties
    <3>2. /\ Len(u) = (e - 1) - i + 1
          /\ \A j \in 1..((e - 1) - i + 1) : u[j] = s[i + j - 1]
      BY <2>1, <3>1, SubSeqProperties
    <3>3. (e - 1) - i + 1 = e - i
      OBVIOUS
    <3> HIDE DEF u
    <3> QED
      BY <3>2, <3>3, Zenon
  <2> HIDE DEF u
  <2>4. ASSUME NEW j \in 1..(e - i) PROVE u[j] = name[j]
    <3>1. PICK x \in Nat : x = i + j - 1 /\ x \in i..(e - 1) /\ x - i + 1 = j
      OBVIOUS
    <3>2. s[x] = name[x - i + 1]
      BY <3>1 DEF Written
    <3> QED
      BY <2>3, <3>1, <3>2
  <2>5. u = name
    BY <1>0, <2>2, <2>3, <2>4, SeqEqual
  <2> QED
    BY <2>5 DEF u
<1>6. FromLine(s, n, i) = FromValue(s, n, e + 1, SubSeq(s, i, e - 1))
  BY <1>1, <1>3, <1>4, NameEnds
<1> QED
  BY <1>5, <1>6

IsRead(s, n, i, last, name, val) ==
  FromLine(s, n, i) = Line(name, val, last + 2)

LEMMA EmptyReads ==
  ASSUME NEW s \in Seq(Byte), NEW n \in Nat, n = Len(s),
         NEW i \in Nat, NEW e \in Nat, NEW v \in Nat, NEW last \in Nat,
         NEW name \in Seq(Byte), NEW val \in Seq(Byte), IsFieldName(name),
         Written(s, n, i, e, v, last, name, val), v = last
  PROVE  IsRead(s, n, i, last, name, val)
<1>0. /\ 1 <= i /\ i < e /\ v = e + 2 /\ last + 2 <= n
      /\ Len(val) = last - v
      /\ s[e + 1] = SP /\ s[last] = CR /\ s[last + 1] = LF
  BY DEF Written
<1>1. val = <<>>
  BY <1>0, EmptySeq
<1>2. e + 1 \in 1..(n + 1) /\ v \in (e + 1)..n
  BY <1>0
<1>3. IsWhite(s, e + 1, v - 1)
  <2>1. \A j \in (e + 1)..(v - 1) : j = e + 1
    BY <1>0
  <2> QED
    BY <1>0, <2>1, Zenon DEF IsWhite, is_strict_whitespace
<1>4. s[v] = CR /\ ~is_strict_whitespace(s[v])
  BY <1>0 DEF is_strict_whitespace, CR, SP, HT
<1>5. FromValue(s, n, e + 1, name) =
        IF s[v] # CR THEN FromText(s, n, v, name)
        ELSE IF ~IsFieldName(name) THEN Stopped("bad_field_name")
        ELSE FromNoValue(s, n, v, name)
  BY <1>2, <1>3, <1>4, ValueFound
<1>6. FromNoValue(s, n, v, name) = Line(name, <<>>, v + 2)
  <2>1. v # n
    BY <1>0
  <2> QED
    BY <1>0, <2>1, Zenon DEF FromNoValue
<1>7. FromLine(s, n, i) = FromValue(s, n, e + 1, name)
  BY NameReads
<1> QED
  BY <1>1, <1>4, <1>5, <1>6, <1>7, Zenon DEF IsRead

LEMMA TextReads ==
  ASSUME NEW s \in Seq(Byte), NEW n \in Nat, n = Len(s),
         NEW i \in Nat, NEW e \in Nat, NEW v \in Nat, NEW last \in Nat,
         NEW name \in Seq(Byte), NEW val \in Seq(Byte), IsFieldName(name),
         IsFieldValue(val),
         Written(s, n, i, e, v, last, name, val), v # last
  PROVE  IsRead(s, n, i, last, name, val)
<1>0. /\ 1 <= i /\ i < e /\ v = e + 2 /\ v < last /\ last + 2 <= n
      /\ Len(val) = last - v
      /\ s[e + 1] = SP /\ s[last] = CR /\ s[last + 1] = LF
      /\ ~is_strict_whitespace(s[last + 2])
  BY DEF Written
<1>1. PICK b \in Nat : b = last - v /\ v + b = last /\ b > 0
  BY <1>0
<1>2. b = Len(val) /\ val # <<>> /\ DOMAIN val = 1..b
  BY <1>0, <1>1, EmptySeq, LenProperties
<1>3. \A j \in 1..b : s[v + j - 1] = val[j]
  <2>1. ASSUME NEW j \in 1..b PROVE s[v + j - 1] = val[j]
    <3>1. PICK x \in Nat : x = v + j - 1 /\ x \in v..(last - 1) /\ x - v + 1 = j
      BY <1>1
    <3>2. s[x] = val[x - v + 1]
      BY <3>1 DEF Written
    <3> QED
      BY <3>1, <3>2
  <2> QED
    BY <2>1
<1>4. NoBreak(val)
  BY AcceptedHasNoBreak
<1>5. \A j \in 1..b : val[j] # CR
  BY <1>2, <1>4, Zenon DEF NoBreak
<1>6. s[v] # CR /\ ~is_strict_whitespace(s[v])
  <2>1. s[v] = val[1]
    <3>1. 1 \in 1..b /\ v + 1 - 1 = v
      BY <1>1
    <3> QED
      BY <1>3, <3>1
  <2>2. ~is_not_printable(val[1])
    BY <1>2, Zenon DEF IsFieldValue
  <2> QED
    BY <2>1, <2>2, PrintableIsPlain
<1>7. e + 1 \in 1..(n + 1) /\ v \in (e + 1)..n /\ v \in 1..(n + 1) /\ v \in 1..Len(s)
      /\ last \in v..n /\ v + b <= Len(s)
  BY <1>0, <1>1
<1>8. IsWhite(s, e + 1, v - 1)
  <2>1. \A j \in (e + 1)..(v - 1) : j = e + 1
    BY <1>0
  <2> QED
    BY <1>0, <2>1, Zenon DEF IsWhite, is_strict_whitespace
<1>9. FromValue(s, n, e + 1, name) =
        IF s[v] # CR THEN FromText(s, n, v, name)
        ELSE IF ~IsFieldName(name) THEN Stopped("bad_field_name")
        ELSE FromNoValue(s, n, v, name)
  BY <1>6, <1>7, <1>8, ValueFound
<1>10. EndsValue(s, n, last)
  <2>1. last + 1 < n
    BY <1>0
  <2> QED
    BY <1>0, <2>1, Zenon DEF EndsValue
<1>11. ASSUME NEW j \in v..(last - 1) PROVE ~EndsValue(s, n, j)
  <2>1. PICK x \in 1..b : j = v + x - 1
    <3>1. j - v + 1 \in 1..b /\ j = v + (j - v + 1) - 1
      BY <1>1
    <3> QED
      BY <3>1
  <2>2. s[j] # CR
    BY <1>3, <1>5, <2>1
  <2> QED
    BY <2>2, NotCrEndsNothing
<1>12. FromText(s, n, v, name) = TextEnding(s, v, name, last)
  BY <1>7, <1>10, <1>11, TextEnds
<1>13. Unfolded(s, v, b) = val
  BY <1>2, <1>3, <1>5, <1>7, PlainUnfolds
<1>14. rtrim(Unfolded(s, v, last - v)) = val
  <2>1. rtrim(val) = val
    BY <1>2, ValueIsTrimmed
  <2> QED
    BY <1>1, <1>13, <2>1, Zenon
<1>15. TextEnding(s, v, name, last) = Line(name, val, last + 2)
  BY <1>0, <1>14, Zenon DEF TextEnding
<1>16. FromLine(s, n, i) = FromValue(s, n, e + 1, name)
  BY NameReads
<1> QED
  BY <1>6, <1>9, <1>12, <1>15, <1>16, Zenon DEF IsRead

(* A line that has been written is read with its name and its value. *)
LEMMA LineReads ==
  ASSUME NEW s \in Seq(Byte), NEW n \in Nat, n = Len(s),
         NEW i \in Nat, NEW e \in Nat, NEW v \in Nat, NEW last \in Nat,
         NEW name \in Seq(Byte), NEW val \in Seq(Byte), IsFieldName(name),
         IsFieldValue(val), Written(s, n, i, e, v, last, name, val)
  PROVE  IsRead(s, n, i, last, name, val)
BY EmptyReads, TextReads

-----------------------------------------------------------------------------
(* The text of a field. *)

(* r is u, of k bytes, and then w, of l bytes. *)
IsJoined(r, u, w, k, l) ==
  /\ r \in Seq(Byte)
  /\ Len(r) = k + l
  /\ \A j \in 1..k : r[j] = u[j]
  /\ \A j \in 1..l : r[k + j] = w[j]

LEMMA JoinIsJoined ==
  ASSUME NEW u \in Seq(Byte), NEW w \in Seq(Byte), NEW k \in Nat, NEW l \in Nat,
         k = Len(u), l = Len(w)
  PROVE  IsJoined(u \o w, u, w, k, l)
<1>1. /\ u \o w \in Seq(Byte) /\ Len(u \o w) = k + l
      /\ \A j \in 1..(k + l) :
           (u \o w)[j] = IF j <= k THEN u[j] ELSE w[j - k]
  BY ConcatProperties
<1>2. \A j \in 1..k : j \in 1..(k + l) /\ j <= k
  OBVIOUS
<1>3. \A j \in 1..l : k + j \in 1..(k + l) /\ ~(k + j <= k) /\ (k + j) - k = j
  OBVIOUS
<1>4. ASSUME NEW j \in 1..k PROVE (u \o w)[j] = u[j]
  BY <1>1, <1>2, Zenon
<1>5. ASSUME NEW j \in 1..l PROVE (u \o w)[k + j] = w[j]
  BY <1>1, <1>3, Zenon
<1> QED
  BY <1>1, <1>4, <1>5, Zenon DEF IsJoined

(* Where the parts of a field's text are in it. *)
LineShape(piece, name, val, a, b) ==
  /\ piece \in Seq(Byte)
  /\ Len(piece) = a + b + 4
  /\ \A j \in 1..a : piece[j] = name[j]
  /\ piece[a + 1] = Colon /\ piece[a + 2] = SP
  /\ \A j \in 1..b : piece[a + 2 + j] = val[j]
  /\ piece[a + b + 3] = CR /\ piece[a + b + 4] = LF

LEMMA FieldTextShape ==
  ASSUME NEW name \in Seq(Byte), NEW val \in Seq(Byte),
         NEW a \in Nat, NEW b \in Nat, a = Len(name), b = Len(val)
  PROVE  LineShape(name \o <<Colon, SP>> \o val \o CRLF, name, val, a, b)
<1>0. <<Colon, SP>> \in Seq(Byte) /\ CRLF \in Seq(Byte)
  BY DEF Colon, SP, CRLF, CR, LF, Byte
<1>1. PICK c \in Seq(Byte) : c = <<Colon, SP>>
  BY <1>0, Zenon
<1>2. Len(c) = 2 /\ c[1] = Colon /\ c[2] = SP
  BY <1>1
<1>3. PICK d \in Seq(Byte) : d = CRLF
  BY <1>0, Zenon
<1>4. Len(d) = 2 /\ d[1] = CR /\ d[2] = LF
  BY <1>3 DEF CRLF
<1>5. PICK u : u = name \o c /\ IsJoined(u, name, c, a, 2)
  BY <1>2, JoinIsJoined
<1>6. u \in Seq(Byte) /\ Len(u) = a + 2
  BY <1>5 DEF IsJoined
<1>7. PICK w : w = u \o val /\ IsJoined(w, u, val, a + 2, b)
  <2>1. a + 2 \in Nat
    OBVIOUS
  <2> QED
    BY <1>6, <2>1, JoinIsJoined
<1>8. w \in Seq(Byte) /\ Len(w) = a + 2 + b
  BY <1>7 DEF IsJoined
<1>9. PICK r : r = w \o d /\ IsJoined(r, w, d, a + 2 + b, 2)
  <2>1. a + 2 + b \in Nat
    OBVIOUS
  <2> QED
    BY <1>4, <1>8, <2>1, JoinIsJoined
<1>10. r = name \o <<Colon, SP>> \o val \o CRLF
  BY <1>1, <1>3, <1>5, <1>7, <1>9, Zenon
<1>11. r \in Seq(Byte) /\ Len(r) = a + b + 4
  BY <1>9 DEF IsJoined
<1>12. \A j \in 1..(a + 2 + b) : r[j] = w[j]
  BY <1>9 DEF IsJoined
<1>13. \A j \in 1..(a + 2) : r[j] = u[j]
  BY <1>7, <1>12 DEF IsJoined
<1>14. \A j \in 1..a : r[j] = name[j]
  BY <1>5, <1>13 DEF IsJoined
<1>15. r[a + 1] = Colon /\ r[a + 2] = SP
  <2>1. u[a + 1] = c[1] /\ u[a + 2] = c[2]
    BY <1>5 DEF IsJoined
  <2>2. a + 1 \in 1..(a + 2) /\ a + 2 \in 1..(a + 2)
    OBVIOUS
  <2> QED
    BY <1>2, <1>13, <2>1, <2>2, Zenon
<1>16. ASSUME NEW j \in 1..b PROVE r[a + 2 + j] = val[j]
  <2>1. a + 2 + j \in 1..(a + 2 + b)
    OBVIOUS
  <2>2. w[a + 2 + j] = val[j]
    BY <1>7 DEF IsJoined
  <2> QED
    BY <1>12, <2>1, <2>2, Zenon
<1>17. r[a + b + 3] = CR /\ r[a + b + 4] = LF
  <2>1. r[a + 2 + b + 1] = d[1] /\ r[a + 2 + b + 2] = d[2]
    BY <1>9 DEF IsJoined
  <2>2. a + 2 + b + 1 = a + b + 3 /\ a + 2 + b + 2 = a + b + 4
    OBVIOUS
  <2> QED
    BY <1>4, <2>1, <2>2
<1> QED
  BY <1>10, <1>11, <1>14, <1>15, <1>16, <1>17, Zenon DEF LineShape

(* s has the piece after the place at. *)
HasPiece(s, at, piece) == \A j \in 1..Len(piece) : s[at + j] = piece[j]

(* A piece that has the shape of a line is in the text, from at on. *)
CanRead(s, n, at, piece, name, val, a, b) ==
  /\ at \in Nat /\ a \in Nat /\ b \in Nat /\ a > 0
  /\ s \in Seq(Byte) /\ n \in Nat /\ n = Len(s)
  /\ name \in Seq(Byte) /\ val \in Seq(Byte)
  /\ IsFieldName(name) /\ IsFieldValue(val)
  /\ a = Len(name) /\ b = Len(val)
  /\ LineShape(piece, name, val, a, b) /\ HasPiece(s, at, piece)
  /\ at + a + b + 5 <= n /\ ~is_strict_whitespace(s[at + a + b + 5])

IsWritten(s, n, at, name, val, a, b) ==
  \E e, v, last \in Nat :
    /\ Written(s, n, at + 1, e, v, last, name, val)
    /\ last + 2 = at + a + b + 5

LEMMA PieceIsWritten ==
  ASSUME NEW s, NEW n, NEW at, NEW piece, NEW name, NEW val, NEW a, NEW b,
         CanRead(s, n, at, piece, name, val, a, b)
  PROVE  IsWritten(s, n, at, name, val, a, b)
<1>0. /\ at \in Nat /\ a \in Nat /\ b \in Nat /\ a > 0 /\ n \in Nat
      /\ Len(name) = a /\ Len(val) = b
      /\ LineShape(piece, name, val, a, b) /\ HasPiece(s, at, piece)
      /\ at + a + b + 5 <= n /\ ~is_strict_whitespace(s[at + a + b + 5])
  BY Zenon DEF CanRead
<1>1. PICK i \in Nat, e \in Nat, v \in Nat, last \in Nat :
        /\ i = at + 1 /\ e = at + a + 1 /\ v = at + a + 3
        /\ last = at + a + b + 3
  <2>1. at + 1 \in Nat /\ at + a + 1 \in Nat /\ at + a + 3 \in Nat
        /\ at + a + b + 3 \in Nat
    BY <1>0
  <2> QED
    BY <2>1, Zenon
<1>2. \A j \in 1..(a + b + 4) : s[at + j] = piece[j]
  BY <1>0 DEF LineShape, HasPiece
<1>3. /\ 1 <= i /\ i < e /\ v = e + 2 /\ v <= last /\ last + 2 <= n
      /\ e - i = a /\ last - v = b /\ last + 2 = at + a + b + 5
  BY <1>0, <1>1
<1>4. ASSUME NEW j \in i..(e - 1) PROVE s[j] = name[j - i + 1]
  <2>1. PICK x \in Nat : /\ x = j - i + 1 /\ x \in 1..a /\ at + x = j
                         /\ x \in 1..(a + b + 4)
    <3>1. j - i + 1 \in Nat /\ at + (j - i + 1) = j
          /\ j - i + 1 \in 1..a /\ j - i + 1 \in 1..(a + b + 4)
      BY <1>0, <1>1
    <3> QED
      BY <3>1, Zenon
  <2>2. s[at + x] = piece[x] /\ piece[x] = name[x]
    BY <1>0, <1>2, <2>1 DEF LineShape
  <2> QED
    BY <2>1, <2>2, Zenon
<1>5. ASSUME NEW j \in v..(last - 1) PROVE s[j] = val[j - v + 1]
  <2>1. PICK x \in Nat : /\ x = j - v + 1 /\ x \in 1..b /\ at + (a + 2 + x) = j
                         /\ a + 2 + x \in 1..(a + b + 4)
    <3>1. j - v + 1 \in Nat /\ at + (a + 2 + (j - v + 1)) = j
          /\ j - v + 1 \in 1..b /\ a + 2 + (j - v + 1) \in 1..(a + b + 4)
      BY <1>0, <1>1
    <3> QED
      BY <3>1, Zenon
  <2>2. s[at + (a + 2 + x)] = piece[a + 2 + x] /\ piece[a + 2 + x] = val[x]
    BY <1>0, <1>2, <2>1, Zenon DEF LineShape
  <2> QED
    BY <2>1, <2>2, Zenon
<1>6. s[e] = Colon /\ s[e + 1] = SP /\ s[last] = CR /\ s[last + 1] = LF
  <2>1. /\ a + 1 \in 1..(a + b + 4) /\ at + (a + 1) = e
        /\ a + 2 \in 1..(a + b + 4) /\ at + (a + 2) = e + 1
        /\ a + b + 3 \in 1..(a + b + 4) /\ at + (a + b + 3) = last
        /\ a + b + 4 \in 1..(a + b + 4) /\ at + (a + b + 4) = last + 1
    BY <1>0, <1>1
  <2>2. /\ s[at + (a + 1)] = Colon /\ s[at + (a + 2)] = SP
        /\ s[at + (a + b + 3)] = CR /\ s[at + (a + b + 4)] = LF
    BY <1>0, <1>2, <2>1, Zenon DEF LineShape
  <2> QED
    BY <2>1, <2>2, Zenon
<1>7. ~is_strict_whitespace(s[last + 2])
  BY <1>0, <1>3, Zenon
<1>8. Written(s, n, i, e, v, last, name, val)
  BY <1>0, <1>3, <1>4, <1>5, <1>6, <1>7, Zenon DEF Written
<1> QED
  BY <1>1, <1>3, <1>8, Zenon DEF IsWritten

-----------------------------------------------------------------------------
(* The lines of a map. *)

IsOrder(order, N, m) ==
  /\ N \in Nat
  /\ order \in [1..N -> DOMAIN m]
  /\ \A name \in DOMAIN m : \E i \in 1..N : order[i] = name
  /\ \A i, j \in 1..N : SameName(order[i], order[j]) => i = j

LEMMA NamesAreOrder ==
  ASSUME NEW m, IsFieldMap(m) PROVE IsOrder(Names(m), Cardinality(DOMAIN m), m)
<1>0. PICK N : N = Cardinality(DOMAIN m)
  OBVIOUS
<1>1. PICK order : order = Names(m)
  OBVIOUS
<1>2. /\ N \in Nat /\ order \in [1..N -> DOMAIN m]
      /\ \A name \in DOMAIN m : \E i \in 1..N : order[i] = name
      /\ \A i, j \in 1..N : i < j => NameLess(order[i], order[j])
  BY <1>0, <1>1, FieldsAreWrittenInOrder
<1>3. ASSUME NEW i \in 1..N, NEW j \in 1..N, SameName(order[i], order[j])
      PROVE  i = j
  <2>1. order[i] \in DOMAIN m /\ order[j] \in DOMAIN m
    BY <1>2
  <2>2. order[i] = order[j] /\ order[i] \in Seq(Byte)
    BY <1>3, <2>1 DEF IsFieldMap
  <2>3. ~NameLess(order[i], order[j]) /\ ~NameLess(order[j], order[i])
    BY <2>2, NameLessIrreflexive
  <2>4. ~(i < j) /\ ~(j < i)
    BY <1>2, <2>3
  <2> QED
    BY <1>2, <2>4
<1> QED
  BY <1>0, <1>1, <1>2, <1>3 DEF IsOrder

LinesInOrder(order, N, m) == [i \in 1..N |-> <<order[i], m[order[i]]>>]

LEMMA OrderedLines ==
  ASSUME NEW m, IsFieldMap(m), NEW order, NEW N, IsOrder(order, N, m)
  PROVE  /\ LinesInOrder(order, N, m) \in Seq(StringPair)
         /\ Len(LinesInOrder(order, N, m)) = N
         /\ \A i \in 1..N :
              /\ LinesInOrder(order, N, m)[i] = <<order[i], m[order[i]]>>
              /\ order[i] \in DOMAIN m
              /\ order[i] \in Seq(Byte) /\ m[order[i]] \in Seq(Byte)
<1>1. N \in Nat /\ \A i \in 1..N : order[i] \in DOMAIN m
  BY DEF IsOrder
<1>2. \A i \in 1..N : order[i] \in Seq(Byte) /\ m[order[i]] \in Seq(Byte)
  BY <1>1 DEF IsFieldMap
<1>3. \A i \in 1..N : <<order[i], m[order[i]]>> \in StringPair
  BY <1>2 DEF StringPair
<1>4. LinesInOrder(order, N, m) \in [1..N -> StringPair]
  BY <1>3 DEF LinesInOrder
<1>5. LinesInOrder(order, N, m) \in Seq(StringPair)
      /\ Len(LinesInOrder(order, N, m)) = N
  BY <1>1, <1>4
<1> QED
  BY <1>1, <1>2, <1>5 DEF LinesInOrder

(* The lines of a map give the map. *)
LEMMA OrderedLinesGiveMap ==
  ASSUME NEW m, IsFieldMap(m), NEW order, NEW N, IsOrder(order, N, m)
  PROVE  FieldsOf(LinesInOrder(order, N, m)) = m
<1>0. PICK lines \in Seq(StringPair) :
         /\ lines = LinesInOrder(order, N, m) /\ Len(lines) = N
         /\ \A i \in 1..N : lines[i] = <<order[i], m[order[i]]>>
  BY OrderedLines
<1>1. \A i \in 1..N : /\ lines[i][1] = order[i] /\ lines[i][2] = m[order[i]]
                      /\ order[i] \in DOMAIN m
                      /\ order[i] \in Seq(Byte) /\ m[order[i]] \in Seq(Byte)
  BY <1>0, OrderedLines
<1>2. N \in Nat /\ DOMAIN lines = 1..N
  BY <1>0, LenProperties
<1>3. \A i, j \in 1..N : SameName(order[i], order[j]) => i = j
  BY DEF IsOrder
<1>4. Firsts(lines) = 1..N
  <2>1. ASSUME NEW i \in 1..N, NEW j \in 1..(i - 1)
        PROVE  ~SameName(lines[j][1], lines[i][1])
    <3>1. j \in 1..N /\ j # i
      BY <1>2
    <3>2. ~SameName(order[j], order[i])
      BY <1>3, <3>1
    <3> QED
      BY <1>1, <3>1, <3>2, Zenon
  <2> QED
    BY <1>2, <2>1, Zenon DEF Firsts
<1>5. {lines[i][1] : i \in Firsts(lines)} = DOMAIN m
  <2>1. \A name \in DOMAIN m : \E i \in 1..N : order[i] = name
    BY DEF IsOrder
  <2>2. \A name \in DOMAIN m : \E i \in Firsts(lines) : name = lines[i][1]
    BY <1>1, <1>4, <2>1
  <2>3. \A i \in Firsts(lines) : lines[i][1] \in DOMAIN m
    BY <1>1, <1>4
  <2> QED
    BY <2>2, <2>3, Zenon
<1>6. ASSUME NEW name \in DOMAIN m
      PROVE  FlattenSeq(Elements(lines, name)) = m[name]
  <2>1. PICK i \in 1..N : order[i] = name
    BY DEF IsOrder
  <2>2. PICK a : a = Elements(lines, name)
    OBVIOUS
  <2>3. a \in Seq(Seq(Byte)) /\ Len(a) = N
    BY <1>0, <2>2, ElementsType
  <2>4. \A j \in 1..N : a[j] = Element(lines, j, name)
    BY <1>2, <2>2 DEF Elements
  <2>5. a[i] = m[name]
    <3>1. lines[i][1] = name /\ lines[i][2] = m[name] /\ i \in Firsts(lines)
      BY <1>1, <1>4, <2>1
    <3>2. Element(lines, i, name) = IF ~SameName(name, name) \/ m[name] = <<>>
                                    THEN <<>> ELSE m[name]
      BY <3>1, Zenon DEF Element
    <3>3. SameName(name, name)
      BY <1>1, <2>1, SameNameReflexive
    <3> QED
      BY <2>4, <3>2, <3>3
  <2>6. ASSUME NEW j \in 1..N, j # i PROVE a[j] = <<>>
    <3>1. ~SameName(order[j], order[i])
      BY <1>3, <2>6
    <3>2. ~SameName(lines[j][1], name)
      BY <1>1, <2>1, <3>1
    <3> QED
      BY <2>4, <3>2, Zenon DEF Element
  <2>7. FlattenSeq(a) = a[i]
    BY <2>3, <2>6, FlattenOnly
  <2> QED
    BY <2>2, <2>5, <2>7
<1>7. FieldsOf(lines) = [name \in DOMAIN m |-> FlattenSeq(Elements(lines, name))]
  BY <1>5 DEF FieldsOf, Elements
<1>8. m = [name \in DOMAIN m |-> m[name]]
  BY DEF IsFieldMap
<1>9. FieldsOf(lines) = m
  BY <1>6, <1>7, <1>8
<1> QED
  BY <1>0, <1>9

-----------------------------------------------------------------------------
(* A header that is written: a first line, a line for each field of a map  *)
(* and an empty line.                                                      *)

(* p says where in the text the lines of the fields end, as counted from   *)
(* the end of the first line.                                              *)
Composed(s, n, base, order, N, m, p) ==
  /\ base \in Nat /\ p \in [0..N -> Nat] /\ p[0] = 0
  /\ n = base + p[N] + 2
  /\ s[base + p[N] + 1] = CR /\ s[base + p[N] + 2] = LF
  /\ \A i \in 1..N :
       /\ p[i] = p[i - 1] + Len(FieldText(m, order[i]))
       /\ p[i] <= p[N]
       /\ HasPiece(s, base + p[i - 1], FieldText(m, order[i]))

(* The text of the field has the shape of a line, of known lengths. *)
FieldParts(m, name, a, b) ==
  /\ a \in Nat /\ b \in Nat /\ a = Len(name) /\ b = Len(m[name])
  /\ LineShape(FieldText(m, name), name, m[name], a, b)

LEMMA FieldTextParts ==
  ASSUME NEW m, IsFieldMap(m), NEW name \in DOMAIN m
  PROVE  \E a, b : FieldParts(m, name, a, b)
<1>1. name \in Seq(Byte) /\ m[name] \in Seq(Byte)
  BY DEF IsFieldMap
<1>2. PICK a \in Nat, b \in Nat : a = Len(name) /\ b = Len(m[name])
  BY <1>1, LenProperties
<1>3. LineShape(name \o <<Colon, SP>> \o m[name] \o CRLF, name, m[name], a, b)
  BY <1>1, <1>2, FieldTextShape
<1>4. LineShape(FieldText(m, name), name, m[name], a, b)
  BY <1>3, Zenon DEF FieldText
<1> QED
  BY <1>2, <1>4, Zenon DEF FieldParts

LEMMA ListOfFunction ==
  ASSUME NEW S, NEW N \in Nat, NEW f \in [1..N -> S]
  PROVE  f \in Seq(S) /\ Len(f) = N
OBVIOUS

IsComposed(s, first, m, base, order, N) ==
  /\ s \in Seq(Byte)
  /\ \A j \in 1..base : s[j] = first[j]
  /\ \E p : Composed(s, Len(s), base, order, N, m, p)

LEMMA TextIsComposed ==
  ASSUME NEW m, IsFieldMap(m), NEW first \in Seq(Byte)
  PROVE  IsComposed(first \o FieldTexts(m) \o CRLF, first, m, Len(first),
                    Names(m), Cardinality(DOMAIN m))
<1>len. PICK base \in Nat : base = Len(first)
  BY LenProperties
<1>0. PICK order, N, s :
        /\ base = Len(first) /\ order = Names(m) /\ N = Cardinality(DOMAIN m)
        /\ s = first \o FieldTexts(m) \o CRLF
  BY <1>len
<1>1. IsOrder(order, N, m)
  BY <1>0, NamesAreOrder
<1>2. N \in Nat /\ order \in [1..N -> DOMAIN m] /\ DOMAIN order = 1..N
  BY <1>1 DEF IsOrder
<1> DEFINE pcs == [i \in 1..N |-> FieldText(m, order[i])]
<1>3. \A i \in 1..N : FieldText(m, order[i]) \in Seq(Byte)
  <2>1. \A i \in 1..N : order[i] \in DOMAIN m
    BY <1>2
  <2> QED
    BY <2>1, FieldTextParts, Zenon DEF FieldParts, LineShape
<1>4. pcs \in [1..N -> Seq(Byte)]
  BY <1>3
<1>5. FieldTexts(m) = FlattenSeq(pcs)
  BY <1>0, <1>2, Zenon DEF FieldTexts
<1>6. \A i \in 1..N : pcs[i] = FieldText(m, order[i])
  OBVIOUS
<1>7. PICK pieces : pieces = pcs
  OBVIOUS
<1> HIDE DEF pcs
<1>8. pieces \in Seq(Seq(Byte)) /\ Len(pieces) = N
  BY <1>2, <1>4, <1>7, ListOfFunction
<1>9. PICK flat \in Seq(Byte) : flat = FieldTexts(m)
  BY <1>5, <1>7, <1>8, FlattenType
<1>10. PICK p : IsLayout(p, pieces, flat)
  BY <1>5, <1>7, <1>8, <1>9, FlattenLayout
<1>11. /\ p \in [0..N -> Nat] /\ p[0] = 0 /\ p[N] = Len(flat)
       /\ \A i \in 1..N :
            /\ p[i] = p[i - 1] + Len(pieces[i])
            /\ p[i] <= Len(flat)
            /\ \A j \in 1..Len(pieces[i]) : flat[p[i - 1] + j] = pieces[i][j]
  BY <1>8, <1>10 DEF IsLayout
<1>12. PICK F \in Nat : F = Len(flat)
  BY LenProperties
<1>13. PICK u : u = first \o flat /\ IsJoined(u, first, flat, base, F)
  BY <1>0, <1>12, JoinIsJoined
<1>14. u \in Seq(Byte) /\ Len(u) = base + F
  BY <1>13 DEF IsJoined
<1>15. CRLF \in Seq(Byte) /\ Len(CRLF) = 2 /\ CRLF[1] = CR /\ CRLF[2] = LF
  BY DEF CRLF, CR, LF, Byte
<1>16. s = u \o CRLF
  BY <1>0, <1>9, <1>13, Zenon
<1>17. PICK M \in Nat : M = base + F
  OBVIOUS
<1>18. IsJoined(s, u, CRLF, M, 2)
  BY <1>14, <1>15, <1>16, <1>17, JoinIsJoined
<1>19. /\ s \in Seq(Byte) /\ Len(s) = M + 2
       /\ \A j \in 1..M : s[j] = u[j]
       /\ s[M + 1] = CR /\ s[M + 2] = LF
  <2>1. s[M + 1] = CRLF[1] /\ s[M + 2] = CRLF[2]
    <3>1. 1 \in 1..2 /\ 2 \in 1..2
      OBVIOUS
    <3> QED
      BY <1>18, <3>1, Zenon DEF IsJoined
  <2> QED
    BY <1>15, <1>18, <2>1 DEF IsJoined
<1>20. \A j \in 1..base : s[j] = first[j]
  <2>1. \A j \in 1..base : j \in 1..M
    BY <1>17
  <2>2. \A j \in 1..base : u[j] = first[j]
    BY <1>13 DEF IsJoined
  <2> QED
    BY <1>19, <2>1, <2>2, Zenon
<1>21. ASSUME NEW i \in 1..N
       PROVE  HasPiece(s, base + p[i - 1], pieces[i])
  <2>1. PICK x \in Nat : x = p[i - 1]
    <3>1. i - 1 \in 0..N
      BY <1>2
    <3> QED
      BY <1>11, <3>1
  <2>2. PICK k \in Nat : k = Len(pieces[i])
    BY <1>8, ElementOfSeq, LenProperties
  <2>3. p[i] = x + k /\ p[i] <= F /\ \A j \in 1..k : flat[x + j] = pieces[i][j]
    BY <1>11, <1>12, <2>1, <2>2
  <2>4. ASSUME NEW j \in 1..k PROVE s[(base + x) + j] = pieces[i][j]
    <3>1. /\ x + j \in 1..F /\ base + (x + j) \in 1..M
          /\ base + (x + j) = (base + x) + j
      BY <1>17, <2>3
    <3>2. u[base + (x + j)] = flat[x + j]
      BY <1>13, <3>1 DEF IsJoined
    <3>3. s[base + (x + j)] = u[base + (x + j)]
      BY <1>19, <3>1
    <3> QED
      BY <2>3, <3>1, <3>2, <3>3, Zenon
  <2> QED
    BY <2>1, <2>2, <2>4, Zenon DEF HasPiece
<1>22. Composed(s, Len(s), base, order, N, m, p)
  <2>1. p[N] = F /\ base + p[N] + 1 = M + 1 /\ base + p[N] + 2 = M + 2
    BY <1>11, <1>12, <1>17
  <2>2. Len(s) = base + p[N] + 2
    BY <1>19, <2>1
  <2>3. s[base + p[N] + 1] = CR /\ s[base + p[N] + 2] = LF
    BY <1>19, <2>1, Zenon
  <2>4. \A i \in 1..N : /\ p[i] = p[i - 1] + Len(FieldText(m, order[i]))
                        /\ p[i] <= p[N]
                        /\ HasPiece(s, base + p[i - 1], FieldText(m, order[i]))
    BY <1>6, <1>7, <1>11, <1>12, <1>21, <2>1, Zenon
  <2> QED
    BY <1>11, <2>2, <2>3, <2>4, Zenon DEF Composed
<1> QED
  BY <1>0, <1>19, <1>20, <1>22, Zenon DEF IsComposed

LEMMA ComposedLine ==
  ASSUME NEW m, IsFieldMap(m), ValidFields(m), NEW order, NEW N,
         IsOrder(order, N, m), NEW s, NEW n, NEW base, NEW p,
         Composed(s, n, base, order, N, m, p), NEW i \in 1..N,
         NEW at, at = base + p[i - 1]
  PROVE  /\ at \in Nat /\ HasPiece(s, at, FieldText(m, order[i]))
         /\ order[i] \in DOMAIN m
         /\ base + p[i] = at + Len(FieldText(m, order[i]))
         /\ order[i] # <<>> /\ ~is_strict_whitespace(s[at + 1])
<1>0. base \in Nat /\ N \in Nat /\ p \in [0..N -> Nat] /\ order[i] \in DOMAIN m
  BY DEF Composed, IsOrder
<1>1. PICK x \in Nat : x = p[i - 1]
  <2>1. i - 1 \in 0..N
    BY <1>0
  <2> QED
    BY <1>0, <2>1
<1>2. at \in Nat /\ at = base + x
  BY <1>0, <1>1
<1>3. HasPiece(s, at, FieldText(m, order[i]))
  BY DEF Composed
<1>4. PICK name \in Seq(Byte) : name = order[i] /\ IsFieldName(name)
  BY <1>0 DEF IsFieldMap, ValidFields
<1>5. name \in DOMAIN m
  BY <1>0, <1>4, Zenon
<1>6. PICK a, b : FieldParts(m, name, a, b)
  BY <1>5, FieldTextParts, Zenon
<1>7. /\ a \in Nat /\ b \in Nat /\ a = Len(name)
      /\ LineShape(FieldText(m, name), name, m[name], a, b)
      /\ Len(FieldText(m, name)) = a + b + 4
  BY <1>6, Zenon DEF FieldParts, LineShape
<1>8. name # <<>> /\ a > 0
  BY <1>4, <1>7, EmptySeq DEF IsFieldName, is_token
<1>9. s[at + 1] = name[1]
  <2>1. 1 \in 1..a /\ 1 \in 1..(a + b + 4)
    BY <1>7, <1>8
  <2>2. FieldText(m, name)[1] = name[1]
    BY <1>7, <2>1 DEF LineShape
  <2>3. s[at + 1] = FieldText(m, name)[1]
    BY <1>3, <1>4, <1>7, <2>1 DEF HasPiece
  <2> QED
    BY <2>2, <2>3
<1>10. ~is_strict_whitespace(name[1])
  <2>1. 1 \in DOMAIN name
    BY <1>7, <1>8, LenProperties
  <2>2. ~is_not_printable(name[1])
    BY <1>4, <2>1 DEF IsFieldName, is_token, is_not_token_char
  <2> QED
    BY <2>2, PrintableIsPlain
<1>11. p[i] = p[i - 1] + Len(FieldText(m, order[i]))
  BY DEF Composed
<1>12. base + p[i] = at + Len(FieldText(m, order[i]))
  <2>1. PICK k \in Nat : k = Len(FieldText(m, order[i]))
    <3>1. a + b + 4 \in Nat
      BY <1>7
    <3> QED
      BY <1>4, <1>7, <3>1, Zenon
  <2>2. p[i] = x + k
    BY <1>1, <1>11, <2>1, Zenon
  <2>3. base + (x + k) = at + k
    <3>1. base \in Nat /\ at = base + x
      BY <1>0, <1>2
    <3> QED
      BY <3>1
  <2> QED
    BY <2>1, <2>2, <2>3, Zenon
<1> QED
  BY <1>0, <1>2, <1>3, <1>4, <1>8, <1>9, <1>10, <1>12

(* What follows a line: the next one, or the empty one. *)
LEMMA ComposedNext ==
  ASSUME NEW m, IsFieldMap(m), ValidFields(m), NEW order, NEW N,
         IsOrder(order, N, m), NEW s, NEW n, NEW base, NEW p,
         Composed(s, n, base, order, N, m, p), NEW i \in 1..N,
         NEW next, next = base + p[i] + 1
  PROVE  next \in Nat /\ next < n /\ ~is_strict_whitespace(s[next])
<1>0. /\ base \in Nat /\ N \in Nat /\ p \in [0..N -> Nat]
      /\ n = base + p[N] + 2 /\ p[i] <= p[N]
      /\ s[base + p[N] + 1] = CR
  BY DEF Composed, IsOrder
<1>1. PICK x \in Nat, y \in Nat : x = p[i] /\ y = p[N]
  BY <1>0
<1>2. next \in Nat /\ next < n
  BY <1>0, <1>1
<1>3. CASE i = N
  <2>1. s[next] = CR
    BY <1>0, <1>3
  <2> QED
    BY <1>2, <2>1 DEF is_strict_whitespace, CR, SP, HT
<1>4. CASE i # N
  <2>1. i + 1 \in 1..N /\ (i + 1) - 1 = i
    BY <1>0, <1>4
  <2>2. PICK at : at = base + p[i]
    OBVIOUS
  <2>3. at = base + p[(i + 1) - 1]
    BY <2>1, <2>2
  <2>4. ~is_strict_whitespace(s[at + 1])
    BY <2>1, <2>3, ComposedLine
  <2> QED
    BY <1>2, <2>2, <2>4
<1> QED
  BY <1>3, <1>4

ReadsPiece(s, n, at, name, val, a, b) ==
  FromLine(s, n, at + 1) = Line(name, val, at + a + b + 5)

LEMMA PieceReads ==
  ASSUME NEW s, NEW n, NEW at, NEW piece, NEW name, NEW val, NEW a, NEW b,
         CanRead(s, n, at, piece, name, val, a, b)
  PROVE  ReadsPiece(s, n, at, name, val, a, b)
<1>1. /\ at \in Nat /\ a \in Nat /\ b \in Nat /\ a > 0
      /\ s \in Seq(Byte) /\ n \in Nat /\ n = Len(s)
      /\ name \in Seq(Byte) /\ val \in Seq(Byte)
      /\ IsFieldName(name) /\ IsFieldValue(val)
      /\ a = Len(name) /\ b = Len(val)
      /\ LineShape(piece, name, val, a, b) /\ HasPiece(s, at, piece)
      /\ at + a + b + 5 <= n /\ ~is_strict_whitespace(s[at + a + b + 5])
  BY Zenon DEF CanRead
<1>2. PICK e \in Nat, v \in Nat, last \in Nat :
        /\ Written(s, n, at + 1, e, v, last, name, val)
        /\ last + 2 = at + a + b + 5
  <2>1. IsWritten(s, n, at, name, val, a, b)
    BY PieceIsWritten, Zenon
  <2> QED
    BY <2>1, Zenon DEF IsWritten
<1>3. at + 1 \in Nat
  BY <1>1
<1>4. IsRead(s, n, at + 1, last, name, val)
  BY <1>1, <1>2, <1>3, LineReads
<1> QED
  BY <1>2, <1>4, Zenon DEF IsRead, ReadsPiece

LEMMA ComposedReads ==
  ASSUME NEW m, IsFieldMap(m), ValidFields(m), NEW order, NEW N,
         IsOrder(order, N, m), NEW s \in Seq(Byte), NEW n \in Nat, n = Len(s),
         NEW base, NEW p,
         Composed(s, n, base, order, N, m, p), NEW i \in 1..N
  PROVE  FromLine(s, n, base + p[i - 1] + 1)
           = Line(order[i], m[order[i]], base + p[i] + 1)
<1>1. PICK at : at = base + p[i - 1]
  OBVIOUS
<1>2. /\ at \in Nat /\ HasPiece(s, at, FieldText(m, order[i]))
      /\ order[i] \in DOMAIN m
      /\ base + p[i] = at + Len(FieldText(m, order[i])) /\ order[i] # <<>>
  BY <1>1, ComposedLine
<1>3. PICK next : next = base + p[i] + 1
  OBVIOUS
<1>4. next \in Nat /\ next < n /\ ~is_strict_whitespace(s[next])
  BY <1>3, ComposedNext
<1>5. PICK name \in Seq(Byte), val \in Seq(Byte) :
        /\ name = order[i] /\ val = m[name] /\ name \in DOMAIN m
        /\ IsFieldName(name) /\ IsFieldValue(val)
  BY <1>2 DEF IsFieldMap, ValidFields
<1>6. PICK a, b : FieldParts(m, name, a, b)
  BY <1>5, FieldTextParts, Zenon
<1>7. /\ a \in Nat /\ b \in Nat /\ a = Len(name) /\ b = Len(val) /\ a > 0
      /\ LineShape(FieldText(m, name), name, val, a, b)
      /\ Len(FieldText(m, name)) = a + b + 4
  <2>1. /\ a \in Nat /\ b \in Nat /\ a = Len(name) /\ b = Len(val)
        /\ LineShape(FieldText(m, name), name, val, a, b)
        /\ Len(FieldText(m, name)) = a + b + 4
    BY <1>5, <1>6, Zenon DEF FieldParts, LineShape
  <2>2. a # 0
    BY <1>2, <1>5, <2>1, EmptySeq
  <2>3. a > 0
    BY <2>1, <2>2
  <2> QED
    BY <2>1, <2>3
<1>8. next = at + a + b + 5
  <2>1. base + p[i] = at + (a + b + 4)
    BY <1>2, <1>5, <1>7, Zenon
  <2>2. next = (at + (a + b + 4)) + 1
    BY <1>3, <2>1, Zenon
  <2> QED
    BY <1>2, <1>7, <2>2
<1>9. at + a + b + 5 <= n /\ ~is_strict_whitespace(s[at + a + b + 5])
  <2>1. next <= n
    BY <1>4
  <2> QED
    BY <1>4, <1>8, <2>1, Zenon
<1>10. PICK piece : piece = FieldText(m, name)
  OBVIOUS
<1>11. CanRead(s, n, at, piece, name, val, a, b)
  BY <1>2, <1>5, <1>7, <1>9, <1>10, Zenon DEF CanRead
<1>12. ReadsPiece(s, n, at, name, val, a, b)
  BY <1>11, PieceReads, Zenon
<1> QED
  BY <1>1, <1>3, <1>5, <1>8, <1>12, Zenon DEF ReadsPiece

-----------------------------------------------------------------------------
(* Reading such a header from the end of its first line on. *)

(* After k lines the reader is at the end of the k-th and has just these. *)
ReadUpTo(s, n, base, order, N, m, p, k) ==
  Reads(s, n, base + 1, 0, 0, 0, <<>>)
    = Reads(s, n, base + p[k] + 1, 0, 0, 0,
            SubSeq(LinesInOrder(order, N, m), 1, k))

(* What the lemmas below are about: a map, in its order, and its text. *)
IsWrittenMap(s, n, base, order, N, m, p) ==
  /\ IsFieldMap(m) /\ ValidFields(m) /\ IsOrder(order, N, m)
  /\ s \in Seq(Byte) /\ n \in Nat /\ n = Len(s)
  /\ Composed(s, n, base, order, N, m, p)

LEMMA LinesTaken ==
  ASSUME NEW S, NEW lines \in Seq(S), NEW k \in Nat, k + 1 <= Len(lines)
  PROVE  /\ SubSeq(lines, 1, k) \in Seq(S)
         /\ SubSeq(lines, 1, k + 1) = Append(SubSeq(lines, 1, k), lines[k + 1])
<1>1. Len(lines) \in Nat /\ lines \in [1..Len(lines) -> S]
  BY LenProperties
<1>2. PICK M \in Nat : M = Len(lines)
  BY <1>1
<1> DEFINE u == SubSeq(lines, 1, k)
<1>3. u \in Seq(S) /\ Len(u) = k /\ \A i \in 1..k : u[i] = lines[i]
  BY <1>1, <1>2
<1>4. lines[k + 1] \in S
  BY <1>1, <1>2
<1>5. SubSeq(lines, 1, k + 1) = Append(SubSeq(lines, 1, k), lines[k + 1])
  BY <1>1, <1>2
<1> QED
  BY <1>3, <1>5

LEMMA PlaceInText ==
  ASSUME NEW s, NEW n, NEW base, NEW order, NEW N, NEW m, NEW p,
         IsWrittenMap(s, n, base, order, N, m, p), NEW k \in 0..N
  PROVE  /\ base + p[k] + 1 \in 1..(n + 1)
         /\ n \in 0..Len(s) /\ N \in Nat /\ base + 1 \in 1..(n + 1)
<1>1. /\ base \in Nat /\ N \in Nat /\ p \in [0..N -> Nat] /\ p[0] = 0
      /\ n = base + p[N] + 2 /\ n \in Nat /\ n = Len(s)
      /\ \A i \in 1..N : p[i] <= p[N]
  BY DEF IsWrittenMap, Composed, IsOrder
<1>2. PICK x \in Nat, y \in Nat : x = p[k] /\ y = p[N]
  BY <1>1
<1>3. x <= y
  <2>1. CASE k = 0
    BY <1>1, <1>2, <2>1
  <2>2. CASE k # 0
    <3>1. k \in 1..N
      BY <1>1, <2>2
    <3> QED
      BY <1>1, <1>2, <3>1
  <2> QED
    BY <2>1, <2>2
<1>4. n = base + y + 2
  BY <1>1, <1>2
<1> QED
  BY <1>1, <1>2, <1>3, <1>4

LEMMA ReadOneMore ==
  ASSUME NEW s, NEW n, NEW base, NEW order, NEW N, NEW m, NEW p,
         IsWrittenMap(s, n, base, order, N, m, p),
         NEW k \in Nat, k + 1 <= N, ReadUpTo(s, n, base, order, N, m, p, k)
  PROVE  ReadUpTo(s, n, base, order, N, m, p, k + 1)
<1>0. /\ IsFieldMap(m) /\ ValidFields(m) /\ IsOrder(order, N, m)
      /\ s \in Seq(Byte) /\ n \in Nat /\ n = Len(s)
      /\ Composed(s, n, base, order, N, m, p)
  BY Zenon DEF IsWrittenMap
<1>1. N \in Nat /\ k \in 0..N /\ k + 1 \in 1..N /\ (k + 1) - 1 = k
  BY <1>0 DEF IsOrder
<1>2. PICK here : here = base + p[k] + 1 /\ here \in 1..(n + 1)
  BY <1>1, PlaceInText
<1>3. n \in 0..Len(s)
  BY <1>1, PlaceInText
<1>4. PICK i \in 1..N : i = k + 1 /\ i - 1 = k
  BY <1>1
<1>5. FromLine(s, n, base + p[i - 1] + 1)
        = Line(order[i], m[order[i]], base + p[i] + 1)
  BY <1>0, ComposedReads
<1>6. PICK lines \in Seq(StringPair) :
        /\ lines = LinesInOrder(order, N, m) /\ Len(lines) = N
        /\ lines[i] = <<order[i], m[order[i]]>>
        /\ order[i] \in Seq(Byte) /\ m[order[i]] \in Seq(Byte)
  BY <1>0, OrderedLines
<1>next. PICK next : next = base + p[i] + 1
  OBVIOUS
<1>7. PICK name \in Seq(Byte), val \in Seq(Byte) :
        name = order[i] /\ val = m[order[i]] /\ next = base + p[i] + 1
  BY <1>6, <1>next
<1>8. FromLine(s, n, here) = Line(name, val, next)
  BY <1>2, <1>4, <1>5, <1>7, Zenon
<1>9. k + 1 <= Len(lines)
  BY <1>6
<1>10. PICK u \in Seq(StringPair) :
         /\ u = SubSeq(lines, 1, k)
         /\ SubSeq(lines, 1, k + 1) = Append(u, lines[k + 1])
  BY <1>9, LinesTaken
<1>11. Reads(s, n, here, 0, 0, 0, u)
         = Reads(s, n, next, 0, 0, 0, Append(u, <<name, val>>))
  <2>1. PICK z : z = 0
    OBVIOUS
  <2>2. Reads(s, n, here, z, z, z, u)
          = Reads(s, n, next, z, z, z, Append(u, <<name, val>>))
    <3> HIDE DEF Reads
    <3>1. s \in Seq(Byte) /\ here \in 1..(n + 1)
      BY <1>0, <1>2
    <3> QED
      BY <1>3, <1>8, <3>1, ReadsNext
  <2> QED
    BY <2>1, <2>2, Zenon
<1>12. SubSeq(lines, 1, k + 1) = Append(u, <<name, val>>)
  BY <1>4, <1>6, <1>7, <1>10, Zenon
<1>13. Reads(s, n, base + 1, 0, 0, 0, <<>>) = Reads(s, n, here, 0, 0, 0, u)
  BY <1>2, <1>6, <1>10, Zenon DEF ReadUpTo
<1> QED
  BY <1>4, <1>6, <1>7, <1>11, <1>12, <1>13, Zenon DEF ReadUpTo

LEMMA AllLinesRead ==
  ASSUME NEW s, NEW n, NEW base, NEW order, NEW N, NEW m, NEW p,
         IsWrittenMap(s, n, base, order, N, m, p)
  PROVE  ReadUpTo(s, n, base, order, N, m, p, N)
<1>0. /\ IsFieldMap(m) /\ IsOrder(order, N, m) /\ N \in Nat
      /\ base \in Nat /\ p[0] = 0
  BY DEF IsWrittenMap, Composed, IsOrder
<1>1. ReadUpTo(s, n, base, order, N, m, p, 0)
  <2>1. PICK lines \in Seq(StringPair) : lines = LinesInOrder(order, N, m)
    BY <1>0, OrderedLines
  <2>2. SubSeq(lines, 1, 0) = <<>>
    OBVIOUS
  <2>3. base + p[0] + 1 = base + 1
    BY <1>0
  <2> QED
    BY <2>1, <2>2, <2>3, Zenon DEF ReadUpTo
<1> DEFINE T == {k \in Nat : k <= N => ReadUpTo(s, n, base, order, N, m, p, k)}
<1>2. 0 \in T
  BY <1>1
<1>3. ASSUME NEW k \in Nat, k \in T PROVE k + 1 \in T
  <2>1. SUFFICES ASSUME k + 1 <= N
                 PROVE  ReadUpTo(s, n, base, order, N, m, p, k + 1)
    OBVIOUS
  <2>2. k <= N
    BY <1>0, <2>1
  <2>3. ReadUpTo(s, n, base, order, N, m, p, k)
    BY <1>3, <2>2
  <2> QED
    BY <2>1, <2>3, ReadOneMore
<1>4. \A k \in Nat : k \in T
  <2> HIDE DEF T
  <2> QED
    BY <1>2, <1>3, Induction
<1> QED
  BY <1>0, <1>4

(* Such a header is complete, and gives the map that it was written from. *)
LEMMA WrittenIsRead ==
  ASSUME NEW s, NEW n, NEW base, NEW order, NEW N, NEW m, NEW p,
         IsWrittenMap(s, n, base, order, N, m, p)
  PROVE  /\ FieldLines(s, n)[base + 1].ec = "completed"
         /\ FieldsOf(FieldLines(s, n)[base + 1].lines) = m
<1>0. /\ IsFieldMap(m) /\ IsOrder(order, N, m) /\ N \in Nat
      /\ s \in Seq(Byte) /\ n \in Nat /\ n = Len(s)
      /\ base \in Nat /\ p \in [0..N -> Nat]
      /\ n = base + p[N] + 2
      /\ s[base + p[N] + 1] = CR /\ s[base + p[N] + 2] = LF
  BY DEF IsWrittenMap, Composed, IsOrder
<1>1. PICK y \in Nat : y = p[N]
  BY <1>0
<1>2. PICK here \in Nat : here = base + p[N] + 1 /\ here = base + y + 1
  BY <1>0, <1>1
<1>3. here + 1 = n /\ here \in 1..n /\ here # n /\ here \in 1..(n + 1)
  BY <1>0, <1>1, <1>2
<1>4. s[here] = CR /\ s[here + 1] = LF
  <2>1. here + 1 = base + p[N] + 2
    BY <1>0, <1>3
  <2> QED
    BY <1>0, <1>2, <2>1, Zenon
<1>5. FromLine(s, n, here) = Stopped("completed")
  <2>1. ~(here > n) /\ here # n
    BY <1>3
  <2> QED
    BY <1>4, <2>1, Zenon DEF FromLine
<1>6. n \in 0..Len(s) /\ base + 1 \in 1..(n + 1)
  <2>1. N \in 0..N
    BY <1>0
  <2> QED
    BY <2>1, PlaceInText
<1>7. PICK lines \in Seq(StringPair) :
        lines = LinesInOrder(order, N, m) /\ Len(lines) = N
  BY <1>0, OrderedLines
<1>8. SubSeq(lines, 1, N) = lines
  BY <1>7
<1>9. Reads(s, n, base + 1, 0, 0, 0, <<>>) = Reads(s, n, here, 0, 0, 0, lines)
  <2>1. ReadUpTo(s, n, base, order, N, m, p, N)
    BY AllLinesRead
  <2> QED
    BY <1>2, <1>7, <1>8, <2>1, Zenon DEF ReadUpTo
<1>10. Reads(s, n, here, 0, 0, 0, lines)
         = [ec |-> "completed",
            header |-> [method |-> 0, target |-> 0, version |-> 0,
                        fields |-> FieldsOf(lines)],
            lines |-> lines]
  <2>1. PICK z : z = 0
    OBVIOUS
  <2>2. Reads(s, n, here, z, z, z, lines)
          = [ec |-> "completed",
             header |-> [method |-> z, target |-> z, version |-> z,
                         fields |-> FieldsOf(lines)],
             lines |-> lines]
    <3>1. s \in Seq(Byte) /\ here \in 1..(n + 1) /\ n \in 0..Len(s)
      BY <1>0, <1>3, <1>6
    <3> QED
      BY <1>5, <3>1, ReadsEnd
  <2> QED
    BY <2>1, <2>2, Zenon
<1>11. FromFields(s, n, base + 1, 0, 0, 0)
         = Reads(s, n, base + 1, 0, 0, 0, <<>>)
  BY <1>0, <1>6, ReadsNone
<1>12. PICK section : section = FieldLines(s, n)[base + 1]
  OBVIOUS
<1>13. PICK read : /\ read = FromFields(s, n, base + 1, 0, 0, 0)
                   /\ read.ec = "completed" /\ read.lines = lines
  BY <1>9, <1>10, <1>11
<1>14. read = IF section.ec # "completed" THEN Stopped(section.ec)
              ELSE [ec |-> "completed",
                    header |-> [method |-> 0, target |-> 0, version |-> 0,
                                fields |-> FieldsOf(section.lines)],
                    lines |-> section.lines]
  BY <1>12, <1>13, Zenon DEF FromFields
<1>15. section.ec = "completed"
  <2>1. SUFFICES ASSUME section.ec # "completed" PROVE FALSE
    OBVIOUS
  <2>2. read.ec = section.ec
    BY <1>14, <2>1 DEF Stopped
  <2> QED
    BY <1>13, <2>1, <2>2
<1>16. section.lines = lines
  <2> HIDE DEF FieldsOf
  <2> QED
    BY <1>13, <1>14, <1>15
<1>17. FieldsOf(lines) = m
  BY <1>0, <1>7, OrderedLinesGiveMap
<1> QED
  BY <1>12, <1>15, <1>16, <1>17, Zenon
=============================================================================
