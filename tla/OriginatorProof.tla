-------------------------- MODULE OriginatorProof --------------------------
(***************************************************************************)
(* Proofs about the ranking of the neighbours of an originator, for any    *)
(* number of links, any window and ring size and any OGMs: types, the      *)
(* router is the best neighbour, it is not changed without a reason, and   *)
(* what is rebroadcast promises no more than was heard.                    *)
(***************************************************************************)
EXTENDS Originator, FiniteSetTheorems, SequenceTheorems, TLAPS

-----------------------------------------------------------------------------
(* What bit_get_packet does to the window of a neighbour *)

\* Whatever the distance, bit_get_packet keeps the window inside the array.
LEMMA GetPacketTyped ==
    ASSUME NEW b, b \subseteq Offsets, NEW d \in Int, NEW set_mark \in BOOLEAN,
           NEW r \in bit_get_packet(b, d, set_mark)
    PROVE  r.bits \subseteq Offsets
<1> USE WindowAssumption
<1> DEFINE mark(c, k) == IF set_mark THEN bit_mark(c, k) ELSE c
<1>1. \A c, k : c \subseteq Offsets => mark(c, k) \subseteq Offsets
  BY DEF bit_mark
<1>2. CASE -W <= d /\ d < 0
  <2>1. bit_get_packet(b, d, set_mark) = { [bits |-> mark(b, -d), new |-> 0] }
    BY <1>2 DEF bit_get_packet
  <2>2. r = [bits |-> mark(b, -d), new |-> 0]
    BY <2>1
  <2>3. r.bits = mark(b, -d)
    BY <2>2
  <2> QED
    BY <1>1, <2>3
<1>3. CASE ~ (-W <= d /\ d < 0)
  <2> DEFINE C == IF d > W \/ d < -W THEN {{}} ELSE bit_shift(b, d)
  <2>1. bit_get_packet(b, d, set_mark) = { [bits |-> mark(c, 0), new |-> 1] : c \in C }
    BY <1>3 DEF bit_get_packet
  <2>2. PICK c \in C : r = [bits |-> mark(c, 0), new |-> 1]
    BY <2>1
  <2>3. c \subseteq Offsets
    <3>1. CASE d > W \/ d < -W
      BY <3>1
    <3>2. CASE d = 0
      BY <3>2 DEF bit_shift
    <3>3. CASE 0 < d /\ d < W
      <4>1. C = { {k \in Offsets : k - d \in b} }
        BY <3>3 DEF bit_shift
      <4> QED
        BY <4>1
    <3>4. CASE d = W
      <4>1. C = SUBSET ((W - TopWord)..(W - 1))
        BY <3>4 DEF bit_shift
      <4> QED
        BY <4>1 DEF Offsets
    <3> QED
      BY <1>3, <3>1, <3>2, <3>3, <3>4
  <2> QED
    BY <1>1, <2>2, <2>3
<1> QED
  BY <1>2, <1>3

-----------------------------------------------------------------------------
(* Induction over the natural numbers as a statement about sets, which       *)
(* needs no operator as a parameter; that functions may be defined by        *)
(* primitive recursion; and what follows for lists that are filtered.        *)

\* A set of numbers with 0 and with n + 1 for each n in it has all of them.
\* (If n is missing, adding 1 maps the smaller members into themselves and
\* misses 0, which no injection on a finite set can do.)
LEMMA NatInSteps ==
    ASSUME NEW S \in SUBSET Nat, 0 \in S, \A n \in S : n + 1 \in S
    PROVE  S = Nat
<1> SUFFICES ASSUME NEW n \in Nat, n \notin S
             PROVE  FALSE
  OBVIOUS
<1> DEFINE A == S \cap 0..n
           f == [k \in A |-> k + 1]
<1>1. IsFiniteSet(0..n)
  BY FS_Interval
<1>2. IsFiniteSet(A) /\ Cardinality(A) \in Nat
  BY <1>1, FS_Subset, FS_CardinalityType
<1>3. 0 \in A
  OBVIOUS
<1>4. IsFiniteSet(A \ {0}) /\ Cardinality(A \ {0}) = Cardinality(A) - 1
  BY <1>2, <1>3, FS_RemoveElement
<1>5. f \in [A -> A \ {0}]
  OBVIOUS
<1>6. \A x, y \in A : f[x] = f[y] => x = y
  OBVIOUS
<1> HIDE DEF A, f
<1> QED
  BY <1>2, <1>4, <1>5, <1>6, FS_PigeonHole

\* The same up to a bound.
LEMMA UpTo ==
    ASSUME NEW N \in Nat, NEW S, 0 \in S, \A n \in 0..(N - 1) : n \in S => n + 1 \in S
    PROVE  \A n \in 0..N : n \in S
<1> DEFINE T == {n \in Nat : n \in 0..N => n \in S}
<1>1. 0 \in T
  OBVIOUS
<1>2. \A n \in T : n + 1 \in T
  OBVIOUS
<1>3. T \in SUBSET Nat
  OBVIOUS
<1> HIDE DEF T
<1>4. T = Nat
  BY <1>1, <1>2, <1>3, NatInSteps
<1> QED
  BY <1>4 DEF T

\* f starts with c, and each value follows from the one before.
Follows(f, N, V, c, step) ==
    f \in [0..N -> V] /\ f[0] = c /\ \A i \in 1..N : f[i] = step[<<f[i - 1], i>>]

\* A function on 0..N may be defined by its value at 0 and by each value from
\* the one before.
LEMMA PrimitiveRecursion ==
    ASSUME NEW N \in Nat, NEW V, NEW c, NEW step,
           c \in V, \A v \in V, i \in 1..N : step[<<v, i>>] \in V
    PROVE  \E f : Follows(f, N, V, c, step)
<1> DEFINE Upto(n, f) == f \in [0..n -> V] /\ f[0] = c /\ \A i \in 1..n : f[i] = step[<<f[i - 1], i>>]
           S == {n \in 0..N : \E f : Upto(n, f)}
<1>1. 0 \in S
  <2>1. \E f : Upto(0, f)
    <3> DEFINE g == [i \in 0..0 |-> c]
    <3>1. Upto(0, g)
      OBVIOUS
    <3> HIDE DEF g, Upto
    <3> QED
      BY <3>1
  <2>2. 0 \in 0..N
    OBVIOUS
  <2> HIDE DEF Upto
  <2> QED
    BY <2>1, <2>2
<1>2. ASSUME NEW n \in 0..(N - 1), n \in S
      PROVE  n + 1 \in S
  <2>1. PICK f : Upto(n, f)
    BY <1>2
  <2>2. PICK v \in V : v = step[<<f[n], n + 1>>]
    BY <2>1
  <2> DEFINE g == [i \in 0..(n + 1) |-> IF i = n + 1 THEN v ELSE f[i]]
  <2>3. g \in [0..(n + 1) -> V]
    BY <2>1
  <2>4. g[0] = c /\ g[n + 1] = v /\ \A i \in 0..n : g[i] = f[i]
    BY <2>1
  <2> HIDE DEF g
  <2>5. \A i \in 1..(n + 1) : g[i] = step[<<g[i - 1], i>>]
    <3> SUFFICES ASSUME NEW i \in 1..(n + 1) PROVE g[i] = step[<<g[i - 1], i>>]
      OBVIOUS
    <3>1. CASE i = n + 1
      BY <2>2, <2>4, <3>1
    <3>2. CASE i # n + 1
      <4>1. i \in 1..n /\ i \in 0..n /\ i - 1 \in 0..n
        BY <3>2
      <4> QED
        BY <2>1, <2>4, <4>1
    <3> QED
      BY <3>1, <3>2
  <2>6. Upto(n + 1, g)
    BY <2>3, <2>4, <2>5
  <2> QED
    BY <2>6
<1>3. N \in S
  <2> HIDE DEF S
  <2>1. \A n \in 0..N : n \in S
    BY <1>1, <1>2, UpTo
  <2> QED
    BY <2>1
<1> QED
  BY <1>3 DEF Follows

-----------------------------------------------------------------------------
(* Lists that are filtered *)

\* k[n] is what a loop has kept of list after n elements.
KeptSoFar(list, S, k) ==
    /\ k[0] = <<>>
    /\ \A n \in 1..Len(list) :
          k[n] = IF list[n] \in S THEN Append(k[n - 1], list[n]) ELSE k[n - 1]

LEMMA KeepUnfolds ==
    ASSUME NEW X, NEW list \in Seq(X), NEW S
    PROVE  \E k \in [0..Len(list) -> Seq(X)] : KeptSoFar(list, S, k) /\ Keep(list, S) = k[Len(list)]
<1> DEFINE N == Len(list)
           Fn(k) == [n \in 0..N |-> IF n = 0 THEN <<>>
                                    ELSE IF list[n] \in S THEN Append(k[n - 1], list[n]) ELSE k[n - 1]]
           kept == CHOOSE k : k = Fn(k)
           step == [x \in Seq(X) \X (1..N) |->
                      IF list[x[2]] \in S THEN Append(x[1], list[x[2]]) ELSE x[1]]
<1>1. N \in Nat /\ \A n \in 1..N : list[n] \in X
  OBVIOUS
<1>2. \A t \in Seq(X), n \in 1..N : step[<<t, n>>] \in Seq(X)
  BY <1>1
<1>3. \A t \in Seq(X), n \in 1..N :
         step[<<t, n>>] = IF list[n] \in S THEN Append(t, list[n]) ELSE t
  OBVIOUS
<1>4. <<>> \in Seq(X)
  OBVIOUS
<1>5. PICK f \in [0..N -> Seq(X)] : f[0] = <<>> /\ \A i \in 1..N : f[i] = step[<<f[i - 1], i>>]
  <2> DEFINE V == Seq(X)
             none == <<>>
  <2>1. N \in Nat /\ none \in V /\ \A v \in V, i \in 1..N : step[<<v, i>>] \in V
    BY <1>1, <1>2, <1>4
  <2> HIDE DEF step, N, V, none
  <2>2. \E f : Follows(f, N, V, none, step)
    BY <2>1, PrimitiveRecursion
  <2> QED
    BY <2>2 DEF V, none, Follows
<1>6. f = Fn(f)
  <2> HIDE DEF step, N
  <2>1. ASSUME NEW n \in 1..N
        PROVE  f[n] = IF list[n] \in S THEN Append(f[n - 1], list[n]) ELSE f[n - 1]
    <3>1. f[n] = step[<<f[n - 1], n>>]
      BY <1>5
    <3>2. n - 1 \in 0..N
      BY <1>1
    <3>3. f[n - 1] \in Seq(X)
      BY <1>5, <3>2
    <3> QED
      BY <1>3, <3>1, <3>3
  <2>2. \A n \in 0..N : f[n] = Fn(f)[n]
    <3> SUFFICES ASSUME NEW n \in 0..N PROVE f[n] = Fn(f)[n]
      OBVIOUS
    <3>1. CASE n = 0
      BY <1>5, <3>1
    <3>2. CASE n # 0
      <4>1. n \in 1..N
        BY <1>1, <3>2
      <4> QED
        BY <2>1, <3>2, <4>1
    <3> QED
      BY <3>1, <3>2
  <2> QED
    BY <1>5, <2>2
<1>7. kept = Fn(kept)
  BY <1>6
<1>8. Keep(list, S) = kept[N]
  BY DEF Keep
<1> HIDE DEF kept
<1>9. KeptSoFar(list, S, kept) /\ kept = [n \in 0..N |-> kept[n]]
  <2>1. \A n \in 0..N : kept[n] = IF n = 0 THEN <<>>
                                   ELSE IF list[n] \in S THEN Append(kept[n - 1], list[n]) ELSE kept[n - 1]
    <3> HIDE DEF N
    <3> QED
      BY <1>7, Zenon
  <2>2. kept = [n \in 0..N |-> kept[n]]
    <3> HIDE DEF N
    <3>1. PICK g : g = Fn(kept)
      OBVIOUS
    <3>2. g = [n \in 0..N |-> g[n]]
      BY <3>1
    <3> QED
      BY <1>7, <3>1, <3>2
  <2>3. kept[0] = <<>>
    BY <1>1, <2>1
  <2>4. ASSUME NEW n \in 1..N
        PROVE  kept[n] = IF list[n] \in S THEN Append(kept[n - 1], list[n]) ELSE kept[n - 1]
    <3>1. n \in 0..N /\ n # 0
      BY <1>1
    <3> HIDE DEF N
    <3> QED
      BY <2>1, <3>1, Zenon
  <2> QED
    BY <2>2, <2>3, <2>4 DEF KeptSoFar
<1>10. \A n \in 0..N : kept[n] \in Seq(X)
  <2> DEFINE T == {n \in 0..N : kept[n] \in Seq(X)}
  <2>1. 0 \in T
    <3>1. 0 \in 0..N
      BY <1>1
    <3>2. kept[0] \in Seq(X)
      BY <1>4, <1>9, Zenon DEF KeptSoFar
    <3> QED
      BY <3>1, <3>2
  <2>2. \A n \in 0..(N - 1) : n \in T => n + 1 \in T
    <3> SUFFICES ASSUME NEW n \in 0..(N - 1), kept[n] \in Seq(X)
                 PROVE  kept[n + 1] \in Seq(X)
      BY <1>1
    <3>1. n + 1 \in 1..N /\ (n + 1) - 1 = n
      BY <1>1
    <3>2. kept[n + 1] = IF list[n + 1] \in S THEN Append(kept[n], list[n + 1]) ELSE kept[n]
      BY <1>9, <3>1 DEF KeptSoFar
    <3> QED
      BY <1>1, <3>1, <3>2
  <2> HIDE DEF T, N
  <2>3. \A n \in 0..N : n \in T
    BY <1>1, <2>1, <2>2, UpTo
  <2> QED
    BY <2>3 DEF T
<1> HIDE DEF N
<1>11. kept \in [0..N -> Seq(X)]
  BY <1>9, <1>10
<1> QED
  BY <1>8, <1>9, <1>11 DEF N

\* No element is twice in the list.
Distinct(list) == \A i, j \in 1..Len(list) : list[i] = list[j] => i = j

\* k holds those of the first n elements of list that are in S.
KeepsFirst(list, S, n, k) ==
    /\ \A j \in 1..Len(k) : k[j] \in S /\ \E i \in 1..n : list[i] = k[j]
    /\ \A i \in 1..n : list[i] \in S => \E j \in 1..Len(k) : k[j] = list[i]
    /\ Distinct(list) => Distinct(k)

\* Keep keeps exactly the elements of S, and none of them twice.
LEMMA KeepFacts ==
    ASSUME NEW X, NEW list \in Seq(X), NEW S
    PROVE  /\ Keep(list, S) \in Seq(X)
           /\ ToSet(Keep(list, S)) = ToSet(list) \cap S
           /\ Distinct(list) => Distinct(Keep(list, S))
<1>1. PICK k \in [0..Len(list) -> Seq(X)] : KeptSoFar(list, S, k) /\ Keep(list, S) = k[Len(list)]
  BY KeepUnfolds
<1> DEFINE N == Len(list)
           T == {n \in 0..N : KeepsFirst(list, S, n, k[n])}
<1>2. N \in Nat /\ \A n \in 1..N : list[n] \in X
  OBVIOUS
<1>3. 0 \in T
  <2>1. k[0] = <<>> /\ Len(k[0]) = 0 /\ 1..0 = {} /\ 0 \in 0..N
    BY <1>1, <1>2 DEF KeptSoFar
  <2>2. KeepsFirst(list, S, 0, k[0])
    BY <2>1 DEF KeepsFirst, Distinct
  <2> QED
    BY <2>1, <2>2
<1>4. ASSUME NEW n \in 0..(N - 1), n \in T
      PROVE  n + 1 \in T
  <2>1. n + 1 \in 1..N /\ (n + 1) - 1 = n /\ n \in 0..N /\ n + 1 \in 0..N /\ n \in Nat
    BY <1>2
  <2>2. PICK t \in Seq(X), u \in Seq(X) : t = k[n] /\ u = k[n + 1]
    BY <1>1, <2>1
  <2>3. PICK x \in X : x = list[n + 1]
    BY <1>2, <2>1
  <2>4. u = IF x \in S THEN Append(t, x) ELSE t
    BY <1>1, <2>1, <2>2, <2>3 DEF KeptSoFar
  <2>5. KeepsFirst(list, S, n, t)
    BY <1>4, <2>2
  <2>6. KeepsFirst(list, S, n + 1, u)
    <3>1. CASE x \notin S
      <4>1. \A i \in 1..(n + 1) : i \in 1..n \/ i = n + 1
        BY <2>1
      <4>2. \A i \in 1..n : i \in 1..(n + 1)
        BY <2>1
      <4> QED
        BY <2>3, <2>4, <2>5, <3>1, <4>1, <4>2 DEF KeepsFirst
    <3>2. CASE x \in S
      <4>1. /\ Len(u) = Len(t) + 1
            /\ Len(t) \in Nat
            /\ u[Len(t) + 1] = x
            /\ \A j \in 1..Len(t) : u[j] = t[j]
        BY <2>4, <3>2
      <4>2. ASSUME NEW j \in 1..Len(u)
            PROVE  u[j] \in S /\ \E i \in 1..(n + 1) : list[i] = u[j]
        <5>1. CASE j = Len(t) + 1
          BY <2>1, <2>3, <3>2, <4>1, <5>1
        <5>2. CASE j \in 1..Len(t)
          <6>1. PICK i \in 1..n : list[i] = t[j]
            BY <2>5, <5>2 DEF KeepsFirst
          <6>2. i \in 1..(n + 1)
            BY <2>1
          <6> QED
            BY <2>5, <4>1, <5>2, <6>1, <6>2 DEF KeepsFirst
        <5> QED
          BY <4>1, <5>1, <5>2
      <4>3. ASSUME NEW i \in 1..(n + 1), list[i] \in S
            PROVE  \E j \in 1..Len(u) : u[j] = list[i]
        <5>1. CASE i = n + 1
          BY <2>3, <4>1, <5>1
        <5>2. CASE i \in 1..n
          <6>1. PICK j \in 1..Len(t) : t[j] = list[i]
            BY <2>5, <4>3, <5>2 DEF KeepsFirst
          <6> QED
            BY <4>1, <6>1
        <5> QED
          BY <2>1, <5>1, <5>2
      <4>4. ASSUME Distinct(list)
            PROVE  Distinct(u)
        <5>1. \A i, j \in 1..Len(t) : t[i] = t[j] => i = j
          BY <2>5, <4>4 DEF KeepsFirst, Distinct
        <5>2. \A j \in 1..Len(t) : t[j] # x
          <6> SUFFICES ASSUME NEW j \in 1..Len(t), t[j] = x PROVE FALSE
            OBVIOUS
          <6>1. PICK i \in 1..n : list[i] = x
            BY <2>5 DEF KeepsFirst
          <6>2. i \in 1..N /\ i # n + 1
            BY <1>2, <2>1
          <6> QED
            BY <2>1, <2>3, <4>4, <6>1, <6>2 DEF Distinct
        <5>3. \A j \in 1..Len(u) : j \in 1..Len(t) \/ j = Len(t) + 1
          BY <4>1
        <5> QED
          BY <4>1, <5>1, <5>2, <5>3 DEF Distinct
      <4> QED
        BY <4>2, <4>3, <4>4 DEF KeepsFirst
    <3> QED
      BY <3>1, <3>2
  <2> QED
    BY <2>1, <2>2, <2>6
<1>5. \A n \in 0..N : n \in T
  <2> HIDE DEF T, N
  <2> QED
    BY <1>2, <1>3, <1>4, UpTo
<1>6. PICK r \in Seq(X) : r = Keep(list, S) /\ KeepsFirst(list, S, N, r)
  BY <1>1, <1>2, <1>5
<1>7. \A x : x \in ToSet(r) <=> \E j \in 1..Len(r) : r[j] = x
  BY DEF ToSet
<1>8. \A x : x \in ToSet(list) <=> \E j \in 1..N : list[j] = x
  BY DEF ToSet
<1>9. ToSet(r) = ToSet(list) \cap S
  <2>1. ASSUME NEW x \in ToSet(r) PROVE x \in ToSet(list) /\ x \in S
    BY <1>6, <1>7, <1>8 DEF KeepsFirst
  <2>2. ASSUME NEW x \in ToSet(list), x \in S PROVE x \in ToSet(r)
    BY <1>6, <1>7, <1>8, <2>2 DEF KeepsFirst
  <2> QED
    BY <2>1, <2>2
<1> QED
  BY <1>6, <1>9 DEF KeepsFirst

\* An element at the end of a list.
LEMMA AppendFacts ==
    ASSUME NEW X, NEW list \in Seq(X), NEW x \in X
    PROVE  /\ Append(list, x) \in Seq(X)
           /\ Len(Append(list, x)) = Len(list) + 1 /\ Append(list, x)[Len(list) + 1] = x
           /\ ToSet(Append(list, x)) = ToSet(list) \cup {x}
           /\ Distinct(list) /\ x \notin ToSet(list) => Distinct(Append(list, x))
<1>1. PICK u \in Seq(X) : u = Append(list, x)
  <2>1. Append(list, x) \in Seq(X)
    OBVIOUS
  <2> QED
    BY <2>1
<1>2. /\ Len(u) = Len(list) + 1 /\ Len(list) \in Nat /\ u[Len(list) + 1] = x
      /\ \A i \in 1..Len(list) : u[i] = list[i]
  BY <1>1
<1>3. \A i \in 1..Len(u) : i \in 1..Len(list) \/ i = Len(list) + 1
  BY <1>2
<1>4. \A y : y \in ToSet(u) <=> \E i \in 1..Len(u) : u[i] = y
  BY DEF ToSet
<1>5. \A y : y \in ToSet(list) <=> \E i \in 1..Len(list) : list[i] = y
  BY DEF ToSet
<1>6. ToSet(u) = ToSet(list) \cup {x}
  <2>1. ASSUME NEW y \in ToSet(u) PROVE y \in ToSet(list) \cup {x}
    BY <1>2, <1>3, <1>4, <1>5
  <2>2. ASSUME NEW y \in ToSet(list) PROVE y \in ToSet(u)
    BY <1>2, <1>4, <1>5
  <2>3. x \in ToSet(u)
    BY <1>2, <1>4
  <2> QED
    BY <2>1, <2>2, <2>3
<1>7. ASSUME Distinct(list), x \notin ToSet(list) PROVE Distinct(u)
  <2>1. \A i \in 1..Len(list) : u[i] # x
    BY <1>2, <1>5, <1>7
  <2> QED
    BY <1>2, <1>3, <1>7, <2>1 DEF Distinct
<1> QED
  BY <1>1, <1>2, <1>6, <1>7

-----------------------------------------------------------------------------
(* Sums *)

\* The sum of numbers of which none is above B is at most B for each of them
\* that is not zero.
LEMMA SumIsBounded ==
    ASSUME NEW K \in Nat, NEW B \in Nat, NEW ring \in [0..(K - 1) -> 0..B]
    PROVE  LET sum[i \in 0..K] == IF i = 0 THEN 0 ELSE sum[i - 1] + ring[i - 1]
           IN  /\ sum[K] \in Nat
               /\ sum[K] <= B * Cardinality({i \in 0..(K - 1) : ring[i] # 0})
               /\ Cardinality({i \in 0..(K - 1) : ring[i] # 0}) \in Nat
<1> DEFINE Fn(s) == [i \in 0..K |-> IF i = 0 THEN 0 ELSE s[i - 1] + ring[i - 1]]
           sum == CHOOSE s : s = Fn(s)
           step == [x \in Nat \X (1..K) |-> x[1] + ring[x[2] - 1]]
           NonZero(n) == {i \in 0..(n - 1) : ring[i] # 0}
<1>1. \A i \in 1..K : i - 1 \in 0..(K - 1) /\ ring[i - 1] \in Nat /\ ring[i - 1] <= B
  <2> SUFFICES ASSUME NEW i \in 1..K PROVE i - 1 \in 0..(K - 1) /\ ring[i - 1] \in Nat /\ ring[i - 1] <= B
    OBVIOUS
  <2>1. i - 1 \in 0..(K - 1)
    OBVIOUS
  <2>2. ring[i - 1] \in 0..B
    BY <2>1
  <2> QED
    BY <2>1, <2>2
<1>2. \A v \in Nat, i \in 1..K : step[<<v, i>>] = v + ring[i - 1] /\ step[<<v, i>>] \in Nat
  <2> SUFFICES ASSUME NEW v \in Nat, NEW i \in 1..K
               PROVE  step[<<v, i>>] = v + ring[i - 1] /\ step[<<v, i>>] \in Nat
    OBVIOUS
  <2>1. step[<<v, i>>] = v + ring[i - 1]
    OBVIOUS
  <2>2. v + ring[i - 1] \in Nat
    BY <1>1
  <2> QED
    BY <2>1, <2>2
<1>3. PICK f : Follows(f, K, Nat, 0, step)
  <2> HIDE DEF step
  <2> QED
    BY <1>2, PrimitiveRecursion
<1>4. f = Fn(f)
  <2> HIDE DEF step
  <2>1. ASSUME NEW n \in 1..K
        PROVE  f[n] = f[n - 1] + ring[n - 1]
    <3>1. n - 1 \in 0..K
      OBVIOUS
    <3> QED
      BY <1>2, <1>3, <3>1 DEF Follows
  <2>2. ASSUME NEW n \in 0..K PROVE f[n] = Fn(f)[n]
    <3>1. CASE n = 0
      BY <1>3, <3>1 DEF Follows
    <3>2. CASE n # 0
      <4>1. n \in 1..K
        BY <3>2
      <4> QED
        BY <2>1, <3>2, <4>1
    <3> QED
      BY <3>1, <3>2
  <2> QED
    BY <1>3, <2>2 DEF Follows
<1>5. sum = Fn(sum)
  BY <1>4
<1> HIDE DEF sum
<1>6. sum[0] = 0 /\ \A n \in 1..K : sum[n] = sum[n - 1] + ring[n - 1]
  <2>1. \A n \in 0..K : sum[n] = IF n = 0 THEN 0 ELSE sum[n - 1] + ring[n - 1]
    BY <1>5, Zenon
  <2>2. ASSUME NEW n \in 1..K PROVE n \in 0..K /\ n # 0
    OBVIOUS
  <2>3. sum[0] = 0
    BY <2>1
  <2>4. ASSUME NEW n \in 1..K PROVE sum[n] = sum[n - 1] + ring[n - 1]
    BY <2>1, <2>2, Zenon
  <2> QED
    BY <2>3, <2>4
<1> DEFINE T == {n \in 0..K : /\ IsFiniteSet(NonZero(n)) /\ Cardinality(NonZero(n)) \in Nat
                             /\ sum[n] \in Nat /\ sum[n] <= B * Cardinality(NonZero(n))}
<1>7. 0 \in T
  <2>1. NonZero(0) = {}
    OBVIOUS
  <2>2. IsFiniteSet({}) /\ Cardinality({}) = 0
    BY FS_EmptySet
  <2> QED
    BY <1>6, <2>1, <2>2
<1>8. ASSUME NEW n \in 0..(K - 1), n \in T
      PROVE  n + 1 \in T
  <2>1. PICK v \in 0..B : v = ring[n]
    OBVIOUS
  <2>2. sum[n + 1] = sum[n] + v
    <3>1. n + 1 \in 1..K /\ (n + 1) - 1 = n
      OBVIOUS
    <3> QED
      BY <1>6, <2>1, <3>1
  <2>3. PICK Z \in SUBSET Nat, c \in Nat, b \in Nat :
           Z = NonZero(n) /\ c = Cardinality(Z) /\ b = sum[n] /\ b <= B * c /\ IsFiniteSet(Z)
    <3>1. NonZero(n) \in SUBSET Nat
      OBVIOUS
    <3> HIDE DEF NonZero
    <3> QED
      BY <1>8, <3>1
  <2>4. NonZero(n + 1) = IF v = 0 THEN Z ELSE Z \cup {n}
    BY <2>1, <2>3
  <2>5. n \notin Z
    BY <2>3
  <2>6. IsFiniteSet(Z \cup {n}) /\ Cardinality(Z \cup {n}) = c + 1
    <3> HIDE DEF NonZero
    <3> QED
      BY <2>3, <2>5, FS_AddElement
  <2>7. B * (c + 1) = B * c + B /\ B * c \in Nat /\ B * (c + 1) \in Nat
    OBVIOUS
  <2>8. PICK Y : Y = NonZero(n + 1)
    OBVIOUS
  <2>9. IsFiniteSet(Y) /\ Cardinality(Y) \in Nat /\ b + v <= B * Cardinality(Y)
    <3> HIDE DEF NonZero
    <3>1. CASE v = 0
      BY <2>3, <2>4, <2>8, <3>1
    <3>2. CASE v # 0
      <4>1. Y = Z \cup {n} /\ Cardinality(Y) = c + 1 /\ IsFiniteSet(Y)
        BY <2>4, <2>6, <2>8, <3>2
      <4>2. b + v <= B * c + B
        <5>1. PICK p \in Nat : p = B * c /\ b <= p
          BY <2>3, <2>7
        <5>2. b + v <= p + B
          BY <5>1
        <5> QED
          BY <5>1, <5>2
      <4> QED
        BY <2>7, <4>1, <4>2
    <3> QED
      BY <3>1, <3>2
  <2> HIDE DEF NonZero
  <2>10. n + 1 \in 0..K /\ sum[n + 1] = b + v /\ b + v \in Nat
    BY <2>2, <2>3
  <2> QED
    BY <2>8, <2>9, <2>10
<1>9. \A n \in 0..K : n \in T
  <2> HIDE DEF T
  <2> QED
    BY <1>7, <1>8, UpTo
<1>10. K \in T
  <2> HIDE DEF T
  <2>1. K \in 0..K
    OBVIOUS
  <2> QED
    BY <1>9, <2>1
<1> QED
  BY <1>10 DEF sum


-----------------------------------------------------------------------------
(* Arithmetic of the link qualities *)

LEMMA DivBound ==
    ASSUME NEW n \in Nat, NEW d \in Nat \ {0}, NEW q \in Nat, n <= q * d
    PROVE  n \div d \in 0..q
<1>1. PICK x \in Int, r \in Int : x = n \div d /\ r = n % d /\ n = d * x + r /\ 0 <= r /\ r < d
  OBVIOUS
<1>2. x <= q
  <2> SUFFICES ASSUME x >= q + 1 PROVE FALSE
    BY <1>1
  <2>1. d * x >= d * (q + 1)
    OBVIOUS
  <2>2. d * (q + 1) = q * d + d
    OBVIOUS
  <2> QED
    BY <1>1, <2>1, <2>2
<1>3. x >= 0
  <2> SUFFICES ASSUME x <= -1 PROVE FALSE
    BY <1>1
  <2>1. d * x <= -d
    OBVIOUS
  <2> QED
    BY <1>1, <2>1
<1> QED
  BY <1>1, <1>2, <1>3

LEMMA DivGrows ==
    ASSUME NEW m \in Nat, NEW n \in Nat, NEW d \in Nat \ {0}, m <= n
    PROVE  m \div d \in Nat /\ n \div d \in Nat /\ m \div d <= n \div d
<1>1. PICK x \in Int, r \in Int : x = m \div d /\ r = m % d /\ m = d * x + r /\ 0 <= r /\ r < d
  OBVIOUS
<1>2. PICK y \in Int, t \in Int : y = n \div d /\ t = n % d /\ n = d * y + t /\ 0 <= t /\ t < d
  OBVIOUS
<1>3. x <= y
  <2> SUFFICES ASSUME x >= y + 1 PROVE FALSE
    OBVIOUS
  <2>1. d * x >= d * (y + 1) /\ d * (y + 1) = d * y + d
    OBVIOUS
  <2> QED
    BY <1>1, <1>2, <2>1
<1>4. m <= m * d /\ n <= n * d
  OBVIOUS
<1>5. x \in Nat /\ y \in Nat
  BY <1>1, <1>2, <1>4, DivBound
<1> QED
  BY <1>1, <1>2, <1>3, <1>5

LEMMA OneBelow ==
    ASSUME NEW T \in Nat \ {0}
    PROVE  /\ (0 - 1) % T = T - 1
           /\ \A n \in 1..T : (n - 1) % T = n - 1
<1>1. PICK x \in Int, r \in Int :
         x = (0 - 1) \div T /\ r = (0 - 1) % T /\ 0 - 1 = T * x + r /\ 0 <= r /\ r < T
  OBVIOUS
<1>2. x = -1
  <2>1. ASSUME x <= -2 PROVE FALSE
    <3>1. T * x <= T * (-2)
      BY <2>1
    <3> QED
      BY <1>1, <3>1
  <2>2. ASSUME x >= 0 PROVE FALSE
    <3>1. T * x >= 0
      BY <2>2
    <3> QED
      BY <1>1, <3>1
  <2> QED
    BY <2>1, <2>2
<1>3. T * x = -T
  BY <1>2
<1>4. ASSUME NEW n \in 1..T PROVE (n - 1) % T = n - 1
  <2>1. PICK k \in Nat : k = n - 1 /\ k < T
    OBVIOUS
  <2>2. k % T = k
    BY <2>1
  <2> QED
    BY <2>1, <2>2
<1> QED
  BY <1>1, <1>3, <1>4

LEMMA TimesGrows ==
    ASSUME NEW x \in Nat, NEW a \in Nat, NEW b \in Nat, a <= b
    PROVE  x * a \in Nat /\ x * b \in Nat /\ x * a <= x * b
OBVIOUS

\* A scaling by a / T with a at most T does not grow what it scales.
LEMMA ScaleBound ==
    ASSUME NEW x \in Nat, NEW T \in Nat \ {0}, NEW a \in 0..T
    PROVE  (x * a) \div T \in 0..x
<1>1. x * a \in Nat /\ x * a <= x * T
  BY TimesGrows
<1> QED
  BY <1>1, DivBound

LEMMA OwnTq ==
    ASSUME NEW echoed \in Nat, NEW counted \in Nat
    PROVE  tq_own(echoed, counted) \in 0..TQMax
<1> DEFINE total == IF echoed > counted THEN counted ELSE echoed
<1>1. total \in 0..counted /\ TQMax \in Nat /\ SendMinimum \in Nat \ {0}
  BY OriginatorAssumption
<1>2. CASE total < SendMinimum \/ counted < RecvMinimum
  BY <1>1, <1>2 DEF tq_own
<1>3. CASE ~ (total < SendMinimum \/ counted < RecvMinimum)
  <2>1. counted \in Nat \ {0}
    BY <1>1, <1>3, OriginatorAssumption
  <2>2. (TQMax * total) \div counted \in 0..TQMax
    <3> HIDE DEF total
    <3> QED
      BY <1>1, <2>1, ScaleBound
  <2>3. tq_own(echoed, counted) = (TQMax * total) \div counted
    BY <1>3 DEF tq_own
  <2> QED
    BY <2>2, <2>3
<1> QED
  BY <1>2, <1>3

LEMMA AsymPenalty ==
    ASSUME NEW counted \in 0..W
    PROVE  tq_asym_penalty(counted) \in 0..TQMax
<1>1. PICK v \in Nat : v = W - counted /\ v <= W
  BY WindowAssumption
<1>2. TQMax \in Nat /\ W \in Nat \ {0}
  BY OriginatorAssumption, WindowAssumption
<1>3. TQMax * v \in Nat /\ TQMax * v <= TQMax * W /\ TQMax * W \in Nat
  BY <1>1, <1>2, TimesGrows
<1>4. TQMax * v * v \in Nat /\ TQMax * v * v <= TQMax * W * W /\ TQMax * W * W \in Nat
  <2>1. PICK x \in Nat, y \in Nat : x = TQMax * v /\ y = TQMax * W /\ x <= y
    BY <1>3
  <2>2. x * v <= x * W /\ x * W <= y * W /\ x * v \in Nat /\ y * W \in Nat /\ x * W \in Nat
    BY <1>1, <1>2, <2>1
  <2> QED
    BY <2>1, <2>2
<1>5. TQMax * v * v * v \in Nat /\ TQMax * v * v * v <= TQMax * W * W * W
  <2>1. PICK x \in Nat, y \in Nat : x = TQMax * v * v /\ y = TQMax * W * W /\ x <= y
    BY <1>4
  <2>2. x * v <= x * W /\ x * W <= y * W /\ x * v \in Nat /\ y * W \in Nat /\ x * W \in Nat
    BY <1>1, <1>2, <2>1
  <2> QED
    BY <2>1, <2>2
<1>6. W * W * W \in Nat \ {0} /\ TQMax * W * W * W = TQMax * (W * W * W)
  BY <1>2
<1>7. (TQMax * v * v * v) \div (W * W * W) \in 0..TQMax
  <2>1. PICK x \in Nat, d \in Nat \ {0} : x = TQMax * v * v * v /\ d = W * W * W /\ x <= TQMax * d
    BY <1>5, <1>6
  <2>2. x \div d \in 0..TQMax
    BY <1>2, <2>1, DivBound
  <2> QED
    BY <2>1, <2>2
<1>8. tq_asym_penalty(counted) = TQMax - (TQMax * v * v * v) \div (W * W * W)
  BY <1>1 DEF tq_asym_penalty
<1> QED
  BY <1>2, <1>7, <1>8

\* isBidirectionalNeigh never raises the tq of an OGM.
LEMMA LinkTqBound ==
    ASSUME NEW tq \in Nat, NEW echoed \in Nat, NEW counted \in 0..W
    PROVE  LinkTq(tq, echoed, counted) \in 0..tq
<1>1. PICK a \in 0..TQMax, b \in 0..TQMax : a = tq_own(echoed, counted) /\ b = tq_asym_penalty(counted)
  <2>1. counted \in Nat
    BY WindowAssumption
  <2>2. tq_own(echoed, counted) \in 0..TQMax
    BY <2>1, OwnTq
  <2>3. tq_asym_penalty(counted) \in 0..TQMax
    BY AsymPenalty
  <2> QED
    BY <2>2, <2>3
<1>2. TQMax \in Nat \ {0} /\ TQMax * TQMax \in Nat \ {0}
  BY OriginatorAssumption
<1>3. tq * a \in Nat /\ tq * TQMax \in Nat /\ tq * a <= tq * TQMax
  BY <1>2, TimesGrows
<1>4. tq * a * b \in Nat /\ tq * a * b <= tq * TQMax * TQMax
  <2>1. PICK x \in Nat, y \in Nat : x = tq * a /\ y = tq * TQMax /\ x <= y
    BY <1>3
  <2>2. x * b <= x * TQMax /\ x * TQMax <= y * TQMax /\ x * b \in Nat /\ y * TQMax \in Nat /\ x * TQMax \in Nat
    BY <1>1, <1>2, <2>1
  <2> QED
    BY <2>1, <2>2
<1>5. tq * TQMax * TQMax = tq * (TQMax * TQMax)
  BY <1>2
<1>6. (tq * a * b) \div (TQMax * TQMax) \in 0..tq
  <2>1. PICK x \in Nat, d \in Nat \ {0} : x = tq * a * b /\ d = TQMax * TQMax /\ x <= tq * d
    BY <1>2, <1>4, <1>5
  <2>2. x \div d \in 0..tq
    BY <2>1, DivBound
  <2> QED
    BY <2>1, <2>2
<1> QED
  BY <1>1, <1>6 DEF LinkTq

-----------------------------------------------------------------------------
(* The ring buffers *)

\* The average of the entries of a ring is at most the largest of them.
LEMMA AvgBound ==
    ASSUME NEW h \in Nat, NEW ring \in [0..(G - 1) -> 0..h]
    PROVE  ring_buffer_avg(ring) \in 0..h
<1> DEFINE count == Cardinality({i \in 0..(G - 1) : ring[i] # 0})
           sum[i \in 0..G] == IF i = 0 THEN 0 ELSE sum[i - 1] + ring[i - 1]
<1>1. G \in Nat
  BY OriginatorAssumption
<1>2. sum[G] \in Nat /\ sum[G] <= h * count /\ count \in Nat
  BY <1>1, SumIsBounded
<1>3. ring_buffer_avg(ring) = IF count = 0 THEN 0 ELSE sum[G] \div count
  BY DEF ring_buffer_avg
<1> HIDE DEF count, sum
<1>4. CASE count = 0
  BY <1>3, <1>4
<1>5. CASE count # 0
  <2>1. PICK s \in Nat, c \in Nat \ {0} : s = sum[G] /\ c = count /\ s <= h * c
    BY <1>2, <1>5
  <2>2. s \div c \in 0..h
    BY <2>1, DivBound
  <2> QED
    BY <1>3, <1>5, <2>1, <2>2
<1> QED
  BY <1>4, <1>5

\* Nothing in a neigh_node is better than h, the best tq heard so far, and hop,
\* the highest ttl.
GoodNode(n, h, hop) ==
    /\ n \in NeighNodes
    /\ n.tq_avg <= h
    /\ n.last_ttl <= hop
    /\ \A i \in 0..(G - 1) : n.tq_recv[i] <= h

LEMMA PushGood ==
    ASSUME NEW h \in 0..TQMax, NEW hop \in 0..(TtlSpace - 1), NEW v \in 0..h, NEW n, GoodNode(n, h, hop)
    PROVE  GoodNode(push_tq(n, v), h, hop) /\ push_tq(n, v).last_ttl = n.last_ttl
<1> USE OriginatorAssumption
<1>1. PICK bits \in SUBSET Offsets, ring \in Rings, ix \in 0..(G - 1), avg \in 0..TQMax,
           ttl \in 0..(TtlSpace - 1), t \in 0..MaxTime :
        n = [real_bits |-> bits, tq_recv |-> ring, tq_index |-> ix, tq_avg |-> avg,
             last_ttl |-> ttl, last_valid |-> t]
  BY DEF GoodNode, NeighNodes
<1>2. PICK ring2 : ring2 = [ring EXCEPT ![ix] = v]
  OBVIOUS
<1>3. PICK ix2 : ix2 = (ix + 1) % G
  OBVIOUS
<1>4. ix2 \in 0..(G - 1)
  BY <1>3
<1>5. ring2 \in [0..(G - 1) -> 0..h]
  BY <1>1, <1>2 DEF GoodNode, Rings
<1>6. PICK avg2 \in 0..h : avg2 = ring_buffer_avg(ring2)
  BY <1>5, AvgBound
<1>7. ring_buffer_set(n, v) = [real_bits |-> bits, tq_recv |-> ring2, tq_index |-> ix2, tq_avg |-> avg,
                               last_ttl |-> ttl, last_valid |-> t]
  <2>1. n.tq_index = ix /\ n.tq_recv = ring
    BY <1>1
  <2>2. ring_buffer_set(n, v) = [n EXCEPT !.tq_recv[ix] = v, !.tq_index = ix2]
    BY <1>3, <2>1, Zenon DEF ring_buffer_set
  <2>3. [n EXCEPT !.tq_recv[ix] = v, !.tq_index = ix2] = [n EXCEPT !.tq_recv = ring2, !.tq_index = ix2]
    BY <1>2, <2>1
  <2>4. [n EXCEPT !.tq_recv = ring2, !.tq_index = ix2]
          = [real_bits |-> bits, tq_recv |-> ring2, tq_index |-> ix2, tq_avg |-> avg,
             last_ttl |-> ttl, last_valid |-> t]
    <3> DEFINE Fields == {"real_bits", "tq_recv", "tq_index", "tq_avg", "last_ttl", "last_valid"}
    <3>1. PICK m : m = [n EXCEPT !.tq_recv = ring2, !.tq_index = ix2]
      OBVIOUS
    <3>2. DOMAIN n = Fields
      BY <1>1
    <3>3. m = [s \in Fields |-> m[s]]
      BY <3>1, <3>2
    <3>4. /\ m.real_bits = bits /\ m.tq_recv = ring2 /\ m.tq_index = ix2
          /\ m.tq_avg = avg /\ m.last_ttl = ttl /\ m.last_valid = t
      BY <1>1, <3>1
    <3>5. m = [real_bits |-> bits, tq_recv |-> ring2, tq_index |-> ix2, tq_avg |-> avg,
               last_ttl |-> ttl, last_valid |-> t]
      BY <3>3, <3>4
    <3> QED
      BY <3>1, <3>5
  <2> QED
    BY <2>2, <2>3, <2>4
<1>8. push_tq(n, v) = [real_bits |-> bits, tq_recv |-> ring2, tq_index |-> ix2, tq_avg |-> avg2,
                       last_ttl |-> ttl, last_valid |-> t]
  BY <1>6, <1>7 DEF push_tq
<1>9. ring2 \in Rings /\ avg2 \in 0..TQMax
  BY <1>5, <1>6 DEF Rings
<1>10. ttl <= hop
  BY <1>1 DEF GoodNode
<1>11. push_tq(n, v) \in NeighNodes
  BY <1>4, <1>8, <1>9 DEF NeighNodes
<1>12. /\ push_tq(n, v).tq_avg = avg2
       /\ push_tq(n, v).last_ttl = ttl
       /\ push_tq(n, v).tq_recv = ring2
  BY <1>8
<1>13. avg2 <= h /\ \A i \in 0..(G - 1) : ring2[i] <= h
  BY <1>5, <1>6
<1>14. n.last_ttl = ttl
  BY <1>1
<1> QED
  BY <1>10, <1>11, <1>12, <1>13, <1>14 DEF GoodNode

\* The other fields do not matter for that.
WithBits(n, bits) == [n EXCEPT !.real_bits = bits]
WithValid(n, t) == [n EXCEPT !.last_valid = t]

LEMMA SetBitsGood ==
    ASSUME NEW h \in 0..TQMax, NEW hop \in 0..(TtlSpace - 1), NEW bits \in SUBSET Offsets, NEW n, GoodNode(n, h, hop)
    PROVE  GoodNode(WithBits(n, bits), h, hop) /\ WithBits(n, bits).tq_avg = n.tq_avg
<1>1. PICK m : m = [n EXCEPT !.real_bits = bits]
  OBVIOUS
<1>2. n \in NeighNodes
  BY DEF GoodNode
<1>3. m \in NeighNodes
  BY <1>1, <1>2 DEF NeighNodes
<1>4. m.tq_avg = n.tq_avg /\ m.last_ttl = n.last_ttl /\ m.tq_recv = n.tq_recv
  BY <1>1, <1>2 DEF NeighNodes
<1>5. GoodNode(m, h, hop)
  BY <1>3, <1>4 DEF GoodNode
<1> QED
  BY <1>1, <1>4, <1>5 DEF WithBits

LEMMA SetValidGood ==
    ASSUME NEW h \in 0..TQMax, NEW hop \in 0..(TtlSpace - 1), NEW t \in 0..MaxTime, NEW n, GoodNode(n, h, hop)
    PROVE  GoodNode(WithValid(n, t), h, hop) /\ WithValid(n, t).tq_avg = n.tq_avg
<1>1. PICK m : m = [n EXCEPT !.last_valid = t]
  OBVIOUS
<1>2. n \in NeighNodes
  BY DEF GoodNode
<1>3. m \in NeighNodes
  BY <1>1, <1>2 DEF NeighNodes
<1>4. m.tq_avg = n.tq_avg /\ m.last_ttl = n.last_ttl /\ m.tq_recv = n.tq_recv /\ m.real_bits = n.real_bits
  BY <1>1, <1>2 DEF NeighNodes
<1>5. GoodNode(m, h, hop)
  BY <1>3, <1>4 DEF GoodNode
<1> QED
  BY <1>1, <1>4, <1>5 DEF WithValid

LEMMA SetTtlGood ==
    ASSUME NEW h \in 0..TQMax, NEW hop \in 0..(TtlSpace - 1), NEW t \in 0..MaxTime, NEW ttl \in 0..hop, NEW n, GoodNode(n, h, hop)
    PROVE  GoodNode([n EXCEPT !.last_valid = t, !.last_ttl = ttl], h, hop)
<1>1. PICK m : m = [n EXCEPT !.last_valid = t, !.last_ttl = ttl]
  OBVIOUS
<1>2. n \in NeighNodes
  BY DEF GoodNode
<1>3. ttl \in 0..(TtlSpace - 1) /\ ttl <= hop
  BY OriginatorAssumption
<1>4. m \in NeighNodes
  BY <1>1, <1>2, <1>3 DEF NeighNodes
<1>5. m.tq_avg = n.tq_avg /\ m.last_ttl = ttl /\ m.tq_recv = n.tq_recv
  BY <1>1, <1>2 DEF NeighNodes
<1>6. GoodNode(m, h, hop)
  BY <1>3, <1>4, <1>5 DEF GoodNode
<1> QED
  BY <1>1, <1>6

LEMMA NewGood ==
    ASSUME NEW h \in 0..TQMax, NEW hop \in 0..(TtlSpace - 1)
    PROVE  GoodNode(NewNeighbour, h, hop) /\ NewNeighbour.tq_avg = 0
BY OriginatorAssumption DEF GoodNode, NewNeighbour, NeighNodes, Rings

-----------------------------------------------------------------------------
(* count_real_packets and update_orig *)

GoodNodes(nodes, h, hop) ==
    /\ nodes \in [Links -> NeighNodes]
    /\ \A m \in Links : GoodNode(nodes[m], h, hop)

\* count_real_packets touches no tq.
LEMMA CountedGood ==
    ASSUME TypeOK, NEW h \in 0..TQMax, NEW hop \in 0..(TtlSpace - 1), GoodNodes(neigh, h, hop),
           NEW l \in Links, NEW seq \in 1..MaxSeq, NEW nodes \in Counted(l, seq)
    PROVE  /\ GoodNodes(nodes, h, hop)
           /\ \A m \in Links : nodes[m].tq_avg = neigh[m].tq_avg
<1> DEFINE d == Int16(seq - last_real_seqno)
           after(m) == {r.bits : r \in bit_get_packet(neigh[m].real_bits, d, m = l)}
           Windows == {f \in [Listed -> UNION {after(m) : m \in Listed}] :
                         \A m \in Listed : f[m] \in after(m)}
<1>1. PICK f \in Windows :
         nodes = [m \in Links |-> IF m \in Listed THEN [neigh[m] EXCEPT !.real_bits = f[m]]
                                                  ELSE neigh[m]]
  BY DEF Counted
<1>2. d \in Int
  BY OriginatorAssumption, WindowAssumption DEF TypeOK, Int16
<1>3. ASSUME NEW m \in Listed, m \in Links
      PROVE  f[m] \in SUBSET Offsets
  <2>1. PICK r \in bit_get_packet(neigh[m].real_bits, d, m = l) : f[m] = r.bits
    BY <1>1
  <2>2. neigh[m].real_bits \subseteq Offsets
    BY <1>3 DEF GoodNodes, GoodNode, NeighNodes
  <2>3. PICK b \in SUBSET Offsets : b = neigh[m].real_bits
    BY <2>2
  <2> HIDE DEF d
  <2>4. \E mark \in BOOLEAN : r \in bit_get_packet(b, d, mark)
    <3>1. CASE m = l
      BY <2>1, <2>3, <3>1 DEF bit_get_packet
    <3>2. CASE m # l
      BY <2>1, <2>3, <3>2 DEF bit_get_packet
    <3> QED
      BY <3>1, <3>2
  <2>5. r.bits \subseteq Offsets
    BY <1>2, <2>4, GetPacketTyped
  <2> QED
    BY <2>1, <2>5
<1>4. ASSUME NEW m \in Links
      PROVE  GoodNode(nodes[m], h, hop) /\ nodes[m].tq_avg = neigh[m].tq_avg
  <2>1. CASE m \in Listed
    <3>1. PICK bits \in SUBSET Offsets : bits = f[m]
      BY <1>3, <2>1
    <3>2. PICK n : n = neigh[m]
      OBVIOUS
    <3>3. nodes[m] = WithBits(n, bits)
      BY <1>1, <2>1, <3>1, <3>2 DEF WithBits
    <3>4. GoodNode(n, h, hop)
      BY <3>2 DEF GoodNodes
    <3> QED
      BY <3>2, <3>3, <3>4, SetBitsGood
  <2>2. CASE m \notin Listed
    BY <1>1, <2>2 DEF GoodNodes
  <2> QED
    BY <2>1, <2>2
<1>5. nodes \in [Links -> NeighNodes]
  <2>1. \A m \in Links : nodes[m] \in NeighNodes
    BY <1>4 DEF GoodNode
  <2>2. nodes = [m \in Links |-> nodes[m]]
    BY <1>1
  <2> QED
    BY <2>1, <2>2
<1> QED
  BY <1>4, <1>5 DEF GoodNodes

LEMMA RankedGood ==
    ASSUME TypeOK, NEW h \in 0..TQMax, NEW hop \in 0..(TtlSpace - 1), NEW nodes, GoodNodes(nodes, h, hop), NEW list \in Seq(Links),
           NEW l \in Links, NEW tq \in 0..h, NEW ttl \in 0..hop, NEW dup \in BOOLEAN
    PROVE  LET ranked == RankedNodes(list, nodes, l, tq, ttl, dup)
           IN  /\ GoodNodes(ranked, h, hop)
               /\ \A m \in Links \ (ToSet(list) \cup {l}) : ranked[m] = nodes[m]
<1>1. PICK ranked : ranked = RankedNodes(list, nodes, l, tq, ttl, dup)
  OBVIOUS
<1>2. ASSUME NEW m \in Links
      PROVE  GoodNode(ranked[m], h, hop)
  <2>1. CASE m = l
    <3>1. PICK n : n = push_tq(nodes[l], tq)
      OBVIOUS
    <3>2. GoodNode(n, h, hop)
      BY <3>1, PushGood DEF GoodNodes
    <3>3. PICK t \in 0..hop : t = IF dup THEN nodes[l].last_ttl ELSE ttl
      <4>1. nodes[l].last_ttl \in 0..(TtlSpace - 1) /\ nodes[l].last_ttl <= hop
        BY DEF GoodNodes, GoodNode, NeighNodes
      <4>2. nodes[l].last_ttl \in 0..hop
        BY <4>1, OriginatorAssumption
      <4> QED
        BY <4>2
    <3>4. ranked[m] = [n EXCEPT !.last_valid = curr_time, !.last_ttl = t]
      BY <1>1, <2>1, <3>1, <3>3 DEF RankedNodes
    <3>5. PICK now \in 0..MaxTime : now = curr_time
      BY DEF TypeOK
    <3>6. GoodNode([n EXCEPT !.last_valid = now, !.last_ttl = t], h, hop)
      BY <3>2, SetTtlGood
    <3> QED
      BY <3>4, <3>5, <3>6
  <2>2. CASE m # l /\ ~ dup /\ m \in ToSet(list)
    <3>1. ranked[m] = push_tq(nodes[m], 0)
      BY <1>1, <2>2 DEF RankedNodes
    <3>2. 0 \in 0..h
      OBVIOUS
    <3> QED
      BY <3>1, <3>2, PushGood DEF GoodNodes
  <2>3. CASE m # l /\ ~ (~ dup /\ m \in ToSet(list))
    BY <1>1, <2>3 DEF RankedNodes, GoodNodes
  <2> QED
    BY <2>1, <2>2, <2>3
<1>3. ranked \in [Links -> NeighNodes]
  <2>1. \A m \in Links : ranked[m] \in NeighNodes
    BY <1>2 DEF GoodNode
  <2>2. ranked = [m \in Links |-> ranked[m]]
    BY <1>1 DEF RankedNodes
  <2> QED
    BY <2>1, <2>2
<1>4. \A m \in Links \ (ToSet(list) \cup {l}) : ranked[m] = nodes[m]
  BY <1>1 DEF RankedNodes
<1> QED
  BY <1>1, <1>2, <1>3, <1>4 DEF GoodNodes

\* The list of neighbours, however it is ordered.
LEMMA OrderFacts ==
    ASSUME NEW list \in Seq(Links), NEW l \in Links
    PROVE  /\ Order(list, l) \in Seq(Links)
           /\ ToSet(Order(list, l)) = ToSet(list) \cup {l}
           /\ Distinct(list) => Distinct(Order(list, l))
           /\ Order(list, l)[Len(Order(list, l))] = l
<1>1. PICK S : S = ToSet(list) \ {l}
  OBVIOUS
<1>2. PICK k : k = Keep(list, S)
  OBVIOUS
<1>3. k \in Seq(Links) /\ ToSet(k) = ToSet(list) \cap S /\ (Distinct(list) => Distinct(k))
  BY <1>2, KeepFacts
<1>4. Order(list, l) = Append(k, l)
  BY <1>1, <1>2 DEF Order
<1>5. ToSet(k) = ToSet(list) \ {l}
  BY <1>1, <1>3
<1> QED
  BY <1>3, <1>4, <1>5, AppendFacts

LEMMA WithFacts ==
    ASSUME NEW list \in Seq(Links), NEW l \in Links
    PROVE  /\ With(list, l) \in Seq(Links)
           /\ ToSet(With(list, l)) = ToSet(list) \cup {l}
           /\ Distinct(list) => Distinct(With(list, l))
<1>1. CASE l \in ToSet(list)
  BY <1>1 DEF With
<1>2. CASE l \notin ToSet(list)
  <2>1. With(list, l) = Append(list, l)
    BY <1>2 DEF With
  <2> QED
    BY <1>2, <2>1, AppendFacts
<1> QED
  BY <1>1, <1>2

\* The ranking loop ends at a neighbour with the highest tq_avg.
LEMMA BestIsTop ==
    ASSUME NEW order \in Seq(Links), NEW nodes, NEW old, NEW p \in Best(order, nodes, old)
    PROVE  /\ order[p] \in ToSet(order) /\ order[p] \in Links
           /\ \A m \in ToSet(order) : nodes[m].tq_avg <= nodes[order[p]].tq_avg
<1>1. p \in DOMAIN order /\ \A q \in DOMAIN order : nodes[order[q]].tq_avg <= nodes[order[p]].tq_avg
  BY DEF Best
<1>2. \A m : m \in ToSet(order) <=> \E q \in DOMAIN order : order[q] = m
  BY DEF ToSet
<1>3. order[p] \in Links
  BY <1>1
<1> QED
  BY <1>1, <1>2, <1>3

\* The router r is the best neighbour of the list, and no other has a rank.
Ranking(r, list, nodes) ==
    /\ list \in Seq(Links)
    /\ Distinct(list)
    /\ r \in Links => /\ r \in ToSet(list)
                      /\ \A m \in ToSet(list) : nodes[m].tq_avg <= nodes[r].tq_avg
    /\ r = NULL => \A m \in ToSet(list) : nodes[m].tq_avg = 0
    /\ \A m \in Links \ ToSet(list) : nodes[m].tq_avg = 0

LEMMA UpdateKeeps ==
    ASSUME TypeOK, NEW h \in 0..TQMax, NEW hop \in 0..(TtlSpace - 1), NEW list, NEW nodes, GoodNodes(nodes, h, hop),
           Ranking(router, list, nodes),
           NEW l \in Links, NEW tq \in 0..h, NEW ttl \in 0..hop, NEW dup \in BOOLEAN,
           update_orig(list, nodes, l, tq, ttl, dup)
    PROVE  /\ GoodNodes(neigh', h, hop)
           /\ Ranking(router', neigh_list', neigh')
           /\ router' \in Links
           /\ last_ttl' \in 0..(TtlSpace - 1)
<1>1. list \in Seq(Links) /\ Distinct(list)
  BY DEF Ranking
<1>2. PICK ranked : ranked = RankedNodes(list, nodes, l, tq, ttl, dup)
  OBVIOUS
<1>3. neigh' = ranked /\ neigh_list' = With(list, l)
  BY <1>2 DEF update_orig
<1>4. /\ GoodNodes(ranked, h, hop)
      /\ \A m \in Links \ (ToSet(list) \cup {l}) : ranked[m] = nodes[m]
  BY <1>1, <1>2, RankedGood
<1>5. PICK order : order = Order(list, l)
  OBVIOUS
<1>6. order \in Seq(Links) /\ ToSet(order) = ToSet(list) \cup {l}
  BY <1>1, <1>5, OrderFacts
<1>7. \E old : \E p \in Best(order, ranked, old) : router' = order[p]
  BY <1>3, <1>5 DEF update_orig
<1>8. /\ router' \in Links /\ router' \in ToSet(order)
      /\ \A m \in ToSet(order) : ranked[m].tq_avg <= ranked[router'].tq_avg
  BY <1>6, <1>7, BestIsTop
<1>9. /\ With(list, l) \in Seq(Links)
      /\ ToSet(With(list, l)) = ToSet(list) \cup {l}
      /\ Distinct(With(list, l))
  BY <1>1, WithFacts
<1>10. \A m \in Links \ (ToSet(list) \cup {l}) : ranked[m].tq_avg = 0
  BY <1>4 DEF Ranking
<1>11. router' # NULL
  BY <1>8, OriginatorAssumption
<1>12. Ranking(router', With(list, l), ranked)
  BY <1>6, <1>8, <1>9, <1>10, <1>11 DEF Ranking
<1>13. last_ttl' \in 0..(TtlSpace - 1)
  BY OriginatorAssumption DEF update_orig, TypeOK
<1> QED
  BY <1>3, <1>4, <1>8, <1>12, <1>13

LEMMA RankKeeps ==
    ASSUME TypeOK, NEW h \in 0..TQMax, NEW hop \in 0..(TtlSpace - 1), NEW list, NEW nodes, GoodNodes(nodes, h, hop),
           Ranking(router, list, nodes),
           NEW l \in Links, NEW seq, NEW tq \in 0..h, NEW ttl \in 0..hop, NEW dup \in BOOLEAN,
           Rank(list, nodes, l, seq, tq, ttl, dup)
    PROVE  /\ GoodNodes(neigh', h, hop)
           /\ Ranking(router', neigh_list', neigh')
           /\ router' \in Links \cup {NULL, Freed}
           /\ last_ttl' \in 0..(TtlSpace - 1)
<1>1. CASE Acceptable(seq, tq, ttl, dup)
  <2>1. update_orig(list, nodes, l, tq, ttl, dup)
    BY <1>1 DEF Rank
  <2> QED
    BY <2>1, UpdateKeeps
<1>2. CASE ~ Acceptable(seq, tq, ttl, dup)
  BY <1>2 DEF Rank, TypeOK
<1> QED
  BY <1>1, <1>2

-----------------------------------------------------------------------------
(* schedule_forward_packet *)

Penalised(tq) == (tq * (TQMax - HopPenalty)) \div TQMax

LEMMA PenaltyGrows ==
    ASSUME NEW h \in 0..TQMax, NEW hop \in 0..(TtlSpace - 1), NEW tq \in 0..h
    PROVE  Penalised(tq) \in 0..TQMax /\ Penalised(tq) <= Penalised(h)
<1>1. PICK a \in Nat : a = TQMax - HopPenalty /\ a <= TQMax
  BY OriginatorAssumption
<1>2. TQMax \in Nat \ {0}
  BY OriginatorAssumption
<1>3. PICK x \in Nat, y \in Nat : x = tq * a /\ y = h * a /\ x <= y
  <2>1. a * tq \in Nat /\ a * h \in Nat /\ a * tq <= a * h
    BY TimesGrows
  <2> QED
    BY <2>1
<1>4. x \div TQMax <= y \div TQMax
  BY <1>2, <1>3, DivGrows
<1>5. (tq * a) \div TQMax \in 0..tq
  BY <1>1, <1>2, ScaleBound
<1> QED
  BY <1>1, <1>2, <1>3, <1>4, <1>5 DEF Penalised

LEMMA ForwardHonest ==
    ASSUME NEW h \in 0..TQMax, NEW hop \in 0..(TtlSpace - 1), heard' = h, heard_ttl' = hop, GoodNodes(neigh', h, hop), router' \in Links \cup {NULL, Freed},
           NEW l \in Links, NEW tq \in 0..h, NEW ttl \in 0..hop, schedule_forward_packet(l, tq, ttl)
    PROVE  /\ sent' \in [tq : 0..TQMax, ttl : 0..(TtlSpace - 1)] \cup {NULL, Freed}
           /\ TqHonest'
<1> USE OriginatorAssumption
<1> DEFINE asIs == router' = NULL \/ neigh'[router'].tq_avg = 0 \/ addr(router') = addr(l)
<1>1. CASE ttl <= 1 \/ router' = Freed
  BY <1>1 DEF schedule_forward_packet, TqHonest
<1>2. CASE ~ (ttl <= 1 \/ router' = Freed) /\ asIs
  <2>1. PICK t \in 0..(TtlSpace - 1) : t = ttl - 1 /\ t < hop
    BY <1>2
  <2>2. sent' = [[tq |-> tq, ttl |-> t] EXCEPT !.tq = Penalised(tq)]
    BY <1>2, <2>1 DEF schedule_forward_packet, Penalised
  <2>3. sent' = [tq |-> Penalised(tq), ttl |-> t]
    BY <2>2
  <2>4. Penalised(tq) \in 0..TQMax /\ Penalised(tq) <= Penalised(h)
    BY PenaltyGrows
  <2>5. sent'.tq = Penalised(tq) /\ sent'.ttl = t
    BY <2>3
  <2>6. TqHonest'
    BY <2>1, <2>4, <2>5 DEF TqHonest, Penalised
  <2> QED
    BY <2>3, <2>4, <2>6
<1>3. CASE ~ (ttl <= 1 \/ router' = Freed) /\ ~ asIs
  <2>1. router' \in Links /\ router' # NULL
    BY <1>3
  <2>2. PICK n : n = neigh'[router']
    OBVIOUS
  <2>3. GoodNode(n, h, hop)
    BY <2>1, <2>2 DEF GoodNodes
  <2>4. PICK avg \in 0..h, last \in 0..hop : avg = n.tq_avg /\ last = n.last_ttl
    <3>1. n.tq_avg \in 0..TQMax /\ n.tq_avg <= h /\ n.last_ttl \in 0..(TtlSpace - 1) /\ n.last_ttl <= hop
      BY <2>3 DEF GoodNode, NeighNodes
    <3>2. n.tq_avg \in 0..h /\ n.last_ttl \in 0..hop
      BY <3>1
    <3> QED
      BY <3>2
  <2>5. PICK t : t = (last - 1) % TtlSpace
    OBVIOUS
  <2>6. t \in 0..(TtlSpace - 1) /\ (t < hop \/ (t = TtlSpace - 1 /\ last = 0))
    <3>1. CASE last = 0
      <4>1. t = (0 - 1) % TtlSpace
        BY <2>5, <3>1, Zenon
      <4>2. t = TtlSpace - 1
        BY <4>1, OneBelow
      <4> QED
        BY <3>1, <4>2
    <3>2. CASE last # 0
      <4>1. last \in 1..TtlSpace
        BY <3>2
      <4>2. t = last - 1
        BY <2>5, <4>1, OneBelow
      <4> QED
        BY <3>2, <4>2
    <3> QED
      BY <3>1, <3>2
  <2>7. sent' = [[tq |-> avg, ttl |-> t] EXCEPT !.tq = Penalised(avg)]
    BY <1>3, <2>2, <2>4, <2>5 DEF schedule_forward_packet, Penalised
  <2>8. sent' = [tq |-> Penalised(avg), ttl |-> t]
    BY <2>7
  <2>9. Penalised(avg) \in 0..TQMax /\ Penalised(avg) <= Penalised(h)
    BY PenaltyGrows
  <2>10. sent'.tq = Penalised(avg) /\ sent'.ttl = t
    BY <2>8
  <2>11. TqHonest'
    BY <2>1, <2>2, <2>4, <2>6, <2>9, <2>10 DEF TqHonest, Penalised
  <2> QED
    BY <2>6, <2>8, <2>9, <2>11
<1> QED
  BY <1>1, <1>2, <1>3

-----------------------------------------------------------------------------
(* The invariant *)

Inv ==
    /\ TypeOK
    /\ GoodNodes(neigh, heard, heard_ttl)
    /\ Ranking(router, neigh_list, neigh)
    /\ TqHonest

LEMMA InitInv == Init => Inv
<1> SUFFICES ASSUME Init PROVE Inv
  OBVIOUS
<1> USE OriginatorAssumption
<1>1. 0 \in 0..TQMax /\ GoodNode(NewNeighbour, 0, 0) /\ NewNeighbour.tq_avg = 0
  BY NewGood
<1>2. NewNeighbour \in NeighNodes
  BY <1>1 DEF GoodNode
<1>3. neigh \in [Links -> NeighNodes] /\ \A l \in Links : neigh[l] = NewNeighbour
  BY <1>2 DEF Init
<1>4. GoodNodes(neigh, heard, heard_ttl)
  BY <1>1, <1>3 DEF Init, GoodNodes
<1>5. TypeOK
  <2>1. 0 \in 0..MaxTime /\ 0 \in 0..MaxSeq /\ 0 \in 0..(TtlSpace - 1) /\ 0 \in 0..TQMax
    BY WindowAssumption
  <2>2. <<>> \in Seq(Links)
    OBVIOUS
  <2> QED
    BY <1>3, <2>1, <2>2, Zenon DEF Init, TypeOK
<1>6. neigh_list = <<>> /\ Distinct(<<>>) /\ ToSet(<<>>) = {}
  BY DEF Init, Distinct, ToSet
<1>7. Ranking(router, neigh_list, neigh)
  BY <1>1, <1>3, <1>6 DEF Ranking, Init
<1>8. TqHonest
  BY DEF Init, TqHonest
<1> QED
  BY <1>4, <1>5, <1>7, <1>8 DEF Inv

LEMMA HeardMore ==
    ASSUME NEW nodes, NEW h \in 0..TQMax, NEW hop \in 0..(TtlSpace - 1), NEW h2 \in 0..TQMax, h <= h2,
           NEW hop2 \in 0..(TtlSpace - 1), hop <= hop2, GoodNodes(nodes, h, hop)
    PROVE  GoodNodes(nodes, h2, hop2)
<1>1. ASSUME NEW m \in Links PROVE GoodNode(nodes[m], h2, hop2)
  <2>1. PICK n : n = nodes[m]
    OBVIOUS
  <2>2. GoodNode(n, h, hop)
    BY <2>1 DEF GoodNodes
  <2>3. n.last_ttl \in Int /\ n.tq_avg \in Int /\ \A i \in 0..(G - 1) : n.tq_recv[i] \in Int
    <3>1. n.last_ttl \in 0..(TtlSpace - 1) /\ n.tq_avg \in 0..TQMax /\ n.tq_recv \in [0..(G - 1) -> 0..TQMax]
      BY <2>2 DEF GoodNode, NeighNodes, Rings
    <3> QED
      BY <3>1, OriginatorAssumption
  <2>4. GoodNode(n, h2, hop2)
    BY <2>2, <2>3 DEF GoodNode
  <2> QED
    BY <2>1, <2>4
<1> QED
  BY <1>1 DEF GoodNodes

\* What count_real_packets leaves is typed.
LEMMA SeenTypes ==
    ASSUME Inv, NEW seq \in 1..MaxSeq, NEW dup \in BOOLEAN, Seen(seq, dup)
    PROVE  /\ curr_time' \in 0..MaxTime /\ known' \in BOOLEAN
           /\ last_real_seqno' \in 0..MaxSeq /\ bcast_own_sum' \in Echoes
BY OriginatorAssumption DEF Inv, TypeOK, Seen

\* No less has been heard than before, and no less than this OGM says.
LEMMA HearTypes ==
    ASSUME Inv, NEW tq \in 0..TQMax, NEW ttl \in 0..(TtlSpace - 1), Hear(tq, ttl)
    PROVE  /\ heard' \in 0..TQMax /\ tq \in 0..heard'
           /\ heard_ttl' \in 0..(TtlSpace - 1) /\ ttl \in 0..heard_ttl'
           /\ GoodNodes(neigh, heard', heard_ttl')
<1> USE OriginatorAssumption
<1>1. PICK h \in 0..TQMax, h2 \in 0..TQMax : h = heard /\ h2 = heard' /\ h <= h2 /\ tq \in 0..h2
  <2>1. heard \in 0..TQMax
    BY DEF Inv, TypeOK
  <2>2. heard' = IF tq > heard THEN tq ELSE heard
    BY DEF Hear
  <2>3. heard' \in 0..TQMax /\ heard <= heard' /\ tq \in 0..heard'
    BY <2>1, <2>2
  <2> QED
    BY <2>1, <2>3
<1>2. PICK hop \in 0..(TtlSpace - 1), hop2 \in 0..(TtlSpace - 1) :
         hop = heard_ttl /\ hop2 = heard_ttl' /\ hop <= hop2 /\ ttl \in 0..hop2
  <2>1. heard_ttl \in 0..(TtlSpace - 1)
    BY DEF Inv, TypeOK
  <2>2. heard_ttl' = IF ttl > heard_ttl THEN ttl ELSE heard_ttl
    BY DEF Hear
  <2>3. heard_ttl' \in 0..(TtlSpace - 1) /\ heard_ttl <= heard_ttl' /\ ttl \in 0..heard_ttl'
    BY <2>1, <2>2
  <2> QED
    BY <2>1, <2>3
<1>3. GoodNodes(neigh, h, hop)
  BY <1>1, <1>2 DEF Inv
<1>4. GoodNodes(neigh, h2, hop2)
  BY <1>1, <1>2, <1>3, HeardMore
<1> QED
  BY <1>1, <1>2, <1>4

\* A ranking depends on the nodes only through their tq_avg.
LEMMA RankingCopies ==
    ASSUME NEW r, NEW list, NEW nodes, NEW nodes2, Ranking(r, list, nodes),
           \A m \in Links : nodes2[m].tq_avg = nodes[m].tq_avg
    PROVE  Ranking(r, list, nodes2)
<1>1. ToSet(list) \subseteq Links
  BY DEF Ranking, ToSet
<1> QED
  BY <1>1 DEF Ranking

\* A neighbour not listed has no rank, so that listing it makes no difference.
LEMMA RankingListed ==
    ASSUME TypeOK, NEW list, NEW nodes, NEW l \in Links,
           GoodNodes(nodes, TQMax, TtlSpace - 1), Ranking(router, list, nodes)
    PROVE  Ranking(router, With(list, l), nodes)
<1>1. /\ With(list, l) \in Seq(Links)
      /\ ToSet(With(list, l)) = ToSet(list) \cup {l}
      /\ Distinct(With(list, l))
  BY WithFacts DEF Ranking
<1>2. CASE l \in ToSet(list)
  BY <1>1, <1>2 DEF Ranking
<1>3. CASE l \notin ToSet(list)
  <2>1. nodes[l].tq_avg = 0
    BY <1>3 DEF Ranking
  <2>2. \A m \in Links : nodes[m].tq_avg \in Nat
    BY OriginatorAssumption DEF GoodNodes, NeighNodes
  <2>3. router \in Links => 0 <= nodes[router].tq_avg
    BY <2>2
  <2> QED
    BY <1>1, <2>1, <2>3 DEF Ranking
<1> QED
  BY <1>2, <1>3

-----------------------------------------------------------------------------
(* Every step preserves it *)

LEMMA CountOgmInv ==
    ASSUME Inv, NEW l \in Links, NEW seq \in 1..MaxSeq, NEW tq \in 0..TQMax, CountOgm(l, seq, tq)
    PROVE  Inv'
<1>1. PICK dup \in BOOLEAN : Seen(seq, dup)
  BY DEF CountOgm
<1>2. PICK h \in 0..TQMax, hop \in 0..(TtlSpace - 1) :
         h = heard /\ h = heard' /\ hop = heard_ttl /\ hop = heard_ttl' /\ GoodNodes(neigh, h, hop)
  BY DEF CountOgm, ghosts, Inv, TypeOK
<1>3. PICK nodes \in Counted(l, seq) : neigh' = nodes
  BY DEF CountOgm
<1>4. GoodNodes(nodes, h, hop) /\ \A m \in Links : nodes[m].tq_avg = neigh[m].tq_avg
  BY <1>2, CountedGood DEF Inv
<1>5. UNCHANGED <<last_valid, last_ttl, router, neigh_list>> /\ sent' = NULL
  BY DEF CountOgm
<1>6. Ranking(router, neigh_list, nodes)
  BY <1>4, RankingCopies DEF Inv
<1>7. TypeOK'
  <2>1. nodes \in [Links -> NeighNodes]
    BY <1>4 DEF GoodNodes
  <2> QED
    BY <1>1, <1>2, <1>3, <1>5, <2>1, SeenTypes DEF Inv, TypeOK
<1>8. TqHonest'
  BY <1>5 DEF TqHonest
<1> QED
  BY <1>2, <1>3, <1>4, <1>5, <1>6, <1>7, <1>8 DEF Inv

\* What an OGM does to the entry once its tq has become that of the route:
\* the list and the nodes are good for update_orig.
RanksOgm(l, seq, ttl, list, nodes, in_tq, dup) ==
    /\ heard' \in 0..TQMax /\ heard_ttl' \in 0..(TtlSpace - 1)
    /\ in_tq \in 0..heard'
    /\ ttl \in 0..heard_ttl'
    /\ GoodNodes(nodes, heard', heard_ttl')
    /\ Ranking(router, list, nodes)
    /\ Rank(list, nodes, l, seq, in_tq, ttl, dup)

LEMMA DirectOgmRanks ==
    ASSUME Inv, NEW l \in Links, NEW seq \in 1..MaxSeq, NEW tq \in 0..TQMax, NEW ttl \in 0..(TtlSpace - 1),
           DirectOgm(l, seq, tq, ttl)
    PROVE  \E dup \in BOOLEAN : \E list, nodes, in_tq :
              /\ RanksOgm(l, seq, ttl, list, nodes, in_tq, dup)
              /\ Seen(seq, dup)
              /\ schedule_forward_packet(l, in_tq, ttl)
<1> USE OriginatorAssumption
<1>1. PICK dup \in BOOLEAN, counted \in Counted(l, seq) :
         LET nodes == [counted EXCEPT ![l].last_valid = curr_time]
             in_tq == LinkTq(tq, bcast_own_sum[l], Cardinality(counted[l].real_bits))
         IN  /\ Seen(seq, dup)
             /\ Hear(tq, ttl)
             /\ Rank(With(neigh_list, l), nodes, l, seq, in_tq, ttl, dup)
             /\ schedule_forward_packet(l, in_tq, ttl)
  BY DEF DirectOgm
<1>2. PICK nodes : nodes = [counted EXCEPT ![l].last_valid = curr_time]
  OBVIOUS
<1>3. PICK in_tq : in_tq = LinkTq(tq, bcast_own_sum[l], Cardinality(counted[l].real_bits))
  OBVIOUS
<1>4. /\ Seen(seq, dup) /\ Hear(tq, ttl)
      /\ Rank(With(neigh_list, l), nodes, l, seq, in_tq, ttl, dup)
      /\ schedule_forward_packet(l, in_tq, ttl)
  BY <1>1, <1>2, <1>3
<1>5. PICK h \in 0..TQMax, hop \in 0..(TtlSpace - 1) :
         h = heard' /\ hop = heard_ttl' /\ GoodNodes(neigh, h, hop) /\ tq \in 0..h /\ ttl \in 0..hop
  BY <1>4, HearTypes
<1>6. GoodNodes(counted, h, hop) /\ \A m \in Links : counted[m].tq_avg = neigh[m].tq_avg
  BY <1>5, CountedGood DEF Inv
<1>7. GoodNodes(nodes, h, hop) /\ \A m \in Links : nodes[m].tq_avg = neigh[m].tq_avg
  <2>1. PICK n : n = counted[l]
    OBVIOUS
  <2>2. PICK now \in 0..MaxTime : now = curr_time
    BY DEF Inv, TypeOK
  <2>3. nodes = [counted EXCEPT ![l] = WithValid(n, now)]
    BY <1>2, <2>1, <2>2 DEF WithValid
  <2>4. GoodNode(WithValid(n, now), h, hop) /\ WithValid(n, now).tq_avg = n.tq_avg
    BY <1>6, <2>1, SetValidGood DEF GoodNodes
  <2>5. WithValid(n, now) \in NeighNodes
    BY <2>4 DEF GoodNode
  <2>6. counted \in [Links -> NeighNodes]
    BY <1>6 DEF GoodNodes
  <2>7. /\ nodes \in [Links -> NeighNodes] /\ nodes[l] = WithValid(n, now)
        /\ \A m \in Links \ {l} : nodes[m] = counted[m]
    BY <2>3, <2>5, <2>6
  <2> QED
    BY <1>6, <2>1, <2>4, <2>7 DEF GoodNodes
<1>8. in_tq \in 0..h
  <2>1. counted[l].real_bits \in SUBSET Offsets
    BY <1>6 DEF GoodNodes, NeighNodes
  <2>2. IsFiniteSet(Offsets) /\ Cardinality(Offsets) = W
    <3>1. PICK z \in Int, k \in Int : z = 0 /\ k = W - 1 /\ z <= k
      BY WindowAssumption
    <3>2. IsFiniteSet(z..k) /\ Cardinality(z..k) = IF z > k THEN 0 ELSE k - z + 1
      BY FS_Interval
    <3>3. Cardinality(z..k) = W
      BY <3>1, <3>2, WindowAssumption
    <3> QED
      BY <3>1, <3>2, <3>3 DEF Offsets
  <2>3. PICK c : c = Cardinality(counted[l].real_bits)
    OBVIOUS
  <2>4. c \in 0..W
    <3>1. IsFiniteSet(counted[l].real_bits) /\ c <= W
      BY <2>1, <2>2, <2>3, FS_Subset
    <3>2. c \in Nat
      BY <2>3, <3>1, FS_CardinalityType
    <3> QED
      BY <3>1, <3>2, WindowAssumption
  <2>5. PICK e \in Nat : e = bcast_own_sum[l]
    <3>1. bcast_own_sum \in [Nodes \X Ifs -> 0..W] /\ l \in Nodes \X Ifs
      BY DEF Inv, TypeOK
    <3> QED
      BY <3>1, WindowAssumption
  <2>6. tq \in Nat
    BY <1>5
  <2>7. LinkTq(tq, e, c) \in 0..tq
    BY <2>4, <2>6, LinkTqBound
  <2> QED
    BY <1>3, <1>5, <2>3, <2>5, <2>6, <2>7
<1>9. ttl \in 0..hop
  BY <1>5
<1>10. Ranking(router, With(neigh_list, l), nodes)
  <2>1. Ranking(router, neigh_list, nodes)
    BY <1>7, RankingCopies DEF Inv
  <2>2. TQMax \in 0..TQMax /\ h <= TQMax /\ TtlSpace - 1 \in 0..(TtlSpace - 1) /\ hop <= TtlSpace - 1
    OBVIOUS
  <2>3. GoodNodes(nodes, TQMax, TtlSpace - 1)
    BY <1>7, <2>2, HeardMore
  <2> QED
    BY <2>1, <2>3, RankingListed DEF Inv
<1> QED
  BY <1>4, <1>5, <1>7, <1>8, <1>9, <1>10 DEF RanksOgm

LEMMA RelayedOgmRanks ==
    ASSUME Inv, NEW l \in Links, NEW seq \in 1..MaxSeq, NEW tq \in 0..TQMax, NEW ttl \in 0..(TtlSpace - 1),
           NEW n \in Counts, RelayedOgm(l, seq, tq, ttl, n)
    PROVE  \E dup \in BOOLEAN : \E list, nodes, in_tq :
              /\ RanksOgm(l, seq, ttl, list, nodes, in_tq, dup)
              /\ Seen(seq, dup)
              /\ schedule_forward_packet(l, in_tq, ttl) \/ sent' = NULL
<1> USE OriginatorAssumption
<1>1. PICK dup \in BOOLEAN, nodes \in Counted(l, seq) :
         LET in_tq == LinkTq(tq, bcast_own_sum[l], n)
         IN  /\ Seen(seq, dup)
             /\ Hear(tq, ttl)
             /\ Rank(neigh_list, nodes, l, seq, in_tq, ttl, dup)
             /\ IF in_tq >= BidirectLimit /\ ~ dup
                THEN schedule_forward_packet(l, in_tq, ttl)
                ELSE sent' = NULL
  BY DEF RelayedOgm
<1>2. PICK in_tq : in_tq = LinkTq(tq, bcast_own_sum[l], n)
  OBVIOUS
<1>3. /\ Seen(seq, dup) /\ Hear(tq, ttl)
      /\ Rank(neigh_list, nodes, l, seq, in_tq, ttl, dup)
      /\ schedule_forward_packet(l, in_tq, ttl) \/ sent' = NULL
  BY <1>1, <1>2
<1>4. PICK h \in 0..TQMax, hop \in 0..(TtlSpace - 1) :
         h = heard' /\ hop = heard_ttl' /\ GoodNodes(neigh, h, hop) /\ tq \in 0..h /\ ttl \in 0..hop
  BY <1>3, HearTypes
<1>5. GoodNodes(nodes, h, hop) /\ \A m \in Links : nodes[m].tq_avg = neigh[m].tq_avg
  BY <1>4, CountedGood DEF Inv
<1>6. in_tq \in 0..h
  <2>1. PICK e \in Nat : e = bcast_own_sum[l]
    <3>1. bcast_own_sum \in [Nodes \X Ifs -> 0..W] /\ l \in Nodes \X Ifs
      BY DEF Inv, TypeOK
    <3> QED
      BY <3>1, WindowAssumption
  <2>2. n \in 0..W /\ tq \in Nat
    BY <1>4
  <2>3. LinkTq(tq, e, n) \in 0..tq
    BY <2>2, LinkTqBound
  <2> QED
    BY <1>2, <1>4, <2>1, <2>2, <2>3
<1>7. ttl \in 0..hop
  BY <1>4
<1>8. Ranking(router, neigh_list, nodes)
  BY <1>5, RankingCopies DEF Inv
<1> QED
  BY <1>3, <1>4, <1>5, <1>6, <1>7, <1>8 DEF RanksOgm

LEMMA OgmInv ==
    ASSUME Inv, NEW l \in Links, NEW seq \in 1..MaxSeq, NEW ttl,
           NEW dup \in BOOLEAN, NEW list, NEW nodes, NEW in_tq,
           RanksOgm(l, seq, ttl, list, nodes, in_tq, dup),
           Seen(seq, dup), last_valid' = curr_time,
           schedule_forward_packet(l, in_tq, ttl) \/ sent' = NULL
    PROVE  Inv'
<1>1. PICK h \in 0..TQMax, hop \in 0..(TtlSpace - 1) : h = heard' /\ hop = heard_ttl'
  BY DEF RanksOgm
<1>2. /\ in_tq \in 0..h /\ ttl \in 0..hop /\ GoodNodes(nodes, h, hop) /\ Ranking(router, list, nodes)
      /\ Rank(list, nodes, l, seq, in_tq, ttl, dup)
  BY <1>1 DEF RanksOgm
<1>3. /\ GoodNodes(neigh', h, hop)
      /\ Ranking(router', neigh_list', neigh')
      /\ router' \in Links \cup {NULL, Freed}
      /\ last_ttl' \in 0..(TtlSpace - 1)
  BY <1>2, RankKeeps DEF Inv
<1>4. /\ sent' \in [tq : 0..TQMax, ttl : 0..(TtlSpace - 1)] \cup {NULL, Freed}
      /\ TqHonest'
  <2>1. CASE sent' = NULL
    BY <2>1 DEF TqHonest
  <2>2. CASE schedule_forward_packet(l, in_tq, ttl)
    BY <1>1, <1>2, <1>3, <2>2, ForwardHonest
  <2> QED
    BY <2>1, <2>2
<1>5. TypeOK'
  <2>1. neigh' \in [Links -> NeighNodes] /\ neigh_list' \in Seq(Links)
    BY <1>3 DEF GoodNodes, Ranking
  <2>2. last_valid' \in 0..MaxTime
    BY DEF Inv, TypeOK
  <2> QED
    BY <1>1, <1>3, <1>4, <2>1, <2>2, SeenTypes DEF TypeOK
<1> QED
  BY <1>1, <1>3, <1>4, <1>5 DEF Inv

LEMMA DirectOgmInv ==
    ASSUME Inv, NEW l \in Links, NEW seq \in 1..MaxSeq, NEW tq \in 0..TQMax, NEW ttl \in 0..(TtlSpace - 1),
           DirectOgm(l, seq, tq, ttl)
    PROVE  Inv'
<1>1. last_valid' = curr_time
  BY DEF DirectOgm
<1> QED
  BY <1>1, DirectOgmRanks, OgmInv

LEMMA RelayedOgmInv ==
    ASSUME Inv, NEW l \in Links, NEW seq \in 1..MaxSeq, NEW tq \in 0..TQMax, NEW ttl \in 0..(TtlSpace - 1),
           NEW n \in Counts, RelayedOgm(l, seq, tq, ttl, n)
    PROVE  Inv'
<1>1. last_valid' = curr_time
  BY DEF RelayedOgm
<1> QED
  BY <1>1, RelayedOgmRanks, OgmInv

LEMMA PurgeOrigInv ==
    ASSUME Inv, PurgeOrig
    PROVE  Inv'
<1> USE OriginatorAssumption
<1>1. PICK h \in 0..TQMax, hop \in 0..(TtlSpace - 1) : h = 0 /\ heard' = h /\ hop = 0 /\ heard_ttl' = hop
  BY DEF PurgeOrig
<1>2. GoodNode(NewNeighbour, h, hop) /\ NewNeighbour.tq_avg = 0 /\ NewNeighbour \in NeighNodes
  BY NewGood DEF GoodNode
<1>3. neigh' \in [Links -> NeighNodes] /\ \A l \in Links : neigh'[l] = NewNeighbour
  BY <1>2 DEF PurgeOrig
<1>4. GoodNodes(neigh', h, hop)
  BY <1>2, <1>3 DEF GoodNodes
<1>5. neigh_list' = <<>> /\ Distinct(<<>>) /\ ToSet(<<>>) = {} /\ <<>> \in Seq(Links)
  BY DEF PurgeOrig, Distinct, ToSet
<1>6. router' = NULL
  BY DEF PurgeOrig
<1>7. Ranking(router', neigh_list', neigh')
  BY <1>2, <1>3, <1>5, <1>6 DEF Ranking
<1>8. TypeOK'
  <2>1. 0 \in 0..MaxTime /\ 0 \in 0..MaxSeq /\ 0 \in 0..(TtlSpace - 1)
    BY WindowAssumption
  <2> QED
    BY <1>1, <1>3, <1>5, <1>6, <2>1 DEF PurgeOrig, Inv, TypeOK
<1>9. TqHonest'
  BY DEF PurgeOrig, TqHonest
<1> QED
  BY <1>1, <1>4, <1>7, <1>8, <1>9 DEF Inv

\* FirstBest finds a neighbour with the highest tq_avg.
LEMMA FirstBestIsTop ==
    ASSUME GoodNodes(neigh, TQMax, TtlSpace - 1), NEW list \in Seq(Links), NEW b \in FirstBest(list)
    PROVE  /\ b \in Links /\ b \in ToSet(list)
           /\ \A m \in ToSet(list) : neigh[m].tq_avg <= neigh[b].tq_avg
<1>1. PICK p \in DOMAIN list : b = list[p] /\ \A q \in DOMAIN list :
         IF q < p THEN neigh[list[q]].tq_avg < neigh[list[p]].tq_avg
                  ELSE neigh[list[q]].tq_avg <= neigh[list[p]].tq_avg
  BY DEF FirstBest
<1>2. \A m : m \in ToSet(list) <=> \E q \in DOMAIN list : list[q] = m
  BY DEF ToSet
<1>3. \A m \in Links : neigh[m].tq_avg \in Int
  BY OriginatorAssumption DEF GoodNodes, NeighNodes
<1>4. \A q \in DOMAIN list : list[q] \in Links
  OBVIOUS
<1>5. \A q \in DOMAIN list : neigh[list[q]].tq_avg <= neigh[list[p]].tq_avg
  BY <1>1, <1>3, <1>4
<1> QED
  BY <1>1, <1>2, <1>4, <1>5

LEMMA PurgeNeighboursInv ==
    ASSUME Inv, PurgeNeighbours
    PROVE  Inv'
<1> USE OriginatorAssumption
<1>1. PICK gone \in SUBSET Listed : gone = {l \in Listed : Expired(neigh[l].last_valid)}
  OBVIOUS
<1>2. PICK list : list = Keep(neigh_list, Listed \ gone)
  OBVIOUS
<1> DEFINE freed == router = Freed \/ router \in gone
           better(b) == IF router = NULL THEN {TRUE}
                        ELSE IF freed THEN BOOLEAN
                        ELSE {neigh[b].tq_avg > neigh[router].tq_avg}
<1>3. /\ neigh_list' = list
      /\ neigh' = [l \in Links |-> IF l \in gone THEN NewNeighbour ELSE neigh[l]]
      /\ \/ list = <<>> /\ router' = NULL
         \/ \E b \in FirstBest(list) : \E switch \in better(b) :
               router' = IF switch THEN b ELSE IF freed THEN Freed ELSE router
      /\ sent' = NULL
      /\ UNCHANGED <<curr_time, known, last_valid, last_real_seqno, last_ttl, bcast_own_sum, ghosts>>
  BY <1>1, <1>2 DEF PurgeNeighbours
<1>4. PICK h \in 0..TQMax, hop \in 0..(TtlSpace - 1) :
         h = heard /\ heard' = h /\ hop = heard_ttl /\ heard_ttl' = hop
  BY <1>3 DEF Inv, TypeOK, ghosts
<1>5. /\ neigh_list \in Seq(Links) /\ Distinct(neigh_list) /\ Listed = ToSet(neigh_list)
      /\ Listed \subseteq Links
  BY DEF Inv, Ranking, Listed, ToSet
<1>6. list \in Seq(Links) /\ ToSet(list) = Listed \ gone /\ Distinct(list)
  <2>1. PICK S : S = Listed \ gone
    OBVIOUS
  <2>2. list = Keep(neigh_list, S)
    BY <1>2, <2>1
  <2>3. list \in Seq(Links) /\ ToSet(list) = ToSet(neigh_list) \cap S /\ Distinct(list)
    BY <1>5, <2>2, KeepFacts
  <2> QED
    BY <1>5, <2>1, <2>3
<1>7. GoodNode(NewNeighbour, h, hop) /\ NewNeighbour.tq_avg = 0 /\ NewNeighbour \in NeighNodes
  BY NewGood DEF GoodNode
<1>8. GoodNodes(neigh, h, hop) /\ neigh \in [Links -> NeighNodes] /\ GoodNodes(neigh, TQMax, TtlSpace - 1)
  <2>1. TQMax \in 0..TQMax /\ h <= TQMax /\ TtlSpace - 1 \in 0..(TtlSpace - 1) /\ hop <= TtlSpace - 1
    OBVIOUS
  <2>2. GoodNodes(neigh, h, hop)
    BY <1>4 DEF Inv
  <2> QED
    BY <2>1, <2>2, HeardMore DEF GoodNodes
<1>9. GoodNodes(neigh', h, hop)
  <2>1. \A l \in Links : neigh'[l] = IF l \in gone THEN NewNeighbour ELSE neigh[l]
    BY <1>3
  <2>2. neigh' \in [Links -> NeighNodes]
    BY <1>3, <1>7, <1>8
  <2> QED
    BY <1>7, <1>8, <2>1, <2>2 DEF GoodNodes
<1>10. \A l \in ToSet(list) : neigh'[l] = neigh[l]
  BY <1>3, <1>5, <1>6
<1>11. \A l \in Links \ ToSet(list) : neigh'[l].tq_avg = 0
  <2> SUFFICES ASSUME NEW l \in Links, l \notin ToSet(list) PROVE neigh'[l].tq_avg = 0
    OBVIOUS
  <2>1. CASE l \in gone
    BY <1>3, <1>7, <2>1
  <2>2. CASE l \notin gone
    <3>1. l \notin Listed
      BY <1>6, <2>2
    <3> QED
      BY <1>3, <1>5, <2>2, <3>1 DEF Inv, Ranking
  <2> QED
    BY <2>1, <2>2
<1>12. \A l \in Links : neigh[l].tq_avg \in Int
  BY <1>8 DEF NeighNodes
<1>13. router' \in Links \cup {NULL, Freed} /\ Ranking(router', list, neigh')
  <2>1. CASE list = <<>> /\ router' = NULL
    <3>1. ToSet(list) = {}
      BY <2>1 DEF ToSet
    <3> QED
      BY <1>6, <1>11, <2>1, <3>1 DEF Ranking
  <2>2. ASSUME NEW b \in FirstBest(list), router' = b
        PROVE  router' \in Links \cup {NULL, Freed} /\ Ranking(router', list, neigh')
    <3>1. b \in Links /\ b \in ToSet(list) /\ \A m \in ToSet(list) : neigh[m].tq_avg <= neigh[b].tq_avg
      BY <1>6, <1>8, FirstBestIsTop
    <3>2. \A m \in ToSet(list) : neigh'[m].tq_avg <= neigh'[b].tq_avg
      BY <1>10, <3>1
    <3> QED
      BY <1>6, <1>11, <2>2, <3>1, <3>2 DEF Ranking
  <2>3. CASE router' = Freed
    BY <1>6, <1>11, <2>3 DEF Ranking
  <2>4. ASSUME NEW b \in FirstBest(list), router' = router, ~ freed, router # NULL,
               ~ (neigh[b].tq_avg > neigh[router].tq_avg)
        PROVE  router' \in Links \cup {NULL, Freed} /\ Ranking(router', list, neigh')
    <3>1. b \in Links /\ b \in ToSet(list) /\ \A m \in ToSet(list) : neigh[m].tq_avg <= neigh[b].tq_avg
      BY <1>6, <1>8, FirstBestIsTop
    <3>2. router \in Links
      BY <2>4 DEF Inv, TypeOK
    <3>3. router \in ToSet(list)
      BY <1>5, <1>6, <2>4, <3>2 DEF Inv, Ranking
    <3>4. \A m \in ToSet(list) : m \in Links
      BY <1>5, <1>6
    <3>5. \A m \in ToSet(list) : neigh[m].tq_avg <= neigh[router].tq_avg
      BY <1>12, <2>4, <3>1, <3>2, <3>4
    <3>6. \A m \in ToSet(list) : neigh'[m].tq_avg <= neigh'[router].tq_avg
      BY <1>10, <3>3, <3>5
    <3> QED
      BY <1>6, <1>11, <2>4, <3>2, <3>3, <3>6 DEF Ranking
  <2>5. ASSUME NEW b \in FirstBest(list), NEW switch \in better(b),
               router' = IF switch THEN b ELSE IF freed THEN Freed ELSE router
        PROVE  router' \in Links \cup {NULL, Freed} /\ Ranking(router', list, neigh')
    <3>1. CASE router = NULL
      <4>1. switch = TRUE
        BY <3>1
      <4> QED
        BY <2>2, <2>5, <4>1
    <3>2. CASE router # NULL /\ freed
      <4>1. switch \in BOOLEAN
        BY <3>2
      <4> QED
        BY <2>2, <2>3, <2>5, <3>2, <4>1
    <3>3. CASE router # NULL /\ ~ freed
      <4>1. switch = (neigh[b].tq_avg > neigh[router].tq_avg)
        BY <3>3
      <4>2. CASE neigh[b].tq_avg > neigh[router].tq_avg
        BY <2>2, <2>5, <4>1, <4>2
      <4>3. CASE ~ (neigh[b].tq_avg > neigh[router].tq_avg)
        BY <2>4, <2>5, <3>3, <4>1, <4>3
      <4> QED
        BY <4>2, <4>3
    <3> QED
      BY <3>1, <3>2, <3>3
  <2> HIDE DEF better, freed
  <2> QED
    BY <1>3, <2>1, <2>5
<1>14. TypeOK'
  <2>1. neigh' \in [Links -> NeighNodes]
    BY <1>9 DEF GoodNodes
  <2> QED
    BY <1>3, <1>6, <1>13, <2>1 DEF Inv, TypeOK, ghosts
<1>15. TqHonest'
  BY <1>3 DEF TqHonest
<1> QED
  BY <1>3, <1>4, <1>9, <1>13, <1>14, <1>15 DEF Inv

\* An OGM arrives.
Receives(ogm, seq) ==
    \/ CountOgm(ogm.link, seq, ogm.tq)
    \/ DirectOgm(ogm.link, seq, ogm.tq, ogm.ttl)
    \/ \E n \in Counts : RelayedOgm(ogm.link, seq, ogm.tq, ogm.ttl, n)

LEMMA OgmFields ==
    ASSUME NEW ogm \in Ogms
    PROVE  /\ ogm.link \in Links
           /\ ogm.tq \in 0..TQMax
           /\ ogm.ttl \in 0..(TtlSpace - 1)
BY OriginatorAssumption

LEMMA NextInv == Inv /\ [Next]_vars => Inv'
<1> SUFFICES ASSUME Inv, [Next]_vars PROVE Inv'
  OBVIOUS
<1>1. CASE OwnTraffic
  <2>1. bcast_own_sum' \in Echoes /\ sent' = NULL /\ UNCHANGED <<curr_time, entry, ghosts>>
    BY <1>1 DEF OwnTraffic
  <2>2. UNCHANGED <<known, last_valid, last_real_seqno, last_ttl, router, neigh_list, neigh, heard, heard_ttl>>
    BY <2>1 DEF entry, ghosts
  <2> QED
    BY <2>1, <2>2 DEF Inv, TypeOK, TqHonest
<1>2. CASE Tick
  <2>1. /\ curr_time' \in 0..MaxTime /\ sent' = NULL
        /\ UNCHANGED <<entry, bcast_own_sum, ghosts>>
    <3>1. curr_time \in 0..MaxTime
      BY DEF Inv, TypeOK
    <3>2. MaxTime \in Nat
      BY OriginatorAssumption
    <3>3. curr_time < MaxTime /\ curr_time' = curr_time + 1
      BY <1>2 DEF Tick
    <3>4. sent' = NULL /\ UNCHANGED <<entry, bcast_own_sum, ghosts>>
      BY <1>2 DEF Tick
    <3>5. curr_time' \in 0..MaxTime
      BY <3>1, <3>2, <3>3
    <3> QED
      BY <3>4, <3>5
  <2>2. UNCHANGED <<known, last_valid, last_real_seqno, last_ttl, router, neigh_list, neigh, heard, heard_ttl>>
    BY <2>1 DEF entry, ghosts
  <2> QED
    BY <2>1, <2>2 DEF Inv, TypeOK, TqHonest
<1>3. CASE UNCHANGED vars
  BY <1>3 DEF vars, entry, ghosts, Inv, TypeOK, TqHonest
<1>4. ASSUME NEW ogm \in Ogms, NEW seq \in 1..MaxSeq, Receives(ogm, seq) PROVE Inv'
  <2>1. PICK l \in Links, tq \in 0..TQMax, ttl \in 0..(TtlSpace - 1) :
           ogm.link = l /\ ogm.tq = tq /\ ogm.ttl = ttl
    BY OgmFields
  <2>2. CASE CountOgm(l, seq, tq)
    BY <2>2, CountOgmInv
  <2>3. CASE DirectOgm(l, seq, tq, ttl)
    BY <2>3, DirectOgmInv
  <2>4. CASE \E n \in Counts : RelayedOgm(l, seq, tq, ttl, n)
    BY <2>4, RelayedOgmInv
  <2> QED
    BY <1>4, <2>1, <2>2, <2>3, <2>4 DEF Receives
<1>5. CASE \E ogm \in Ogms, seq \in 1..MaxSeq : Receives(ogm, seq)
  BY <1>4, <1>5
<1> QED
  BY <1>1, <1>2, <1>3, <1>5, PurgeOrigInv, PurgeNeighboursInv DEF Next, Receives

LEMMA InvAlways == Spec => []Inv
BY InitInv, NextInv, PTL DEF Spec

\* Types: every field of the entry and of its neighbours keeps its range
\* through all of ring_buffer_set, bit_get_packet, update_orig and purge_orig.
THEOREM OriginatorTypes == Spec => []TypeOK
<1>1. Inv => TypeOK
  BY DEF Inv
<1> QED
  BY <1>1, InvAlways, PTL

\* After update_orig as well as after purge_orig a router that was not freed is
\* a listed neighbour and none has a higher tq_avg; without a router all are 0.
THEOREM RouterAlwaysBest == Spec => []RouterIsBest
<1>1. Inv => RouterIsBest
  BY DEF Inv, Ranking, RouterIsBest, Listed
<1> QED
  BY <1>1, InvAlways, PTL

\* What schedule_forward_packet sends on promises no more than was heard.
THEOREM NothingPromised == Spec => []TqHonest
<1>1. Inv => TqHonest
  BY DEF Inv
<1> QED
  BY <1>1, InvAlways, PTL

-----------------------------------------------------------------------------
(* Route flipping *)

\* A good reason to leave the router: a better rank, or the same rank and
\* more echoes.
GoodReason ==
    \/ neigh'[router'].tq_avg > neigh'[router].tq_avg
    \/ /\ neigh'[router'].tq_avg = neigh'[router].tq_avg
       /\ \E i \in Ifs : bcast_own_sum[<<addr(router'), i>>] > bcast_own_sum[<<addr(router), i>>]

LEMMA UpdateNoFlip ==
    ASSUME TypeOK, NEW h \in 0..TQMax, NEW hop \in 0..(TtlSpace - 1), NEW list, NEW nodes, GoodNodes(nodes, h, hop),
           Ranking(router, list, nodes),
           NEW l \in Links, NEW tq \in 0..h, NEW ttl \in 0..hop, NEW dup \in BOOLEAN,
           update_orig(list, nodes, l, tq, ttl, dup),
           router \in Links, router' # router, router \in ToSet(neigh_list')
    PROVE  GoodReason
<1>1. list \in Seq(Links) /\ Distinct(list)
  BY DEF Ranking
<1>2. PICK order : order = Order(list, l)
  OBVIOUS
<1>3. /\ order \in Seq(Links) /\ ToSet(order) = ToSet(list) \cup {l} /\ Distinct(order)
      /\ order[Len(order)] = l
  BY <1>1, <1>2, OrderFacts
<1>4. RouterSeen(list, l) = {router}
  BY OriginatorAssumption DEF RouterSeen
<1>5. PICK p \in Best(order, neigh', router) : router' = order[p]
  BY <1>2, <1>4 DEF update_orig
<1>6. ToSet(With(list, l)) = ToSet(list) \cup {l} /\ neigh_list' = With(list, l)
  BY <1>1, WithFacts DEF update_orig
<1>7. router \in ToSet(order)
  BY <1>3, <1>6
<1>8. PICK q \in DOMAIN order : order[q] = router
  BY <1>7 DEF ToSet
<1> DEFINE avg(x) == neigh'[order[x]].tq_avg
           top == {x \in DOMAIN order : \A y \in DOMAIN order : avg(y) <= avg(x)}
           after == {x \in top : \A y \in top : order[y] = router => y <= x}
           own(x) == bcast_own_sum[<<addr(order[x]), if_incoming(order[Len(order)])>>]
<1>9. p \in {x \in after : \A y \in after : IF y < x THEN own(y) < own(x) ELSE own(y) <= own(x)}
  BY <1>5 DEF Best
<1>10. p \in DOMAIN order /\ q \in DOMAIN order /\ p # q /\ p \in Int /\ q \in Int
  BY <1>3, <1>5, <1>8, <1>9
<1>11. GoodNodes(neigh', h, hop)
  BY UpdateKeeps
<1>12. avg(p) \in Int /\ avg(q) \in Int /\ avg(q) <= avg(p)
  <2>1. order[p] \in Links /\ order[q] \in Links
    BY <1>3, <1>10
  <2>2. \A m \in Links : neigh'[m].tq_avg \in Int
    BY <1>11, OriginatorAssumption DEF GoodNodes, NeighNodes
  <2>3. avg(q) <= avg(p)
    BY <1>9, <1>10
  <2> QED
    BY <2>1, <2>2, <2>3
<1>13. CASE avg(p) > avg(q)
  BY <1>5, <1>8, <1>13 DEF GoodReason
<1>14. CASE avg(p) = avg(q)
  <2>1. q \in top
    BY <1>9, <1>10, <1>14
  <2>2. \A y \in DOMAIN order : order[y] = router => y = q
    BY <1>3, <1>8, <1>10 DEF Distinct
  <2>3. q \in after
    BY <1>10, <2>1, <2>2
  <2>4. q <= p
    BY <1>8, <1>9, <2>1
  <2>5. q < p
    BY <1>10, <2>4
  <2>6. own(q) < own(p)
    BY <1>9, <2>3, <2>5
  <2>7. if_incoming(l) \in Ifs
    BY OriginatorAssumption DEF if_incoming
  <2>8. order[p] \in Links /\ order[q] \in Links
    BY <1>3, <1>10
  <2>9. PICK i \in Ifs : i = if_incoming(l)
    BY <2>7
  <2>10. bcast_own_sum[<<addr(router), i>>] < bcast_own_sum[<<addr(router'), i>>]
    BY <1>3, <1>5, <1>8, <2>6, <2>9
  <2>11. bcast_own_sum[<<addr(router'), i>>] > bcast_own_sum[<<addr(router), i>>]
    BY <2>10
  <2> QED
    BY <1>5, <1>8, <1>14, <2>11 DEF GoodReason
<1> QED
  BY <1>12, <1>13, <1>14

\* The step of NoFlipping.
Flips == router \in Links /\ router' \in Links /\ router' # router /\ router \in ToSet(neigh_list')

LEMMA OgmNoFlip ==
    ASSUME Inv, NEW l \in Links, NEW seq, NEW ttl, NEW dup \in BOOLEAN,
           NEW list, NEW nodes, NEW in_tq,
           RanksOgm(l, seq, ttl, list, nodes, in_tq, dup), Flips
    PROVE  GoodReason
<1>1. PICK h \in 0..TQMax, hop \in 0..(TtlSpace - 1) : h = heard' /\ hop = heard_ttl'
  BY DEF RanksOgm
<1>2. /\ in_tq \in 0..h /\ ttl \in 0..hop /\ GoodNodes(nodes, h, hop) /\ Ranking(router, list, nodes)
      /\ Rank(list, nodes, l, seq, in_tq, ttl, dup)
  BY <1>1 DEF RanksOgm
<1>3. update_orig(list, nodes, l, in_tq, ttl, dup)
  BY <1>2 DEF Rank, Flips
<1> QED
  BY <1>2, <1>3, UpdateNoFlip DEF Inv, Flips

LEMMA PurgeNoFlip ==
    ASSUME Inv, PurgeNeighbours, Flips
    PROVE  GoodReason
<1> USE OriginatorAssumption
<1>1. PICK gone \in SUBSET Listed : gone = {l \in Listed : Expired(neigh[l].last_valid)}
  OBVIOUS
<1>2. PICK list : list = Keep(neigh_list, Listed \ gone)
  OBVIOUS
<1>3. /\ neigh_list \in Seq(Links) /\ Listed = ToSet(neigh_list) /\ Listed \subseteq Links
  BY DEF Inv, Ranking, Listed, ToSet
<1>4. list \in Seq(Links) /\ ToSet(list) = Listed \ gone
  <2>1. PICK S : S = Listed \ gone
    OBVIOUS
  <2>2. list = Keep(neigh_list, S)
    BY <1>2, <2>1
  <2>3. list \in Seq(Links) /\ ToSet(list) = ToSet(neigh_list) \cap S
    BY <1>3, <2>2, KeepFacts
  <2> QED
    BY <1>3, <2>1, <2>3
<1>5. neigh_list' = list /\ neigh' = [l \in Links |-> IF l \in gone THEN NewNeighbour ELSE neigh[l]]
  BY <1>1, <1>2 DEF PurgeNeighbours
<1>6. router \notin gone /\ router # Freed /\ router # NULL /\ router' # NULL
  BY <1>4, <1>5 DEF Flips
<1>7. PICK b \in FirstBest(list) : \E switch \in {neigh[b].tq_avg > neigh[router].tq_avg} :
         router' = IF switch THEN b ELSE router
  BY <1>1, <1>2, <1>6 DEF PurgeNeighbours
<1>8. router' = b /\ neigh[b].tq_avg > neigh[router].tq_avg
  BY <1>7 DEF Flips
<1>9. b \in Links /\ b \notin gone
  <2>1. PICK p \in DOMAIN list : b = list[p]
    BY DEF FirstBest
  <2>2. b \in ToSet(list)
    BY <2>1 DEF ToSet
  <2> QED
    BY <1>3, <1>4, <2>2
<1>10. neigh'[router'] = neigh[b] /\ neigh'[router] = neigh[router]
  BY <1>5, <1>6, <1>8, <1>9 DEF Flips
<1> QED
  BY <1>8, <1>10 DEF GoodReason

\* update_orig and purge_orig give up a router that stays listed only for a
\* neighbour with a higher tq_avg or, at the same tq_avg, with more echoes.
THEOREM NoRouteFlipping == Spec => NoFlipping
<1>1. Inv /\ [Next]_vars => [Flips => GoodReason]_vars
  <2> SUFFICES ASSUME Inv, Next, Flips PROVE GoodReason
    BY DEF vars
  <2>1. ASSUME NEW ogm \in Ogms, NEW seq \in 1..MaxSeq, Receives(ogm, seq) PROVE GoodReason
    <3>1. PICK l \in Links, tq \in 0..TQMax, ttl \in 0..(TtlSpace - 1) :
             ogm.link = l /\ ogm.tq = tq /\ ogm.ttl = ttl
      BY OgmFields
    <3>2. CASE CountOgm(l, seq, tq)
      BY <3>2 DEF CountOgm, Flips
    <3>3. CASE DirectOgm(l, seq, tq, ttl)
      BY <3>3, DirectOgmRanks, OgmNoFlip
    <3>4. CASE \E n \in Counts : RelayedOgm(l, seq, tq, ttl, n)
      BY <3>4, RelayedOgmRanks, OgmNoFlip
    <3> QED
      BY <2>1, <3>1, <3>2, <3>3, <3>4 DEF Receives
  <2>2. CASE \E ogm \in Ogms, seq \in 1..MaxSeq : Receives(ogm, seq)
    BY <2>1, <2>2
  <2>4. ASSUME OwnTraffic \/ Tick PROVE FALSE
    BY <2>4 DEF OwnTraffic, Tick, entry, Flips
  <2>5. ASSUME PurgeOrig PROVE FALSE
    BY <2>5, OriginatorAssumption DEF PurgeOrig, Flips
  <2>6. CASE PurgeNeighbours
    BY <2>6, PurgeNoFlip
  <2> QED
    BY <2>2, <2>4, <2>5, <2>6 DEF Next, Receives
<1>2. [][Flips => GoodReason]_vars => NoFlipping
  BY DEF NoFlipping, Flips, GoodReason
<1> QED
  BY <1>1, <1>2, InvAlways, PTL DEF Spec
=============================================================================
