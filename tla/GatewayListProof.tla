-------------------------- MODULE GatewayListProof --------------------------
(***************************************************************************)
(* Proofs about the gateway list, for any originators, memory, classes and *)
(* timeouts: what list-batman.c does to the ring of pointers, that the     *)
(* list holds what is allocated, that it tells the gateways, and that the  *)
(* last purge empties it.                                                  *)
(***************************************************************************)
EXTENDS GatewayList, FiniteSetTheorems, SequenceTheorems, WellFoundedInduction, TLAPS

-----------------------------------------------------------------------------
(* Rings of pointers *)

\* The i-th cell of s; the ring comes to the head in front of the first one
\* and behind the last one.
Nth(s, i) == IF i \in 1..Len(s) THEN s[i] ELSE Head0

\* The ring of l holds the cells of s in this order.
IsRing(s, l) ==
    /\ l \in Lists
    /\ s \in Seq(Cells)
    /\ \A i, j \in 1..Len(s) : s[i] = s[j] => i = j
    /\ \A i \in 0..Len(s) : l.next[Nth(s, i)] = Nth(s, i + 1)
    /\ l.prev = Nth(s, Len(s))

\* Where the numbers with some property are not empty, they have a least one.
LEMMA LeastNumber ==
    ASSUME NEW S \in SUBSET Nat, S # {}
    PROVE  \E n \in S : \A m \in S : n <= m
<1>1. PICK R : IsWellFoundedOn(R, Nat) /\ \A x, y \in Nat : y < x => <<y, x>> \in R
  <2>1. \A x, y \in Nat : y < x => <<y, x>> \in OpToRel(<, Nat)
    BY DEF OpToRel
  <2> QED
    BY <2>1, NatLessThanWellFounded
<1>2. PICK n \in S : \A y \in S : <<y, n>> \notin R
  BY <1>1, WFMin
<1>3. ASSUME NEW m \in S PROVE n <= m
  <2>1. ~ (m < n)
    BY <1>1, <1>2
  <2> QED
    BY <2>1
<1> QED
  BY <1>3

\* What holds at 0, and at n + 1 if it holds at n, holds up to N.
LEMMA UpTo ==
    ASSUME NEW N \in Nat, NEW S, 0 \in S, \A n \in 0..(N - 1) : n \in S => n + 1 \in S
    PROVE  \A n \in 0..N : n \in S
<1> DEFINE T == {n \in Nat : n \in 0..N /\ n \notin S}
<1> SUFFICES ASSUME T # {} PROVE FALSE
  OBVIOUS
<1>1. T \in SUBSET Nat /\ \A n \in T : n \in Nat /\ n <= N /\ n \notin S
  OBVIOUS
<1>2. \A n \in Nat : n <= N /\ n \notin S => n \in T
  OBVIOUS
<1> HIDE DEF T
<1>3. PICK n \in T : \A m \in T : n <= m
  BY <1>1, LeastNumber
<1>4. n # 0 /\ n \in Nat /\ n - 1 \in 0..(N - 1)
  BY <1>1, <1>3
<1>5. n - 1 \in S
  BY <1>2, <1>3, <1>4
<1>6. (n - 1) + 1 \in S
  BY <1>4, <1>5
<1> QED
  BY <1>1, <1>3, <1>4, <1>6

\* A list is no longer than there are cells.
LEMMA RingIsShort ==
    ASSUME NEW s \in Seq(Cells), \A i, j \in 1..Len(s) : s[i] = s[j] => i = j
    PROVE  Len(s) \in Nat /\ Cardinality(Cells) \in Nat /\ Len(s) <= Cardinality(Cells)
<1>1. PICK one \in Int, n \in Int : one = 1 /\ n = Len(s) /\ n >= 0
  OBVIOUS
<1>2. IsFiniteSet(one..n) /\ Cardinality(one..n) = IF one > n THEN 0 ELSE n - one + 1
  BY FS_Interval
<1>3. Cardinality(one..n) = n
  BY <1>1, <1>2
<1>4. IsFiniteSet(Cells) /\ Cardinality(Cells) \in Nat
  BY ListAssumption, FS_CardinalityType
<1>5. s \in [one..n -> Cells]
  BY <1>1
<1>6. CASE n > Cardinality(Cells)
  <2>1. PICK x, y \in one..n : x # y /\ s[x] = s[y]
    BY <1>2, <1>3, <1>4, <1>5, <1>6, FS_PigeonHole
  <2> QED
    BY <1>1, <2>1
<1> QED
  BY <1>1, <1>4, <1>6

\* INIT_LIST_HEAD_FIRST makes the empty ring.
LEMMA EmptyRing == IsRing(<<>>, EmptyList)
<1>1. EmptyList \in Lists
  BY ListAssumption DEF EmptyList, Lists
<1> QED
  BY <1>1, ListAssumption DEF EmptyList, IsRing, Nth

\* list_add_tail puts a cell that is not in the ring at its end.
LEMMA AddTail ==
    ASSUME NEW s, NEW l, IsRing(s, l), NEW c \in Cells, \A i \in 1..Len(s) : s[i] # c
    PROVE  /\ IsRing(Append(s, c), list_add_tail(l, c))
           /\ ToSet(Append(s, c)) = ToSet(s) \cup {c}
<1>1. s \in Seq(Cells) /\ Len(s) \in Nat /\ \A i \in 1..Len(s) : s[i] \in Cells
  BY DEF IsRing
<1>2. PICK n \in Nat : n = Len(s)
  BY <1>1
<1>3. PICK r \in Seq(Cells) : r = Append(s, c)
  <2>1. Append(s, c) \in Seq(Cells)
    BY <1>1
  <2> QED
    BY <2>1
<1>4. /\ Len(r) = n + 1 /\ r[n + 1] = c
      /\ \A i \in 1..n : r[i] = s[i]
  BY <1>1, <1>2, <1>3
<1>5. PICK m : m = list_add_tail(l, c)
  OBVIOUS
<1>6. /\ l.next \in [Cells \cup {Head0} -> Cells \cup {Head0, NULL}]
      /\ l.prev = Nth(s, n) /\ l.prev \in Cells \cup {Head0}
  BY <1>2 DEF IsRing, Lists
<1>7. Head0 # c
  BY ListAssumption
<1>8. /\ m.next = [l.next EXCEPT ![c] = Head0, ![l.prev] = c]
      /\ m.prev = c
      /\ m = [next |-> m.next, prev |-> m.prev]
  BY <1>5 DEF list_add_tail
<1>9. m \in Lists
  BY <1>6, <1>8 DEF Lists
<1>10. \A i, j \in 1..Len(r) : r[i] = r[j] => i = j
  <2> TAKE i, j \in 1..Len(r)
  <2>1. \A x, y \in 1..n : s[x] = s[y] => x = y
    BY <1>2 DEF IsRing
  <2>2. (i \in 1..n \/ i = n + 1) /\ (j \in 1..n \/ j = n + 1)
    BY <1>4
  <2> QED
    BY <1>2, <1>4, <2>1, <2>2
<1>11. \A i \in 0..n : Nth(r, i) = Nth(s, i) /\ Nth(s, i) # c
  BY <1>2, <1>4, <1>7 DEF Nth
<1>12. Nth(r, n + 1) = c /\ Nth(r, n + 2) = Head0
  BY <1>2, <1>4 DEF Nth
<1>13. \A i, j \in 0..n : Nth(s, i) = Nth(s, j) => i = j
  <2>1. \A x, y \in 1..n : s[x] = s[y] => x = y
    BY <1>2 DEF IsRing
  <2>2. \A x \in 1..n : s[x] # Head0
    BY <1>1, <1>2, ListAssumption
  <2> QED
    BY <1>2, <2>1, <2>2 DEF Nth
<1>14. \A i \in 0..n : Nth(s, i) \in Cells \cup {Head0}
  BY <1>1, <1>2 DEF Nth
<1>15. ASSUME NEW i \in 0..Len(r)
       PROVE  m.next[Nth(r, i)] = Nth(r, i + 1)
  <2>1. CASE i = n + 1
    <3>1. m.next[c] = Head0
      <4>1. l.prev # c
        BY <1>2, <1>6, <1>11
      <4> QED
        BY <1>6, <1>8, <4>1
    <3>2. i + 1 = n + 2
      BY <2>1
    <3> QED
      BY <1>12, <2>1, <3>1, <3>2
  <2>2. CASE i = n
    <3>1. n \in 0..n
      BY <1>2
    <3>2. m.next[Nth(s, n)] = c
      BY <1>6, <1>8
    <3> QED
      BY <1>11, <1>12, <2>2, <3>1, <3>2
  <2>3. CASE i \in 0..(n - 1)
    <3>1. i \in 0..n /\ i + 1 \in 0..n /\ n \in 0..n /\ i # n
      BY <1>2, <2>3
    <3>2. Nth(s, i) # c /\ Nth(s, i) # l.prev
      BY <1>6, <1>11, <1>13, <3>1
    <3>3. m.next[Nth(s, i)] = l.next[Nth(s, i)]
      BY <1>6, <1>8, <1>14, <3>1, <3>2
    <3>4. l.next[Nth(s, i)] = Nth(s, i + 1)
      BY <1>2, <3>1 DEF IsRing
    <3> QED
      BY <1>11, <3>1, <3>3, <3>4
  <2> QED
    BY <1>2, <1>4, <2>1, <2>2, <2>3
<1>16. m.prev = Nth(r, Len(r))
  BY <1>4, <1>8, <1>12
<1>17. ToSet(r) = ToSet(s) \cup {c}
  BY <1>1, <1>2, <1>4 DEF ToSet
<1> QED
  BY <1>3, <1>5, <1>9, <1>10, <1>15, <1>16, <1>17 DEF IsRing

\* list_del with the right predecessor takes a cell out of the ring.
LEMMA Delete ==
    ASSUME NEW s, NEW l, IsRing(s, l), NEW k \in 1..Len(s)
    PROVE  \E r : /\ IsRing(r, list_del(l, Nth(s, k - 1), s[k]))
                  /\ Len(r) = Len(s) - 1
                  /\ \A j \in 1..(Len(s) - 1) : r[j] = IF j < k THEN s[j] ELSE s[j + 1]
<1>1. s \in Seq(Cells) /\ Len(s) \in Nat /\ \A i \in 1..Len(s) : s[i] \in Cells
  BY DEF IsRing
<1>2. PICK n \in Nat : n = Len(s) /\ k \in 1..n /\ n - 1 \in Nat
  BY <1>1
<1> DEFINE r == [j \in 1..(n - 1) |-> IF j < k THEN s[j] ELSE s[j + 1]]
<1>3. r \in Seq(Cells) /\ Len(r) = n - 1
  <2>1. \A j \in 1..(n - 1) : j \in 1..n /\ j + 1 \in 1..n
    BY <1>2
  <2>2. r \in [1..(n - 1) -> Cells]
    BY <1>1, <1>2, <2>1
  <2> HIDE DEF r
  <2>3. PICK m \in Nat : m = n - 1
    BY <1>2
  <2>4. r \in [1..m -> Cells]
    BY <2>2, <2>3
  <2> QED
    BY <2>3, <2>4
<1>4. \A j \in 1..(n - 1) : r[j] = IF j < k THEN s[j] ELSE s[j + 1]
  OBVIOUS
<1> HIDE DEF r
<1>5. PICK m : m = list_del(l, Nth(s, k - 1), s[k])
  OBVIOUS
<1>6. /\ l.next \in [Cells \cup {Head0} -> Cells \cup {Head0, NULL}]
      /\ l.prev = Nth(s, n) /\ l.prev \in Cells \cup {Head0}
  BY <1>2 DEF IsRing, Lists
<1>7. \A i, j \in 0..n : Nth(s, i) = Nth(s, j) => i = j
  <2>1. \A x, y \in 1..n : s[x] = s[y] => x = y
    BY <1>2 DEF IsRing
  <2>2. \A x \in 1..n : s[x] # Head0
    BY <1>1, <1>2, ListAssumption
  <2> QED
    BY <1>2, <2>1, <2>2 DEF Nth
<1>8. \A i \in 0..(n + 1) : Nth(s, i) \in Cells \cup {Head0}
  BY <1>1, <1>2 DEF Nth
<1>9. /\ Nth(s, k) = s[k] /\ k - 1 \in 0..n /\ k \in 0..n /\ k - 1 # k
      /\ Nth(s, k - 1) # s[k]
  <2>1. Nth(s, k) = s[k] /\ k - 1 \in 0..n /\ k \in 0..n /\ k - 1 # k
    BY <1>2 DEF Nth
  <2> QED
    BY <1>7, <2>1
<1>10. PICK p : p = Nth(s, k - 1)
  OBVIOUS
<1>11. /\ m.next = [l.next EXCEPT ![p] = Nth(s, k + 1), ![s[k]] = NULL]
       /\ m.prev = IF l.prev = s[k] THEN p ELSE l.prev
       /\ m = [next |-> m.next, prev |-> m.prev]
  <2>1. l.next[s[k]] = Nth(s, k + 1)
    BY <1>2, <1>9 DEF IsRing
  <2> QED
    BY <1>5, <1>10, <2>1 DEF list_del
<1>12. p \in Cells \cup {Head0} /\ s[k] \in Cells /\ Nth(s, k + 1) \in Cells \cup {Head0}
  <2>1. k - 1 \in 0..(n + 1) /\ k + 1 \in 0..(n + 1)
    BY <1>2
  <2> QED
    BY <1>1, <1>2, <1>8, <1>10, <2>1
<1>13. m \in Lists
  <2>1. m.next \in [Cells \cup {Head0} -> Cells \cup {Head0, NULL}]
    BY <1>6, <1>11, <1>12
  <2>2. m.prev \in Cells \cup {Head0}
    BY <1>6, <1>11, <1>12
  <2> QED
    BY <1>11, <2>1, <2>2 DEF Lists
<1>14. \A i, j \in 1..(n - 1) : r[i] = r[j] => i = j
  <2> TAKE i, j \in 1..(n - 1)
  <2>1. \A x, y \in 1..n : s[x] = s[y] => x = y
    BY <1>2 DEF IsRing
  <2>2. i \in 1..n /\ i + 1 \in 1..n /\ j \in 1..n /\ j + 1 \in 1..n
    BY <1>2
  <2> QED
    BY <1>2, <1>4, <2>1, <2>2
<1>15. \A i \in 0..(k - 1) : Nth(r, i) = Nth(s, i)
  <2> TAKE i \in 0..(k - 1)
  <2>1. i = 0 \/ (i \in 1..(n - 1) /\ i \in 1..n /\ i < k)
    BY <1>2
  <2> QED
    BY <1>2, <1>3, <1>4, <2>1 DEF Nth
<1>16. \A i \in k..n : Nth(r, i) = Nth(s, i + 1)
  <2> TAKE i \in k..n
  <2>1. \/ i = n /\ i \notin 1..(n - 1) /\ i + 1 \notin 1..n
        \/ i \in 1..(n - 1) /\ i + 1 \in 1..n /\ ~ (i < k)
    BY <1>2
  <2> QED
    BY <1>2, <1>3, <1>4, <2>1 DEF Nth
<1>17. \A i \in 0..n : i # k /\ i # k - 1 => m.next[Nth(s, i)] = Nth(s, i + 1)
  <2> SUFFICES ASSUME NEW i \in 0..n, i # k, i # k - 1
               PROVE  m.next[Nth(s, i)] = Nth(s, i + 1)
    OBVIOUS
  <2>1. Nth(s, i) # s[k] /\ Nth(s, i) # p
    BY <1>7, <1>9, <1>10
  <2>2. Nth(s, i) \in Cells \cup {Head0} /\ l.next[Nth(s, i)] = Nth(s, i + 1)
    <3>1. i \in 0..(n + 1)
      OBVIOUS
    <3>2. l.next[Nth(s, i)] = Nth(s, i + 1)
      BY <1>2 DEF IsRing
    <3> QED
      BY <1>8, <3>1, <3>2
  <2> QED
    BY <1>6, <1>11, <2>1, <2>2
<1>18. m.next[p] = Nth(s, k + 1)
  BY <1>6, <1>9, <1>10, <1>11, <1>12
<1>19. ASSUME NEW i \in 0..(n - 1)
       PROVE  m.next[Nth(r, i)] = Nth(r, i + 1)
  <2>1. CASE i < k - 1
    <3>1. i \in 0..(k - 1) /\ i + 1 \in 0..(k - 1) /\ i \in 0..n /\ i # k /\ i # k - 1
      BY <1>2, <2>1
    <3> QED
      BY <1>15, <1>17, <3>1
  <2>2. CASE i = k - 1
    <3>1. i \in 0..(k - 1) /\ i + 1 = k /\ k \in k..n
      BY <1>2, <2>2
    <3> QED
      BY <1>10, <1>15, <1>16, <1>18, <2>2, <3>1
  <2>3. CASE i > k - 1
    <3>1. i \in k..n /\ i + 1 \in k..n /\ i + 1 \in 0..n /\ i + 1 # k /\ i + 1 # k - 1
      BY <1>2, <2>3
    <3> QED
      BY <1>16, <1>17, <3>1
  <2> QED
    BY <1>2, <2>1, <2>2, <2>3
<1>20. m.prev = Nth(r, n - 1)
  <2>1. CASE k = n
    <3>1. l.prev = s[k] /\ n - 1 \in 0..(k - 1) /\ k - 1 = n - 1
      BY <1>2, <1>6, <1>9, <2>1
    <3> QED
      BY <1>10, <1>11, <1>15, <3>1
  <2>2. CASE k # n
    <3>1. n \in 0..n /\ k \in 0..n /\ n - 1 \in k..n /\ (n - 1) + 1 = n
      BY <1>2, <2>2
    <3>2. l.prev # s[k]
      BY <1>6, <1>7, <1>9, <2>2, <3>1
    <3> QED
      BY <1>6, <1>11, <1>16, <3>1, <3>2
  <2> QED
    BY <2>1, <2>2
<1>21. IsRing(r, m)
  BY <1>3, <1>13, <1>14, <1>19, <1>20 DEF IsRing
<1> QED
  BY <1>2, <1>3, <1>4, <1>5, <1>21

\* list_for_each visits the cells of the ring.
LEMMA ElementsAre ==
    ASSUME NEW s, NEW l, IsRing(s, l)
    PROVE  Elements(l) = s
<1> DEFINE N == Cardinality(Cells)
           Fn(f) == [k \in 0..N |->
                       IF k = 0 THEN <<>>
                       ELSE LET t == f[k - 1]
                                c == l.next[IF t = <<>> THEN Head0 ELSE Last(t)]
                            IN  IF c \in Cells THEN Append(t, c) ELSE t]
           walk == CHOOSE f : f = Fn(f)
           g == [k \in 0..N |-> IF k <= Len(s) THEN [i \in 1..k |-> s[i]] ELSE s]
<1>1. s \in Seq(Cells) /\ Len(s) \in Nat /\ N \in Nat /\ Len(s) <= N
  BY RingIsShort DEF IsRing
<1>2. PICK n \in Nat : n = Len(s)
  BY <1>1
<1>3. \A i \in 1..n : s[i] \in Cells
  BY <1>1, <1>2
<1> HIDE DEF N
<1>4. Elements(l) = walk[N]
  BY DEF Elements, N
<1>5. s = [i \in 1..n |-> s[i]]
  BY <1>1, <1>2
<1>6. \A k \in 0..n : \E t \in Seq(Cells) : t = [i \in 1..k |-> s[i]] /\ Len(t) = k
  <2> TAKE k \in 0..n
  <2>1. PICK t : t = [i \in 1..k |-> s[i]]
    OBVIOUS
  <2>2. t \in [1..k -> Cells] /\ k \in Nat
    BY <1>2, <1>3, <2>1
  <2>3. t \in Seq(Cells) /\ Len(t) = k
    BY <2>2
  <2> QED
    BY <2>1, <2>3
<1>7. ASSUME NEW k \in 1..N
      PROVE  g[k] = LET t == g[k - 1]
                        c == l.next[IF t = <<>> THEN Head0 ELSE Last(t)]
                    IN  IF c \in Cells THEN Append(t, c) ELSE t
  <2> DEFINE t == g[k - 1]
             c == l.next[IF t = <<>> THEN Head0 ELSE Last(t)]
  <2>1. k \in 0..N /\ k - 1 \in 0..N
    BY <1>1
  <2>2. CASE k <= n
    <3>1. k - 1 \in 0..n /\ k \in 1..n /\ k \in 0..n /\ k - 1 <= Len(s) /\ k <= Len(s)
      BY <1>2, <2>2
    <3>2. t = [i \in 1..(k - 1) |-> s[i]] /\ g[k] = [i \in 1..k |-> s[i]]
      BY <2>1, <3>1
    <3>3. t \in Seq(Cells) /\ Len(t) = k - 1 /\ \A i \in 1..(k - 1) : t[i] = s[i]
      <4> HIDE DEF t
      <4>1. PICK v \in Seq(Cells) : v = [i \in 1..(k - 1) |-> s[i]] /\ Len(v) = k - 1
        BY <1>6, <3>1
      <4>2. t = v
        BY <3>2, <4>1
      <4> QED
        BY <3>2, <4>1, <4>2
    <3>4. PICK u \in Seq(Cells) : u = g[k] /\ Len(u) = k /\ \A i \in 1..k : u[i] = s[i]
      <4>1. PICK v \in Seq(Cells) : v = [i \in 1..k |-> s[i]] /\ Len(v) = k
        BY <1>6, <3>1
      <4>2. \A i \in 1..k : v[i] = s[i]
        BY <4>1
      <4>3. v = g[k]
        BY <3>2, <4>1
      <4> QED
        BY <4>1, <4>2, <4>3
    <3> HIDE DEF g
    <3>5. c = s[k]
      <4>1. (IF t = <<>> THEN Head0 ELSE Last(t)) = Nth(s, k - 1)
        <5>1. CASE k = 1
          <6>1. t = <<>>
            BY <3>3, <5>1
          <6> QED
            BY <5>1, <6>1 DEF Nth
        <5>2. CASE k # 1
          <6>1. t # <<>> /\ k - 1 \in 1..(k - 1) /\ k - 1 \in 1..Len(s)
            BY <1>2, <3>1, <3>3, <5>2
          <6> QED
            BY <3>3, <6>1 DEF Nth, Last
        <5> QED
          BY <5>1, <5>2
      <4>2. l.next[Nth(s, k - 1)] = Nth(s, (k - 1) + 1)
        BY <1>2, <3>1 DEF IsRing
      <4>3. Nth(s, (k - 1) + 1) = s[k]
        BY <1>2, <3>1 DEF Nth
      <4> QED
        BY <4>1, <4>2, <4>3
    <3>6. Append(t, s[k]) = u
      <4> DEFINE a == Append(t, s[k])
      <4>1. a \in Seq(Cells) /\ Len(a) = k /\ \A i \in 1..(k - 1) : a[i] = t[i]
        BY <1>3, <3>1, <3>3
      <4>2. a[k] = s[k]
        BY <1>3, <3>1, <3>3
      <4>3. \A i \in 1..k : a[i] = u[i]
        <5> HIDE DEF a, t
        <5> TAKE i \in 1..k
        <5>1. i = k \/ i \in 1..(k - 1)
          BY <3>1
        <5> QED
          BY <3>3, <3>4, <4>1, <4>2, <5>1
      <4> HIDE DEF a
      <4>4. a = u
        BY <3>4, <4>1, <4>3
      <4> QED
        BY <4>4 DEF a
    <3> QED
      BY <1>3, <3>1, <3>4, <3>5, <3>6
  <2>3. CASE k > n
    <3>1. t = s /\ g[k] = s
      <4>1. CASE k - 1 = n
        <5>1. k - 1 <= Len(s) /\ ~ (k <= Len(s)) /\ 1..(k - 1) = 1..n
          BY <1>2, <2>3, <4>1
        <5>2. t = [i \in 1..(k - 1) |-> s[i]] /\ g[k] = s
          BY <2>1, <5>1
        <5> QED
          BY <1>5, <5>1, <5>2
      <4>2. CASE k - 1 # n
        <5>1. ~ (k - 1 <= Len(s)) /\ ~ (k <= Len(s))
          BY <1>2, <2>3, <4>2
        <5> QED
          BY <2>1, <5>1
      <4>3. ~ (k <= Len(s))
        BY <1>2, <2>3
      <4> QED
        BY <2>1, <4>1, <4>2, <4>3
    <3> HIDE DEF g
    <3>2. (IF s = <<>> THEN Head0 ELSE Last(s)) = Nth(s, n)
      <4>1. CASE n = 0
        <5>1. s = <<>>
          BY <1>1, <1>2, <4>1, EmptySeq
        <5> QED
          BY <4>1, <5>1 DEF Nth
      <4>2. CASE n # 0
        <5>1. s # <<>> /\ n \in 1..Len(s)
          BY <1>1, <1>2, <4>2
        <5> QED
          BY <1>2, <5>1 DEF Nth, Last
      <4> QED
        BY <4>1, <4>2
    <3>3. c = Head0
      <4>1. n \in 0..Len(s) /\ n + 1 \notin 1..Len(s)
        BY <1>2
      <4>2. l.next[Nth(s, n)] = Nth(s, n + 1)
        BY <4>1 DEF IsRing
      <4> QED
        BY <3>1, <3>2, <4>1, <4>2 DEF Nth
    <3> QED
      BY <3>1, <3>3, ListAssumption
  <2> QED
    BY <1>2, <2>2, <2>3
<1>8. g[0] = <<>>
  <2>1. 0 \in 0..N /\ 0 <= Len(s)
    BY <1>1
  <2>2. g[0] = [i \in 1..0 |-> s[i]]
    BY <2>1
  <2> QED
    BY <2>2
<1>9. g = Fn(g)
  <2>1. ASSUME NEW k \in 0..N PROVE g[k] = Fn(g)[k]
    <3>1. k = 0 \/ k \in 1..N
      BY <1>1
    <3> HIDE DEF g
    <3> QED
      BY <1>7, <1>8, <3>1
  <2>2. g = [k \in 0..N |-> g[k]] /\ Fn(g) = [k \in 0..N |-> Fn(g)[k]]
    OBVIOUS
  <2> HIDE DEF g, Fn
  <2> QED
    BY <2>1, <2>2
<1>10. walk = Fn(walk)
  <2> HIDE DEF g, Fn
  <2> QED
    BY <1>9
<1>11. ASSUME NEW k \in 0..N PROVE walk[k] = g[k]
  <2> DEFINE S == {j \in 0..N : walk[j] = g[j]}
  <2>1. 0 \in S
    <3>1. 0 \in 0..N
      BY <1>1
    <3>2. Fn(walk)[0] = <<>>
      BY <3>1
    <3> HIDE DEF walk, Fn, g
    <3> QED
      BY <1>8, <1>10, <3>1, <3>2
  <2>2. ASSUME NEW j \in 0..(N - 1), j \in S PROVE j + 1 \in S
    <3>1. j + 1 \in 1..N /\ j + 1 \in 0..N /\ (j + 1) - 1 = j /\ j + 1 # 0
      BY <1>1
    <3>2. walk[j] = g[j]
      BY <2>2
    <3> HIDE DEF g, walk
    <3>3. Fn(walk)[j + 1] = LET t == walk[j]
                                c == l.next[IF t = <<>> THEN Head0 ELSE Last(t)]
                            IN  IF c \in Cells THEN Append(t, c) ELSE t
      BY <3>1
    <3>4. g[j + 1] = LET t == g[j]
                         c == l.next[IF t = <<>> THEN Head0 ELSE Last(t)]
                     IN  IF c \in Cells THEN Append(t, c) ELSE t
      BY <1>7, <3>1
    <3>5. walk[j + 1] = Fn(walk)[j + 1]
      <4> HIDE DEF Fn
      <4> QED
        BY <1>10
    <3>6. walk[j + 1] = g[j + 1]
      <4> HIDE DEF Fn
      <4> QED
        BY <3>2, <3>3, <3>4, <3>5
    <3> QED
      BY <3>1, <3>6
  <2> HIDE DEF S
  <2>3. k \in S
    BY <1>1, <2>1, <2>2, UpTo
  <2> QED
    BY <2>3 DEF S
<1>12. g[N] = s
  <2>1. N \in 0..N
    BY <1>1
  <2>2. CASE N = n
    BY <1>2, <1>5, <2>1, <2>2
  <2>3. CASE N # n
    <3>1. ~ (N <= Len(s))
      BY <1>1, <1>2, <2>3
    <3> QED
      BY <2>1, <3>1
  <2> QED
    BY <2>2, <2>3
<1>13. N \in 0..N
  BY <1>1
<1> HIDE DEF walk, g
<1> QED
  BY <1>4, <1>11, <1>12, <1>13

-----------------------------------------------------------------------------
(* The sweep over the list *)

\* f starts with c, and each value follows from the one before.
Follows(f, N, V, c, step) ==
    f \in [0..N -> V] /\ f[0] = c /\ \A i \in 1..N : f[i] = step[<<f[i - 1], i>>]

\* A function on 0..N may be defined by its value at 0 and by each value from
\* the one before.
LEMMA PrimitiveRecursion ==
    ASSUME NEW N \in Nat, NEW V, NEW c, NEW step,
           c \in V, \A v \in V, i \in 1..N : step[<<v, i>>] \in V
    PROVE  \E f : Follows(f, N, V, c, step)
<1> DEFINE S == {n \in 0..N : \E f : Follows(f, n, V, c, step)}
<1>1. 0 \in S
  <2>1. \E f : Follows(f, 0, V, c, step)
    <3> DEFINE g == [i \in 0..0 |-> c]
    <3>1. Follows(g, 0, V, c, step)
      BY DEF Follows
    <3> HIDE DEF g
    <3> QED
      BY <3>1
  <2>2. 0 \in 0..N
    OBVIOUS
  <2> QED
    BY <2>1, <2>2
<1>2. ASSUME NEW n \in 0..(N - 1), n \in S
      PROVE  n + 1 \in S
  <2>1. PICK f : Follows(f, n, V, c, step)
    BY <1>2
  <2>2. f[n] \in V /\ n + 1 \in 1..N
    BY <2>1 DEF Follows
  <2>3. PICK v \in V : v = step[<<f[n], n + 1>>]
    BY <2>2
  <2> DEFINE g == [i \in 0..(n + 1) |-> IF i = n + 1 THEN v ELSE f[i]]
  <2>4. g \in [0..(n + 1) -> V]
    BY <2>1 DEF Follows
  <2>5. g[0] = c /\ g[n + 1] = v /\ \A i \in 0..n : g[i] = f[i]
    BY <2>1 DEF Follows
  <2> HIDE DEF g
  <2>6. \A i \in 1..(n + 1) : g[i] = step[<<g[i - 1], i>>]
    <3> SUFFICES ASSUME NEW i \in 1..(n + 1) PROVE g[i] = step[<<g[i - 1], i>>]
      OBVIOUS
    <3>1. CASE i = n + 1
      BY <2>3, <2>5, <3>1
    <3>2. CASE i # n + 1
      <4>1. i \in 1..n /\ i \in 0..n /\ i - 1 \in 0..n
        BY <3>2
      <4> QED
        BY <2>1, <2>5, <4>1 DEF Follows
    <3> QED
      BY <3>1, <3>2
  <2>7. Follows(g, n + 1, V, c, step)
    BY <2>4, <2>5, <2>6 DEF Follows
  <2> QED
    BY <2>2, <2>7
<1> HIDE DEF S
<1>3. N \in S
  BY <1>1, <1>2, UpTo
<1> QED
  BY <1>3 DEF S

Sweep == [list : Lists, prev_list_head : Cells \cup {Head0}]

\* What the loop does at one entry.
SweepOn(gw, t, a, c) ==
    IF Expired(gw, c, t)
    THEN [a EXCEPT !.list = list_del(@, a.prev_list_head, c)]
    ELSE [a EXCEPT !.prev_list_head = c]

LEMMA SweepTyped ==
    ASSUME NEW gw, NEW t, NEW a \in Sweep, NEW c \in Cells
    PROVE  /\ SweepOn(gw, t, a, c) \in Sweep
           /\ Expired(gw, c, t) =>
                 /\ SweepOn(gw, t, a, c).list = list_del(a.list, a.prev_list_head, c)
                 /\ SweepOn(gw, t, a, c).prev_list_head = a.prev_list_head
           /\ ~ Expired(gw, c, t) =>
                 /\ SweepOn(gw, t, a, c).list = a.list
                 /\ SweepOn(gw, t, a, c).prev_list_head = c
<1>1. PICK l \in Lists, p \in Cells \cup {Head0} : a = [list |-> l, prev_list_head |-> p]
  BY DEF Sweep
<1>2. list_del(l, p, c) \in Lists
  <2>1. PICK n \in [Cells \cup {Head0} -> Cells \cup {Head0, NULL}], q \in Cells \cup {Head0} :
           l = [next |-> n, prev |-> q]
    BY DEF Lists
  <2>2. n[c] \in Cells \cup {Head0, NULL}
    OBVIOUS
  <2>3. [n EXCEPT ![p] = n[c], ![c] = NULL] \in [Cells \cup {Head0} -> Cells \cup {Head0, NULL}]
    BY <2>2
  <2> QED
    BY <2>1, <2>3 DEF list_del, Lists
<1>3. CASE Expired(gw, c, t)
  <2>1. SweepOn(gw, t, a, c) = [list |-> list_del(l, p, c), prev_list_head |-> p]
    BY <1>1, <1>3 DEF SweepOn
  <2> QED
    BY <1>1, <1>2, <1>3, <2>1 DEF Sweep
<1>4. CASE ~ Expired(gw, c, t)
  <2>1. SweepOn(gw, t, a, c) = [list |-> l, prev_list_head |-> c]
    BY <1>1, <1>4 DEF SweepOn
  <2> QED
    BY <1>1, <1>4, <2>1 DEF Sweep
<1> QED
  BY <1>3, <1>4

\* After k of the entries of s: those of them that stay are the first j of
\* the ring, the last of these is prev_list_head, and the others follow.
SweptTo(s, gw, t, k, a, r, j) ==
    /\ IsRing(r, a.list)
    /\ j \in 0..Len(r)
    /\ a.prev_list_head = Nth(r, j)
    /\ Len(r) - j = Len(s) - k
    /\ \A m \in 1..(Len(s) - k) : r[j + m] = s[k + m]
    /\ \A c : (\E i \in 1..j : r[i] = c) <=> (\E i \in 1..k : s[i] = c) /\ ~ Expired(gw, c, t)

LEMMA SweepStep ==
    ASSUME NEW s \in Seq(Cells), NEW gw, NEW t, NEW a \in Sweep, NEW k \in 0..(Len(s) - 1),
           NEW r, NEW j, SweptTo(s, gw, t, k, a, r, j)
    PROVE  \E q, i : SweptTo(s, gw, t, k + 1, SweepOn(gw, t, a, s[k + 1]), q, i)
<1>1. PICK n \in Nat, m \in Nat : n = Len(s) /\ m = Len(r)
  BY DEF SweptTo, IsRing
<1>2. /\ IsRing(r, a.list)
      /\ j \in 0..m /\ k \in 0..(n - 1) /\ k + 1 \in 1..n
      /\ a.prev_list_head = Nth(r, j)
      /\ m - j = n - k
      /\ \A x \in 1..(n - k) : r[j + x] = s[k + x]
  BY <1>1 DEF SweptTo
<1>3. \A c : (\E i \in 1..j : r[i] = c) <=> (\E i \in 1..k : s[i] = c) /\ ~ Expired(gw, c, t)
  BY DEF SweptTo
<1>4. PICK c \in Cells : c = s[k + 1]
  BY <1>1, <1>2
<1>5. j + 1 \in 1..m /\ r[j + 1] = c
  <2>1. 1 \in 1..(n - k) /\ j + 1 \in 1..m
    BY <1>1, <1>2
  <2> QED
    BY <1>2, <1>4, <2>1
<1>6. PICK b \in Sweep : b = SweepOn(gw, t, a, c)
  BY SweepTyped
<1>7. \A d : (\E i \in 1..(k + 1) : s[i] = d) <=> (\E i \in 1..k : s[i] = d) \/ d = c
  <2>1. \A i \in 1..(k + 1) : i \in 1..k \/ i = k + 1
    BY <1>2
  <2>2. k + 1 \in 1..(k + 1) /\ \A i \in 1..k : i \in 1..(k + 1)
    BY <1>2
  <2> QED
    BY <1>4, <2>1, <2>2
<1>8. CASE Expired(gw, c, t)
  <2>1. b.list = list_del(a.list, Nth(r, (j + 1) - 1), r[j + 1]) /\ b.prev_list_head = Nth(r, j)
    <3>1. (j + 1) - 1 = j
      BY <1>2
    <3> QED
      BY <1>2, <1>5, <1>6, <1>8, <3>1, SweepTyped
  <2>2. PICK q : /\ IsRing(q, b.list) /\ Len(q) = m - 1
                 /\ \A x \in 1..(m - 1) : q[x] = IF x < j + 1 THEN r[x] ELSE r[x + 1]
    <3>1. PICK i \in 1..Len(r) : i = j + 1
      BY <1>1, <1>5
    <3>2. b.list = list_del(a.list, Nth(r, i - 1), r[i])
      BY <2>1, <3>1
    <3>3. \E q : /\ IsRing(q, list_del(a.list, Nth(r, i - 1), r[i]))
                 /\ Len(q) = Len(r) - 1
                 /\ \A x \in 1..(Len(r) - 1) : q[x] = IF x < i THEN r[x] ELSE r[x + 1]
      BY <1>2, Delete
    <3> QED
      BY <1>1, <3>1, <3>2, <3>3
  <2>3. \A x \in 1..j : x \in 1..(m - 1) /\ x \in 1..m /\ q[x] = r[x]
    BY <1>1, <1>2, <1>5, <2>2
  <2>4. b.prev_list_head = Nth(q, j)
    BY <1>1, <1>2, <2>1, <2>2, <2>3 DEF Nth
  <2>5. j \in 0..(m - 1) /\ (m - 1) - j = n - (k + 1)
    BY <1>1, <1>2, <1>5
  <2>6. ASSUME NEW x \in 1..(n - (k + 1))
        PROVE  q[j + x] = s[(k + 1) + x]
    <3>1. /\ j + x \in 1..(m - 1) /\ ~ (j + x < j + 1) /\ (j + x) + 1 = j + (x + 1)
          /\ x + 1 \in 1..(n - k) /\ k + (x + 1) = (k + 1) + x
      BY <1>1, <1>2, <1>5
    <3>2. q[j + x] = r[j + (x + 1)]
      BY <2>2, <3>1
    <3>3. r[j + (x + 1)] = s[k + (x + 1)]
      BY <1>2, <3>1
    <3> QED
      BY <3>1, <3>2, <3>3
  <2>7. ASSUME NEW d
        PROVE  (\E i \in 1..j : q[i] = d) <=> (\E i \in 1..(k + 1) : s[i] = d) /\ ~ Expired(gw, d, t)
    <3>1. (\E i \in 1..j : q[i] = d) <=> (\E i \in 1..j : r[i] = d)
      BY <2>3
    <3> QED
      BY <1>3, <1>7, <1>8, <3>1
  <2>8. SweptTo(s, gw, t, k + 1, b, q, j)
    BY <1>1, <2>2, <2>4, <2>5, <2>6, <2>7 DEF SweptTo
  <2> QED
    BY <1>4, <1>6, <2>8
<1>9. CASE ~ Expired(gw, c, t)
  <2>1. b.list = a.list /\ b.prev_list_head = c
    BY <1>6, <1>9, SweepTyped
  <2>2. c = Nth(r, j + 1)
    BY <1>1, <1>5 DEF Nth
  <2>3. j + 1 \in 0..m /\ m - (j + 1) = n - (k + 1)
    BY <1>1, <1>2, <1>5
  <2>4. ASSUME NEW x \in 1..(n - (k + 1))
        PROVE  r[(j + 1) + x] = s[(k + 1) + x]
    <3>1. x + 1 \in 1..(n - k) /\ j + (x + 1) = (j + 1) + x /\ k + (x + 1) = (k + 1) + x
      BY <1>1, <1>2
    <3>2. r[j + (x + 1)] = s[k + (x + 1)]
      BY <1>2, <3>1
    <3> QED
      BY <3>1, <3>2
  <2>5. ASSUME NEW d
        PROVE  (\E i \in 1..(j + 1) : r[i] = d) <=> (\E i \in 1..(k + 1) : s[i] = d) /\ ~ Expired(gw, d, t)
    <3>1. \A i \in 1..(j + 1) : i \in 1..j \/ i = j + 1
      BY <1>2
    <3>2. j + 1 \in 1..(j + 1) /\ \A i \in 1..j : i \in 1..(j + 1)
      BY <1>2
    <3>3. (\E i \in 1..(j + 1) : r[i] = d) <=> (\E i \in 1..j : r[i] = d) \/ d = c
      BY <1>5, <3>1, <3>2
    <3> QED
      BY <1>3, <1>7, <1>9, <3>3
  <2>6. SweptTo(s, gw, t, k + 1, b, r, j + 1)
    BY <1>1, <1>2, <2>1, <2>2, <2>3, <2>4, <2>5 DEF SweptTo
  <2> QED
    BY <1>4, <1>6, <2>6
<1> QED
  BY <1>8, <1>9

\* The entries of r are those of s that are not long deleted.
Stay(r, s, gw, t) ==
    \A c : (\E i \in 1..Len(r) : r[i] = c)
           <=> (\E i \in 1..Len(s) : s[i] = c) /\ ~ Expired(gw, c, t)

\* The loop takes the entries long deleted out of the ring and no other.
LEMMA SweptIs ==
    ASSUME NEW s, IsRing(s, gw_list), NEW gw, NEW t
    PROVE  \E r : IsRing(r, Swept(gw, t)) /\ Stay(r, s, gw, t)
<1> DEFINE N == Len(s)
           start == [list |-> gw_list, prev_list_head |-> Head0]
           Fn(f) == [k \in 0..N |->
                       IF k = 0 THEN start
                       ELSE IF Expired(gw, s[k], t)
                       THEN [f[k - 1] EXCEPT !.list = list_del(@, f[k - 1].prev_list_head, s[k])]
                       ELSE [f[k - 1] EXCEPT !.prev_list_head = s[k]]]
           after == CHOOSE f : f = Fn(f)
           step == [x \in Sweep \X (1..N) |-> SweepOn(gw, t, x[1], s[x[2]])]
<1>1. s \in Seq(Cells) /\ N \in Nat /\ \A i \in 1..N : s[i] \in Cells
  BY DEF IsRing
<1>2. Swept(gw, t) = after[N].list
  <2>1. Elements(gw_list) = s
    BY ElementsAre
  <2> QED
    BY <2>1 DEF Swept
<1>3. start \in Sweep
  BY DEF IsRing, Sweep
<1>4. \A a \in Sweep, k \in 1..N : step[<<a, k>>] = SweepOn(gw, t, a, s[k])
  OBVIOUS
<1>5. \A a \in Sweep, k \in 1..N : step[<<a, k>>] \in Sweep
  BY <1>1, <1>4, SweepTyped
<1>6. \E f : Follows(f, N, Sweep, start, step)
  <2> HIDE DEF N, start, step
  <2> QED
    BY <1>1, <1>3, <1>5, PrimitiveRecursion
<1>7. PICK f : Follows(f, N, Sweep, start, step)
  BY <1>6
<1> HIDE DEF start, step
<1>8. f = Fn(f)
  <2>1. f = [k \in 0..N |-> f[k]]
    BY <1>7 DEF Follows
  <2>2. ASSUME NEW k \in 0..N PROVE f[k] = Fn(f)[k]
    <3>1. CASE k = 0
      BY <1>7, <3>1 DEF Follows
    <3>2. CASE k # 0
      <4>1. k \in 1..N /\ k - 1 \in 0..N
        BY <1>1, <3>2
      <4>2. f[k - 1] \in Sweep /\ f[k] = step[<<f[k - 1], k>>]
        BY <1>7, <4>1 DEF Follows
      <4>3. f[k] = SweepOn(gw, t, f[k - 1], s[k])
        BY <1>4, <4>1, <4>2
      <4> QED
        BY <3>2, <4>3 DEF SweepOn
    <3> QED
      BY <3>1, <3>2
  <2>3. Fn(f) = [k \in 0..N |-> Fn(f)[k]]
    OBVIOUS
  <2> HIDE DEF Fn
  <2> QED
    BY <2>1, <2>2, <2>3
<1>9. after = Fn(after)
  <2> HIDE DEF Fn
  <2> QED
    BY <1>8
<1>10. after[0] = start
  <2>1. 0 \in 0..N
    BY <1>1
  <2>2. Fn(after)[0] = start
    BY <2>1
  <2> HIDE DEF Fn, after
  <2> QED
    BY <1>9, <2>2
<1>11. ASSUME NEW k \in 0..(N - 1)
       PROVE  after[k + 1] = SweepOn(gw, t, after[k], s[k + 1])
  <2>1. k + 1 \in 0..N /\ k + 1 # 0 /\ (k + 1) - 1 = k
    BY <1>1
  <2> HIDE DEF after
  <2>2. Fn(after)[k + 1] = SweepOn(gw, t, after[k], s[k + 1])
    BY <2>1 DEF SweepOn
  <2> HIDE DEF Fn
  <2> QED
    BY <1>9, <2>2
<1> HIDE DEF after, Fn
<1> DEFINE S == {k \in 0..N : after[k] \in Sweep /\ \E r, j : SweptTo(s, gw, t, k, after[k], r, j)}
<1>12. 0 \in S
  <2>1. SweptTo(s, gw, t, 0, start, s, 0)
    <3>1. start.list = gw_list /\ start.prev_list_head = Nth(s, 0)
      BY DEF start, Nth
    <3>2. \A m \in 1..(Len(s) - 0) : s[0 + m] = s[0 + m]
      OBVIOUS
    <3>3. 0 \in 0..Len(s) /\ Len(s) - 0 = Len(s) - 0
      BY <1>1
    <3>4. \A c : (\E i \in 1..0 : s[i] = c) <=> (\E i \in 1..0 : s[i] = c) /\ ~ Expired(gw, c, t)
      OBVIOUS
    <3> QED
      BY <3>1, <3>2, <3>3, <3>4 DEF SweptTo
  <2>2. 0 \in 0..N
    BY <1>1
  <2> QED
    BY <1>3, <1>10, <2>1, <2>2
<1>13. ASSUME NEW k \in 0..(N - 1), k \in S
       PROVE  k + 1 \in S
  <2>1. PICK a \in Sweep : a = after[k]
    BY <1>13
  <2>2. PICK r, j : SweptTo(s, gw, t, k, a, r, j)
    BY <1>13, <2>1
  <2>3. s[k + 1] \in Cells /\ k + 1 \in 0..N
    BY <1>1
  <2>4. SweepOn(gw, t, a, s[k + 1]) \in Sweep
    BY <2>3, SweepTyped
  <2>5. \E q, i : SweptTo(s, gw, t, k + 1, SweepOn(gw, t, a, s[k + 1]), q, i)
    BY <1>1, <2>2, SweepStep
  <2> QED
    BY <1>11, <2>1, <2>3, <2>4, <2>5
<1> HIDE DEF S
<1>14. N \in S
  <2> HIDE DEF N
  <2>1. \A k \in 0..N : k \in S
    BY <1>1, <1>12, <1>13, UpTo
  <2> QED
    BY <1>1, <2>1
<1>15. PICK r, j : SweptTo(s, gw, t, N, after[N], r, j)
  BY <1>14 DEF S
<1>16. IsRing(r, after[N].list) /\ j = Len(r)
  <2>1. IsRing(r, after[N].list) /\ j \in 0..Len(r) /\ Len(r) - j = Len(s) - N /\ Len(r) \in Nat
    BY <1>15 DEF SweptTo, IsRing
  <2> QED
    BY <1>1, <2>1
<1>17. \A c : (\E i \in 1..j : r[i] = c) <=> (\E i \in 1..N : s[i] = c) /\ ~ Expired(gw, c, t)
  BY <1>15 DEF SweptTo
<1> QED
  BY <1>2, <1>16, <1>17 DEF Stay

-----------------------------------------------------------------------------
(* The inductive invariant *)

\* The list is a ring of the entries that are allocated.
RingOk == \E s : IsRing(s, gw_list) /\ \A c : (\E i \in 1..Len(s) : s[i] = c) <=> c \in Allocated

\* Nothing was heard or deleted later than now.
PastTimes ==
    /\ \A p \in Ptrs : orig_node[p] # NULL => orig_node[p].last_valid <= now
    /\ \A c \in Cells : gw_node[c] # NULL => gw_node[c].deleted <= now

Inv ==
    /\ TypeOK
    /\ RingOk
    /\ GatewaysListed
    /\ PastTimes
    /\ NothingLeft

\* What list_for_each visits is what is allocated.
LEMMA ElementsAreAllocated ==
    ASSUME RingOk
    PROVE  /\ ToSet(Elements(gw_list)) = Allocated
           /\ InOrder(gw_list)
           /\ Elements(gw_list) \in Seq(Cells)
<1>1. PICK s : IsRing(s, gw_list) /\ \A c : (\E i \in 1..Len(s) : s[i] = c) <=> c \in Allocated
  BY DEF RingOk
<1>2. Elements(gw_list) = s
  BY <1>1, ElementsAre
<1>3. s \in Seq(Cells) /\ Len(s) \in Nat /\ DOMAIN s = 1..Len(s)
  BY <1>1 DEF IsRing
<1>4. ToSet(s) = Allocated
  <2>1. \A c : c \in ToSet(s) <=> \E i \in 1..Len(s) : s[i] = c
    BY <1>3 DEF ToSet
  <2> QED
    BY <1>1, <2>1
<1>5. InOrder(gw_list)
  <2>1. (IF s = <<>> THEN Head0 ELSE Last(s)) = Nth(s, Len(s))
    <3>1. CASE s = <<>>
      BY <3>1 DEF Nth
    <3>2. CASE s # <<>>
      <4>1. Len(s) \in 1..Len(s)
        BY <1>3, <3>2, EmptySeq
      <4> QED
        BY <3>2, <4>1 DEF Nth, Last
    <3> QED
      BY <3>1, <3>2
  <2>2. IsInjective(s)
    BY <1>1, <1>3 DEF IsRing, IsInjective
  <2>3. Len(s) \in 0..Len(s) /\ Len(s) + 1 \notin 1..Len(s)
    BY <1>3
  <2>4. gw_list.next[Nth(s, Len(s))] = Nth(s, Len(s) + 1) /\ gw_list.prev = Nth(s, Len(s))
    BY <1>1, <2>3 DEF IsRing
  <2>5. Nth(s, Len(s) + 1) = Head0
    BY <2>3 DEF Nth
  <2> QED
    BY <1>2, <2>1, <2>2, <2>4, <2>5 DEF InOrder
<1> QED
  BY <1>2, <1>3, <1>4, <1>5

LEMMA InitInv == Init => Inv
<1> SUFFICES ASSUME Init PROVE Inv
  OBVIOUS
<1>1. TypeOK
  <2>1. EmptyList \in Lists
    BY EmptyRing DEF IsRing
  <2>2. now \in 1..MaxTime
    BY GatewayAssumption DEF Init
  <2> QED
    BY <2>1, <2>2 DEF Init, TypeOK
<1>2. RingOk
  <2>1. IsRing(<<>>, gw_list)
    BY EmptyRing DEF Init
  <2>2. Allocated = {}
    BY DEF Init, Allocated
  <2>3. \A c : (\E i \in 1..Len(<<>>) : <<>>[i] = c) <=> c \in Allocated
    BY <2>2
  <2> QED
    BY <2>1, <2>3 DEF RingOk
<1> QED
  BY <1>1, <1>2 DEF Init, Inv, GatewaysListed, PastTimes, NothingLeft, Allocated

-----------------------------------------------------------------------------
(* Messages *)

\* get_orig_node yields the originator at p, or a new one that is no gateway.
LEMMA NodeFacts ==
    ASSUME Inv, NEW o \in Origs, NEW p \in Places(o)
    PROVE  /\ p \in Ptrs
           /\ get_orig_node(o, p) \in OrigNode
           /\ orig_node[p] # NULL => get_orig_node(o, p) = orig_node[p]
           /\ orig_node[p] = NULL => get_orig_node(o, p).gwflags = 0
           /\ get_orig_node(o, p).last_valid <= now
<1>1. p \in Ptrs
  BY DEF Places
<1>2. CASE orig_node[p] # NULL
  BY <1>1, <1>2 DEF Inv, TypeOK, PastTimes, get_orig_node
<1>3. CASE orig_node[p] = NULL
  <2>1. PICK n \in OrigNode : n = [orig |-> o, gwflags |-> 0, last_valid |-> 0]
    <3>1. 0 \in 0..MaxTime /\ 0 \in Classes
      BY GatewayAssumption
    <3>2. [orig |-> o, gwflags |-> 0, last_valid |-> 0] \in OrigNode
      BY <3>1 DEF OrigNode
    <3> QED
      BY <3>2
  <2>2. get_orig_node(o, p) = n /\ n.gwflags = 0 /\ n.last_valid = 0
    BY <1>3, <2>1 DEF get_orig_node
  <2> QED
    BY <1>1, <1>3, <2>2 DEF Inv, TypeOK
<1> QED
  BY <1>2, <1>3

\* The entry update_gw_list finds is the one of the originator at p.
LEMMA FirstEntry ==
    ASSUME Inv, NEW p, EntryOf(p) # {}
    PROVE  FirstEntryOf(p) \in Allocated /\ gw_node[FirstEntryOf(p)].orig_node = p
<1>1. PICK s \in Seq(Cells) : s = Elements(gw_list) /\ ToSet(s) = Allocated
  BY ElementsAreAllocated DEF Inv
<1>2. PICK S : S = {i \in DOMAIN s : s[i] \in EntryOf(p)}
  OBVIOUS
<1>3. S \in SUBSET Nat /\ S # {}
  <2>1. DOMAIN s \subseteq Nat
    BY <1>1
  <2>2. PICK c \in EntryOf(p) : c \in ToSet(s)
    BY <1>1 DEF EntryOf
  <2>3. PICK i \in DOMAIN s : s[i] = c
    BY <2>2 DEF ToSet
  <2> QED
    BY <1>2, <2>1, <2>2, <2>3
<1>4. \E n \in S : \A m \in S : n <= m
  BY <1>3, LeastNumber
<1>5. Min(S) \in S
  BY <1>4 DEF Min
<1>6. FirstEntryOf(p) \in EntryOf(p)
  BY <1>1, <1>2, <1>5 DEF FirstEntryOf
<1> QED
  BY <1>1, <1>6 DEF EntryOf

LEMMA DropOgmKeeps ==
    ASSUME Inv, NEW o \in Origs, DropOgm(o)
    PROVE  Inv'
<1>0. PICK p \in Places(o) : \E t \in {get_orig_node(o, p).last_valid, now} :
         orig_node' = [orig_node EXCEPT ![p] = [get_orig_node(o, p) EXCEPT !.last_valid = t]]
  BY DEF DropOgm
<1>1. PICK t \in {get_orig_node(o, p).last_valid, now} :
         orig_node' = [orig_node EXCEPT ![p] = [get_orig_node(o, p) EXCEPT !.last_valid = t]]
  BY <1>0
<1>2. PICK n \in OrigNode :
         /\ n = get_orig_node(o, p) /\ n.last_valid <= now
         /\ orig_node[p] # NULL => n = orig_node[p]
         /\ orig_node[p] = NULL => n.gwflags = 0
  BY NodeFacts
<1>3. p \in Ptrs /\ t \in 0..MaxTime /\ t <= now
  BY <1>2, NodeFacts DEF Inv, TypeOK, OrigNode
<1>4. PICK m \in OrigNode : m = [n EXCEPT !.last_valid = t]
  BY <1>3 DEF OrigNode
<1>5. m.gwflags = n.gwflags /\ m.last_valid = t /\ m # NULL
  BY <1>4, NodeAssumption DEF OrigNode
<1>6. orig_node' = [orig_node EXCEPT ![p] = m]
  BY <1>1, <1>2, <1>4
<1>7. UNCHANGED <<now, gw_node, gw_list, ended>> /\ ~ ended
  BY DEF DropOgm
<1>8. TypeOK'
  BY <1>6, <1>7 DEF Inv, TypeOK
<1>9. RingOk' /\ NothingLeft'
  BY <1>7 DEF Inv, RingOk, Allocated, NothingLeft
<1>10. \A q \in Ptrs : orig_node'[q] = IF q = p THEN m ELSE orig_node[q]
  BY <1>6 DEF Inv, TypeOK
<1>11. PastTimes'
  BY <1>3, <1>5, <1>7, <1>10 DEF Inv, PastTimes
<1>12. \A c \in Allocated : gw_node[c].orig_node \in Ptrs
  BY DEF Inv, TypeOK, Allocated, GwNode
<1>13. GatewaysListed'
  BY <1>2, <1>5, <1>7, <1>10, <1>12 DEF Inv, GatewaysListed, Allocated
<1> QED
  BY <1>8, <1>9, <1>11, <1>13 DEF Inv

\* An accepted message that does not change the class leaves the list alone.
LEMMA SameClass ==
    ASSUME Inv, NEW p \in Ptrs, NEW m \in OrigNode,
           orig_node' = [orig_node EXCEPT ![p] = m],
           orig_node[p] # NULL => m.gwflags = orig_node[p].gwflags,
           orig_node[p] = NULL => m.gwflags = 0,
           UNCHANGED gw_node
    PROVE  GatewaysListed'
<1>1. m # NULL
  BY NodeAssumption
<1>2. \A q \in Ptrs : orig_node'[q] = IF q = p THEN m ELSE orig_node[q]
  BY DEF Inv, TypeOK
<1>3. \A c \in Allocated : gw_node[c].orig_node \in Ptrs
  BY DEF Inv, TypeOK, Allocated, GwNode
<1> QED
  BY <1>1, <1>2, <1>3 DEF Inv, GatewaysListed, Allocated

LEMMA AcceptOgmKeeps ==
    ASSUME Inv, NEW o \in Origs, NEW flags \in Classes, AcceptOgm(o, flags)
    PROVE  Inv'
<1>1. PICK p \in Places(o) :
         /\ orig_node' = [orig_node EXCEPT
               ![p] = [get_orig_node(o, p) EXCEPT !.gwflags = flags, !.last_valid = now]]
         /\ IF get_orig_node(o, p).gwflags # flags THEN update_gw_list(p, flags)
            ELSE UNCHANGED <<gw_node, gw_list>>
  BY DEF AcceptOgm
<1>2. PICK n \in OrigNode :
         /\ n = get_orig_node(o, p)
         /\ orig_node[p] # NULL => n = orig_node[p]
         /\ orig_node[p] = NULL => n.gwflags = 0
  BY NodeFacts
<1>3. p \in Ptrs /\ now \in 0..MaxTime /\ now \in 1..MaxTime
  BY NodeFacts DEF Inv, TypeOK
<1>4. PICK m \in OrigNode : m = [n EXCEPT !.gwflags = flags, !.last_valid = now]
  BY <1>3 DEF OrigNode
<1>5. m.gwflags = flags /\ m.last_valid = now /\ m # NULL
  BY <1>4, NodeAssumption DEF OrigNode
<1>6. orig_node' = [orig_node EXCEPT ![p] = m]
  BY <1>1, <1>2, <1>4
<1>7. UNCHANGED <<now, ended>> /\ ~ ended
  BY DEF AcceptOgm
<1>8. orig_node' \in [Ptrs -> OrigNode \cup {NULL}] /\ \A q \in Ptrs : orig_node'[q] = IF q = p THEN m ELSE orig_node[q]
  BY <1>6 DEF Inv, TypeOK
<1>9. NothingLeft'
  BY <1>7 DEF NothingLeft
<1>10. \A c \in Allocated : gw_node[c] \in GwNode /\ gw_node[c].orig_node \in Ptrs /\ gw_node[c].deleted <= now
  BY DEF Inv, TypeOK, Allocated, GwNode, PastTimes
<1>11. CASE n.gwflags = flags
  <2>1. UNCHANGED <<gw_node, gw_list>>
    BY <1>1, <1>2, <1>11
  <2>2. TypeOK' /\ RingOk'
    BY <1>7, <1>8, <2>1 DEF Inv, TypeOK, RingOk, Allocated
  <2>3. PastTimes'
    BY <1>3, <1>5, <1>7, <1>8, <2>1 DEF Inv, PastTimes
  <2>4. GatewaysListed'
    BY <1>2, <1>3, <1>5, <1>6, <1>11, <2>1, SameClass
  <2> QED
    BY <1>9, <2>2, <2>3, <2>4 DEF Inv
<1>12. CASE n.gwflags # flags /\ EntryOf(p) # {}
  <2>1. PICK f \in Allocated : f = FirstEntryOf(p) /\ gw_node[f].orig_node = p
    BY <1>12, FirstEntry
  <2>2. PICK d \in 0..MaxTime : d = (IF flags = 0 THEN now ELSE 0) /\ d <= now
    <3>1. 0 \in 0..MaxTime /\ 0 <= now /\ now <= now
      BY <1>3, GatewayAssumption
    <3> QED
      BY <1>3, <3>1
  <2>3. gw_node' = [gw_node EXCEPT ![f].deleted = d] /\ UNCHANGED gw_list
    BY <1>1, <1>2, <1>12, <2>1, <2>2 DEF update_gw_list
  <2>4. f \in Cells
    BY DEF Allocated
  <2>5. PICK g \in GwNode : g = [gw_node[f] EXCEPT !.deleted = d]
    BY <1>10 DEF GwNode
  <2>6. g.orig_node = p /\ g.deleted = d /\ g # NULL
    BY <1>10, <2>1, <2>5, NodeAssumption DEF GwNode
  <2>7. /\ gw_node' \in [Cells -> GwNode \cup {NULL}]
        /\ \A c \in Cells : gw_node'[c] = IF c = f THEN g ELSE gw_node[c]
    BY <2>3, <2>4, <2>5 DEF Inv, TypeOK
  <2>8. Allocated' = Allocated
    BY <2>4, <2>6, <2>7 DEF Allocated
  <2>9. TypeOK' /\ RingOk'
    BY <1>7, <1>8, <2>3, <2>7, <2>8 DEF Inv, TypeOK, RingOk
  <2>10. PastTimes'
    BY <1>3, <1>5, <1>7, <1>8, <2>2, <2>6, <2>7 DEF Inv, PastTimes
  <2>11. \A c \in Allocated : c \in Cells /\ (gw_node[c].orig_node = p => c = f)
    BY <2>1 DEF Inv, GatewaysListed, Allocated
  <2>12. \A c \in Allocated : gw_node'[c].orig_node = gw_node[c].orig_node /\ (c # f => gw_node'[c] = gw_node[c])
    BY <2>1, <2>6, <2>7, <2>11
  <2>13. d = 0 <=> flags # 0
    BY <1>3, <2>2
  <2>14. \A c \in Allocated : gw_node'[c].deleted = 0 =>
            orig_node'[gw_node'[c].orig_node] # NULL /\ orig_node'[gw_node'[c].orig_node].gwflags # 0
    BY <1>3, <1>5, <1>8, <1>10, <2>6, <2>7, <2>11, <2>12, <2>13 DEF Inv, GatewaysListed
  <2>15. ASSUME NEW q \in Ptrs, orig_node'[q] # NULL, orig_node'[q].gwflags # 0
         PROVE  \E c \in Allocated : gw_node'[c].orig_node = q /\ gw_node'[c].deleted = 0
    <3>1. CASE q = p
      BY <1>5, <1>8, <2>4, <2>6, <2>7, <2>13, <2>15, <3>1
    <3>2. CASE q # p
      <4>1. PICK c \in Allocated : gw_node[c].orig_node = q /\ gw_node[c].deleted = 0
        BY <1>8, <2>15, <3>2 DEF Inv, GatewaysListed
      <4> QED
        BY <2>1, <2>12, <3>2, <4>1
    <3> QED
      BY <3>1, <3>2
  <2>16. \A c, e \in Allocated : gw_node'[c].orig_node = gw_node'[e].orig_node => c = e
    BY <2>12 DEF Inv, GatewaysListed
  <2>17. GatewaysListed'
    BY <2>8, <2>14, <2>15, <2>16 DEF GatewaysListed
  <2> QED
    BY <1>9, <2>9, <2>10, <2>17 DEF Inv
<1>13. CASE n.gwflags # flags /\ EntryOf(p) = {}
  <2>1. PICK f \in Cells : /\ gw_node[f] = NULL
                           /\ gw_node' = [gw_node EXCEPT ![f] = [orig_node |-> p, deleted |-> 0]]
                           /\ gw_list' = list_add_tail(gw_list, f)
    BY <1>1, <1>2, <1>13 DEF update_gw_list
  <2>2. PICK g \in GwNode : g = [orig_node |-> p, deleted |-> 0]
    <3>1. 0 \in 0..MaxTime
      BY GatewayAssumption
    <3>2. [orig_node |-> p, deleted |-> 0] \in GwNode
      BY <1>3, <3>1 DEF GwNode
    <3> QED
      BY <3>2
  <2>3. g.orig_node = p /\ g.deleted = 0 /\ g # NULL
    BY <2>2, NodeAssumption
  <2>4. /\ gw_node' \in [Cells -> GwNode \cup {NULL}]
        /\ \A c \in Cells : gw_node'[c] = IF c = f THEN g ELSE gw_node[c]
    BY <2>1, <2>2 DEF Inv, TypeOK
  <2>5. Allocated' = Allocated \cup {f} /\ f \notin Allocated
    BY <2>1, <2>3, <2>4 DEF Allocated
  <2>6. RingOk' /\ gw_list' \in Lists
    <3>1. PICK s : IsRing(s, gw_list) /\ \A c : (\E i \in 1..Len(s) : s[i] = c) <=> c \in Allocated
      BY DEF Inv, RingOk
    <3>2. \A i \in 1..Len(s) : s[i] # f
      BY <2>5, <3>1
    <3>3. PICK r : r = Append(s, f)
      OBVIOUS
    <3>4. IsRing(r, gw_list') /\ ToSet(r) = ToSet(s) \cup {f}
      BY <2>1, <3>1, <3>2, <3>3, AddTail
    <3>5. r \in Seq(Cells) /\ s \in Seq(Cells)
      BY <3>1, <3>4 DEF IsRing
    <3>6. \A c : (\E i \in 1..Len(r) : r[i] = c) <=> c \in ToSet(s) \cup {f}
      <4>1. \A c : c \in ToSet(r) <=> \E i \in 1..Len(r) : r[i] = c
        BY <3>5 DEF ToSet
      <4> QED
        BY <3>4, <4>1
    <3>7. \A c : c \in ToSet(s) <=> c \in Allocated
      BY <3>1, <3>5 DEF ToSet
    <3> QED
      BY <2>5, <3>4, <3>6, <3>7 DEF RingOk, IsRing
  <2>7. TypeOK'
    BY <1>7, <1>8, <2>4, <2>6 DEF Inv, TypeOK
  <2>8. PastTimes'
    BY <1>3, <1>5, <1>7, <1>8, <2>3, <2>4 DEF Inv, PastTimes
  <2>9. \A c \in Allocated : c \in Cells /\ gw_node[c].orig_node # p
    BY <1>13, ElementsAreAllocated DEF Inv, EntryOf, Allocated
  <2>10. flags # 0
    <3> SUFFICES ASSUME flags = 0 PROVE FALSE
      OBVIOUS
    <3>1. orig_node[p] # NULL /\ orig_node[p].gwflags # 0
      BY <1>2, <1>13
    <3> QED
      BY <1>3, <2>9, <3>1 DEF Inv, GatewaysListed
  <2>11. \A c \in Allocated : gw_node'[c] = gw_node[c]
    BY <2>4, <2>5, <2>9
  <2>12. gw_node'[f] = g
    BY <2>4
  <2>13. \A c \in Allocated' : gw_node'[c].deleted = 0 =>
            orig_node'[gw_node'[c].orig_node] # NULL /\ orig_node'[gw_node'[c].orig_node].gwflags # 0
    BY <1>3, <1>5, <1>8, <1>10, <2>3, <2>5, <2>9, <2>10, <2>11, <2>12 DEF Inv, GatewaysListed
  <2>14. ASSUME NEW q \in Ptrs, orig_node'[q] # NULL, orig_node'[q].gwflags # 0
         PROVE  \E c \in Allocated' : gw_node'[c].orig_node = q /\ gw_node'[c].deleted = 0
    <3>1. CASE q = p
      BY <2>3, <2>5, <2>12, <3>1
    <3>2. CASE q # p
      <4>1. PICK c \in Allocated : gw_node[c].orig_node = q /\ gw_node[c].deleted = 0
        BY <1>8, <2>14, <3>2 DEF Inv, GatewaysListed
      <4> QED
        BY <2>5, <2>11, <4>1
    <3> QED
      BY <3>1, <3>2
  <2>15. \A c, e \in Allocated' : gw_node'[c].orig_node = gw_node'[e].orig_node => c = e
    BY <2>3, <2>5, <2>9, <2>11, <2>12 DEF Inv, GatewaysListed
  <2>16. GatewaysListed'
    BY <2>13, <2>14, <2>15 DEF GatewaysListed
  <2> QED
    BY <1>9, <2>6, <2>7, <2>8, <2>16 DEF Inv
<1> QED
  BY <1>11, <1>12, <1>13

-----------------------------------------------------------------------------
(* purge_orig *)

\* Marking the entries of originators that are freed.
LEMMA MarkedFacts ==
    ASSUME Inv, NEW gone, NEW c \in Cells
    PROVE  /\ gw_node[c] = NULL => Marked(gone)[c] = NULL
           /\ gw_node[c] # NULL =>
                 /\ Marked(gone)[c] \in GwNode
                 /\ Marked(gone)[c].orig_node = gw_node[c].orig_node
                 /\ Marked(gone)[c].deleted <= now
                 /\ Marked(gone)[c].deleted = 0 <=>
                       gw_node[c].deleted = 0 /\ gw_node[c].orig_node \notin gone
<1>1. CASE gw_node[c] = NULL
  BY <1>1 DEF Marked
<1>2. CASE gw_node[c] # NULL
  <2>1. PICK g \in GwNode : g = gw_node[c] /\ g.deleted <= now
    BY <1>2 DEF Inv, TypeOK, PastTimes
  <2>2. now \in 0..MaxTime /\ now # 0 /\ now <= now
    BY DEF Inv, TypeOK
  <2>3. CASE g.deleted = 0 /\ g.orig_node \in gone
    <3>1. PICK h \in GwNode : h = [g EXCEPT !.deleted = now]
      BY <2>2 DEF GwNode
    <3>2. h.orig_node = g.orig_node /\ h.deleted = now
      BY <3>1 DEF GwNode
    <3>3. Marked(gone)[c] = h
      BY <1>2, <2>1, <2>3, <3>1 DEF Marked
    <3> QED
      BY <1>2, <2>1, <2>2, <2>3, <3>2, <3>3
  <2>4. CASE ~ (g.deleted = 0 /\ g.orig_node \in gone)
    <3>1. Marked(gone)[c] = g
      BY <1>2, <2>1, <2>4 DEF Marked
    <3> QED
      BY <1>2, <2>1, <2>4, <3>1
  <2> QED
    BY <2>3, <2>4
<1> QED
  BY <1>1, <1>2

\* The originators that are freed, and the entries before they are swept.
Gone(t) == {p \in Ptrs : orig_node[p] # NULL /\ orig_node[p].last_valid + PurgeTimeout < t}

LEMMA PurgeKeeps ==
    ASSUME Inv, NEW t \in Nat, purge_orig(t), UNCHANGED now, ended' \in BOOLEAN
    PROVE  /\ TypeOK' /\ RingOk' /\ GatewaysListed' /\ PastTimes'
           /\ \A p \in Ptrs : orig_node'[p] = IF p \in Gone(t) THEN NULL ELSE orig_node[p]
           /\ Allocated' = {c \in Allocated : ~ Expired(Marked(Gone(t)), c, t)}
<1>1. PICK gone, gw : gone = Gone(t) /\ gw = Marked(Gone(t))
  OBVIOUS
<1>2. /\ orig_node' = [p \in Ptrs |-> IF p \in gone THEN NULL ELSE orig_node[p]]
      /\ gw_list' = Swept(gw, t)
      /\ gw_node' = [c \in Cells |-> IF c \in ToSet(Elements(gw_list)) /\ Expired(gw, c, t)
                                     THEN NULL ELSE gw[c]]
  BY <1>1 DEF purge_orig, Gone
<1>3. gw_node' = [c \in Cells |-> IF c \in Allocated /\ Expired(gw, c, t) THEN NULL ELSE gw[c]]
  BY <1>2, ElementsAreAllocated DEF Inv
<1>4. /\ orig_node' \in [Ptrs -> OrigNode \cup {NULL}]
      /\ \A p \in Ptrs : orig_node'[p] = IF p \in gone THEN NULL ELSE orig_node[p]
  BY <1>2 DEF Inv, TypeOK
<1>5. \A c \in Cells \ Allocated : gw[c] = NULL
  BY <1>1, MarkedFacts DEF Allocated
<1>6. \A c \in Allocated :
         /\ c \in Cells /\ gw[c] \in GwNode /\ gw[c] # NULL
         /\ gw[c].orig_node = gw_node[c].orig_node /\ gw[c].deleted <= now
         /\ gw[c].deleted = 0 <=> gw_node[c].deleted = 0 /\ gw_node[c].orig_node \notin gone
  BY <1>1, MarkedFacts, NodeAssumption DEF Allocated
<1>7. \A c \in Cells : gw_node'[c] = IF c \in Allocated /\ Expired(gw, c, t) THEN NULL ELSE gw[c]
  BY <1>3
<1>8. gw_node' \in [Cells -> GwNode \cup {NULL}]
  BY <1>3, <1>5, <1>6
<1>9. Allocated' = {c \in Allocated : ~ Expired(gw, c, t)}
  <2>1. \A c \in Cells : gw_node'[c] # NULL <=> c \in Allocated /\ ~ Expired(gw, c, t)
    BY <1>5, <1>6, <1>7
  <2>2. Allocated \subseteq Cells
    BY DEF Allocated
  <2>3. Allocated' = {c \in Cells : gw_node'[c] # NULL}
    BY DEF Allocated
  <2> QED
    BY <2>1, <2>2, <2>3
<1>10. RingOk' /\ gw_list' \in Lists
  <2>1. PICK s : IsRing(s, gw_list) /\ \A c : (\E i \in 1..Len(s) : s[i] = c) <=> c \in Allocated
    BY DEF Inv, RingOk
  <2>2. PICK r : IsRing(r, Swept(gw, t)) /\ Stay(r, s, gw, t)
    BY <2>1, SweptIs
  <2>3. \A c : (\E i \in 1..Len(r) : r[i] = c) <=> c \in Allocated'
    BY <1>9, <2>1, <2>2 DEF Stay
  <2>4. IsRing(r, gw_list')
    BY <1>2, <2>2
  <2> QED
    BY <2>3, <2>4 DEF RingOk, IsRing
<1>11. TypeOK'
  BY <1>4, <1>8, <1>10 DEF Inv, TypeOK
<1>12. \A c \in Allocated' : c \in Allocated /\ gw_node'[c] = gw[c]
  BY <1>6, <1>7, <1>9
<1>13. PastTimes'
  <2>1. \A c \in Cells : gw_node'[c] # NULL => c \in Allocated'
    BY DEF Allocated
  <2> QED
    BY <1>4, <1>6, <1>12, <2>1 DEF Inv, PastTimes
<1>14. \A c \in Allocated : gw_node[c].orig_node \in Ptrs
  BY DEF Inv, TypeOK, Allocated, GwNode
<1>15. ASSUME NEW c \in Allocated', gw_node'[c].deleted = 0
       PROVE  orig_node'[gw_node'[c].orig_node] # NULL /\ orig_node'[gw_node'[c].orig_node].gwflags # 0
  <2>1. PICK q \in Ptrs : q = gw_node[c].orig_node /\ q = gw_node'[c].orig_node
    BY <1>6, <1>12, <1>14
  <2>2. gw_node[c].deleted = 0 /\ q \notin gone
    BY <1>6, <1>12, <1>15, <2>1
  <2>3. orig_node[q] # NULL /\ orig_node[q].gwflags # 0
    <3>1. PICK d \in Allocated : d = c
      BY <1>12
    <3>2. gw_node[d].deleted = 0 /\ q = gw_node[d].orig_node
      BY <2>1, <2>2, <3>1
    <3> QED
      BY <3>2 DEF Inv, GatewaysListed
  <2> QED
    BY <1>4, <2>1, <2>2, <2>3
<1>16. ASSUME NEW q \in Ptrs, orig_node'[q] # NULL, orig_node'[q].gwflags # 0
       PROVE  \E c \in Allocated' : gw_node'[c].orig_node = q /\ gw_node'[c].deleted = 0
  <2>1. q \notin gone /\ orig_node'[q] = orig_node[q]
    BY <1>4, <1>16
  <2>2. PICK c \in Allocated : gw_node[c].orig_node = q /\ gw_node[c].deleted = 0
    BY <1>16, <2>1 DEF Inv, GatewaysListed
  <2>3. gw[c].deleted = 0 /\ gw[c].orig_node = q
    BY <1>6, <2>1, <2>2
  <2>4. c \in Allocated'
    BY <1>9, <2>3 DEF Expired
  <2> QED
    BY <1>12, <2>3, <2>4
<1>17. \A c, d \in Allocated' : gw_node'[c].orig_node = gw_node'[d].orig_node => c = d
  BY <1>6, <1>12 DEF Inv, GatewaysListed
<1>18. GatewaysListed'
  BY <1>15, <1>16, <1>17 DEF GatewaysListed
<1> QED
  BY <1>1, <1>4, <1>9, <1>10, <1>11, <1>13, <1>18

\* The last purge frees everything: nothing was heard, and nothing deleted,
\* later than now, and the clock is turned further than any timeout.
LEMMA LastPurgeKeeps ==
    ASSUME Inv, LastPurge
    PROVE  Inv'
<1>1. PICK t \in Nat : t = now + 5 * PurgeTimeout + Interval
  BY GatewayAssumption DEF Inv, TypeOK
<1>2. purge_orig(t) /\ ended' = TRUE /\ UNCHANGED now
  BY <1>1 DEF LastPurge
<1>3. /\ TypeOK' /\ RingOk' /\ GatewaysListed' /\ PastTimes'
      /\ \A p \in Ptrs : orig_node'[p] = IF p \in Gone(t) THEN NULL ELSE orig_node[p]
      /\ Allocated' = {c \in Allocated : ~ Expired(Marked(Gone(t)), c, t)}
  BY <1>2, PurgeKeeps
<1>4. \A x \in Nat : x <= now => x + PurgeTimeout < t /\ x + 3 * PurgeTimeout < t
  BY <1>1, GatewayAssumption DEF Inv, TypeOK
<1>5. \A p \in Ptrs : orig_node[p] # NULL => p \in Gone(t)
  <2> SUFFICES ASSUME NEW p \in Ptrs, orig_node[p] # NULL
               PROVE  p \in Gone(t)
    OBVIOUS
  <2>1. orig_node[p].last_valid \in Nat /\ orig_node[p].last_valid <= now
    BY DEF Inv, TypeOK, OrigNode, PastTimes
  <2> QED
    BY <1>4, <2>1 DEF Gone
<1>6. \A c \in Allocated : Expired(Marked(Gone(t)), c, t)
  <2> SUFFICES ASSUME NEW c \in Allocated
               PROVE  Expired(Marked(Gone(t)), c, t)
    OBVIOUS
  <2>1. PICK g : g = Marked(Gone(t))[c]
    OBVIOUS
  <2>2. /\ c \in Cells /\ g \in GwNode /\ g.deleted <= now
        /\ g.deleted = 0 <=> gw_node[c].deleted = 0 /\ gw_node[c].orig_node \notin Gone(t)
    BY <2>1, MarkedFacts DEF Allocated
  <2>3. g.deleted # 0
    <3>1. gw_node[c].orig_node \in Ptrs
      BY DEF Inv, TypeOK, Allocated, GwNode
    <3> QED
      BY <1>5, <2>2, <3>1 DEF Inv, GatewaysListed
  <2>4. g.deleted \in Nat
    BY <2>2 DEF GwNode
  <2> QED
    BY <1>4, <2>1, <2>2, <2>3, <2>4 DEF Expired
<1>7. NothingLeft'
  BY <1>3, <1>5, <1>6 DEF NothingLeft
<1> QED
  BY <1>3, <1>7 DEF Inv

LEMMA PurgeStepKeeps ==
    ASSUME Inv, Purge
    PROVE  Inv'
<1>1. now \in Nat /\ ended = FALSE
  BY DEF Inv, TypeOK, Purge
<1>2. purge_orig(now) /\ UNCHANGED <<now, ended>>
  BY DEF Purge
<1>3. TypeOK' /\ RingOk' /\ GatewaysListed' /\ PastTimes'
  BY <1>1, <1>2, PurgeKeeps
<1> QED
  BY <1>1, <1>2, <1>3 DEF Inv, NothingLeft

\* The clock.
LEMMA TickKeeps ==
    ASSUME Inv, Tick
    PROVE  Inv'
<1>1. UNCHANGED <<orig_node, gw_node, gw_list, ended>> /\ now' = now + 1 /\ now' \in 1..MaxTime
  BY GatewayAssumption DEF Inv, TypeOK, Tick
<1>2. TypeOK' /\ RingOk' /\ GatewaysListed' /\ NothingLeft'
  BY <1>1 DEF Inv, TypeOK, RingOk, GatewaysListed, NothingLeft, Allocated
<1>3. PastTimes'
  <2>1. \A x \in Nat : x <= now => x <= now'
    BY <1>1 DEF Inv, TypeOK
  <2>2. \A p \in Ptrs : orig_node[p] # NULL => orig_node[p].last_valid \in Nat
    BY DEF Inv, TypeOK, OrigNode
  <2>3. \A c \in Cells : gw_node[c] # NULL => gw_node[c].deleted \in Nat
    BY DEF Inv, TypeOK, GwNode
  <2> QED
    BY <1>1, <2>1, <2>2, <2>3 DEF Inv, PastTimes
<1> QED
  BY <1>2, <1>3 DEF Inv

-----------------------------------------------------------------------------
(* Theorems *)

LEMMA Invariance == Spec => []Inv
<1>1. Inv /\ [Next]_vars => Inv'
  <2> SUFFICES ASSUME Inv, [Next]_vars PROVE Inv'
    OBVIOUS
  <2>1. CASE \E o \in Origs : DropOgm(o)
    BY <2>1, DropOgmKeeps
  <2>2. CASE \E o \in Origs : \E flags \in Classes : AcceptOgm(o, flags)
    BY <2>2, AcceptOgmKeeps
  <2>3. CASE Purge
    BY <2>3, PurgeStepKeeps
  <2>4. CASE LastPurge
    BY <2>4, LastPurgeKeeps
  <2>5. CASE Tick
    BY <2>5, TickKeeps
  <2>6. CASE UNCHANGED vars
    BY <2>6 DEF vars, Inv, TypeOK, RingOk, GatewaysListed, NothingLeft, PastTimes, Allocated
  <2> QED
    BY <2>1, <2>2, <2>3, <2>4, <2>5, <2>6 DEF Next
<1> QED
  BY <1>1, InitInv, PTL DEF Spec

\* gw_list holds every entry that is allocated, once, and no other, whichever
\* entries the loop of purge_orig frees on its way: list_del is always given
\* the predecessor of what it takes out.
THEOREM ListStaysWhole == Spec => []ListIsWhole
<1>1. Inv => ListIsWhole
  BY ElementsAreAllocated DEF Inv, ListIsWhole
<1> QED
  BY <1>1, Invariance, PTL

\* The unmarked entries of gw_list are the originators that announce a
\* gateway class, one for each, although marked entries keep pointing to
\* memory that purge_orig has freed and get_orig_node hands out again.
THEOREM ListTellsGateways == Spec => []GatewaysListed
<1>1. Inv => GatewaysListed
  BY DEF Inv
<1> QED
  BY <1>1, Invariance, PTL

\* When batman() has returned, no originator and no entry is left, whatever
\* PURGE_TIMEOUT and the originator interval are.
THEOREM LastPurgeFreesAll == Spec => []NothingLeft
<1>1. Inv => NothingLeft
  BY DEF Inv
<1> QED
  BY <1>1, Invariance, PTL
=============================================================================
