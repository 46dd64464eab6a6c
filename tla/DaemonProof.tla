---------------------------- MODULE DaemonProof ----------------------------
(***************************************************************************)
(* Proofs about the memory wrapper and the life of the daemon, for any     *)
(* number of chunks and faults: the list of the wrapper stays a list of    *)
(* allocated chunks, no chunk is freed twice, everything that was taken is *)
(* given back before the process exits, and its memory last.               *)
(***************************************************************************)
EXTENDS Daemon, FiniteSetTheorems, SequenceTheorems, WellFoundedInduction, TLAPS

-----------------------------------------------------------------------------
(* Lists of pointers *)

\* The i-th chunk of s; in front of the first one and behind the last one
\* there is none.
Nth(s, i) == IF i \in 1..Len(s) THEN s[i] ELSE NULL

Elements(s) == {s[i] : i \in 1..Len(s)}

\* Following the pointers nx from first on meets the chunks of s, each of
\* them once, and then NULL.
IsList(s, first, nx) ==
    /\ s \in Seq(Chunks)
    /\ \A i, j \in 1..Len(s) : s[i] = s[j] => i = j
    /\ first = Nth(s, 1)
    /\ \A i \in 1..Len(s) : nx[s[i]] = Nth(s, i + 1)

\* A list is no longer than there are chunks.
LEMMA ListIsShort ==
    ASSUME NEW s \in Seq(Chunks), \A i, j \in 1..Len(s) : s[i] = s[j] => i = j
    PROVE  /\ Len(s) \in Nat /\ Cardinality(Chunks) \in Nat
           /\ Len(s) <= Cardinality(Chunks)
<1>1. MaxChunks \in Nat /\ Len(s) \in Nat
  BY AllocateAssumption
<1>2. PICK one \in Int, n \in Int, m \in Int : one = 1 /\ n = Len(s) /\ m = MaxChunks /\ n >= 0 /\ m >= 0
  BY <1>1
<1>3. /\ IsFiniteSet(one..n) /\ Cardinality(one..n) = IF one > n THEN 0 ELSE n - one + 1
      /\ IsFiniteSet(one..m) /\ Cardinality(one..m) = IF one > m THEN 0 ELSE m - one + 1
  BY FS_Interval
<1>4. Cardinality(one..n) = n /\ Cardinality(one..m) = m
  BY <1>2, <1>3
<1>5. s \in [one..n -> one..m]
  BY <1>2 DEF Chunks
<1>6. CASE n > m
  <2>1. PICK x, y \in one..n : x # y /\ s[x] = s[y]
    BY <1>3, <1>4, <1>5, <1>6, FS_PigeonHole
  <2> QED
    BY <1>2, <2>1
<1> QED
  BY <1>2, <1>4, <1>6 DEF Chunks

\* Writing to a chunk that is not in the list leaves the list as it is.
LEMMA WriteElsewhere ==
    ASSUME NEW s, NEW first, NEW nx \in [Chunks -> Chunks \cup {NULL}], IsList(s, first, nx),
           NEW c \in Chunks \ Elements(s), NEW v
    PROVE  IsList(s, first, [nx EXCEPT ![c] = v])
<1>1. \A i \in 1..Len(s) : s[i] \in Chunks /\ s[i] # c
  BY DEF IsList, Elements
<1> QED
  BY <1>1 DEF IsList

\* A chunk that points to the first one becomes the first one.
LEMMA PushChunk ==
    ASSUME NEW s, NEW first, NEW nx, IsList(s, first, nx),
           NEW c \in Chunks \ Elements(s), nx[c] = first
    PROVE  /\ IsList(<<c>> \o s, c, nx)
           /\ Elements(<<c>> \o s) = Elements(s) \cup {c}
<1>1. s \in Seq(Chunks) /\ Len(s) \in Nat
  BY DEF IsList
<1>2. PICK r \in Seq(Chunks) : r = <<c>> \o s
  <2>1. <<c>> \in Seq(Chunks)
    OBVIOUS
  <2> QED
    BY <1>1, <2>1, ConcatProperties
<1>3. /\ Len(r) = Len(s) + 1 /\ r[1] = c
      /\ \A i \in 1..Len(s) : r[i + 1] = s[i]
  BY <1>1, <1>2
<1>4. \A i \in 1..Len(r) : i = 1 \/ (i - 1 \in 1..Len(s) /\ r[i] = s[i - 1])
  <2> TAKE i \in 1..Len(r)
  <2>1. i = 1 \/ i - 1 \in 1..Len(s)
    BY <1>1, <1>3
  <2>2. i - 1 \in 1..Len(s) => r[(i - 1) + 1] = s[i - 1]
    BY <1>3
  <2> QED
    BY <1>1, <1>3, <2>1, <2>2
<1>5. \A i \in 1..Len(s) : s[i] # c
  BY DEF Elements
<1>6. \A i, j \in 1..Len(r) : r[i] = r[j] => i = j
  <2> TAKE i, j \in 1..Len(r)
  <2>1. \A k, l \in 1..Len(s) : s[k] = s[l] => k = l
    BY DEF IsList
  <2>2. i \in Nat /\ j \in Nat
    BY <1>1, <1>3
  <2>3. CASE i = 1 \/ j = 1
    BY <1>3, <1>4, <1>5, <2>3
  <2>4. CASE i # 1 /\ j # 1
    <3>1. i - 1 \in 1..Len(s) /\ r[i] = s[i - 1] /\ j - 1 \in 1..Len(s) /\ r[j] = s[j - 1]
      BY <1>4, <2>4
    <3>2. i - 1 = j - 1 => i = j
      BY <2>2
    <3> QED
      BY <2>1, <3>1, <3>2
  <2> QED
    BY <2>3, <2>4
<1>7. c = Nth(r, 1)
  BY <1>1, <1>3 DEF Nth
<1>8. \A i \in 1..Len(r) : nx[r[i]] = Nth(r, i + 1)
  <2> TAKE i \in 1..Len(r)
  <2>1. \A k \in 0..Len(s) : Nth(r, k + 2) = Nth(s, k + 1)
    <3> TAKE k \in 0..Len(s)
    <3>1. CASE k + 1 \in 1..Len(s)
      <4>1. k + 2 \in 1..Len(r) /\ r[(k + 1) + 1] = s[k + 1] /\ (k + 1) + 1 = k + 2
        BY <1>1, <1>3, <3>1
      <4> QED
        BY <3>1, <4>1 DEF Nth
    <3>2. CASE k + 1 \notin 1..Len(s)
      BY <1>1, <1>3, <3>2 DEF Nth
    <3> QED
      BY <3>1, <3>2
  <2>2. CASE i = 1
    <3>1. nx[r[i]] = Nth(s, 1)
      BY <1>3, <2>2 DEF IsList
    <3>2. Nth(r, 0 + 2) = Nth(s, 0 + 1)
      BY <1>1, <2>1
    <3> QED
      BY <2>2, <3>1, <3>2
  <2>3. CASE i - 1 \in 1..Len(s) /\ r[i] = s[i - 1]
    <3>1. nx[s[i - 1]] = Nth(s, (i - 1) + 1)
      BY <2>3 DEF IsList
    <3>2. Nth(r, (i - 1) + 2) = Nth(s, (i - 1) + 1)
      BY <1>1, <2>1, <2>3
    <3>3. (i - 1) + 2 = i + 1
      BY <1>1, <1>3
    <3> QED
      BY <2>3, <3>1, <3>2, <3>3
  <2> QED
    BY <1>4, <2>2, <2>3
<1>9. Elements(r) = Elements(s) \cup {c}
  <2>1. ASSUME NEW x \in Elements(r) PROVE x \in Elements(s) \cup {c}
    BY <1>3, <1>4, <2>1 DEF Elements
  <2>2. ASSUME NEW x \in Elements(s) PROVE x \in Elements(r)
    <3>1. PICK i \in 1..Len(s) : x = s[i]
      BY <2>2 DEF Elements
    <3>2. i + 1 \in 1..Len(r) /\ r[i + 1] = x
      BY <1>1, <1>3, <3>1
    <3> QED
      BY <3>2 DEF Elements
  <2>3. c \in Elements(r)
    BY <1>1, <1>3 DEF Elements
  <2> QED
    BY <2>1, <2>2, <2>3
<1> QED
  BY <1>2, <1>6, <1>7, <1>8, <1>9 DEF IsList

\* The pointers after the chunk behind the i-th one was taken out.
Bypass(s, i, first, nx, first2, nx2) ==
    IF i = 0 THEN first2 = nx[s[1]] /\ nx2 = nx
    ELSE first2 = first /\ nx2 = [nx EXCEPT ![s[i]] = nx[s[i + 1]]]

\* Then they are the pointers of the list without that chunk.
LEMMA TakeOut ==
    ASSUME NEW s, NEW first, NEW nx \in [Chunks -> Chunks \cup {NULL}], IsList(s, first, nx),
           NEW i \in Nat, i < Len(s),
           NEW first2, NEW nx2, Bypass(s, i, first, nx, first2, nx2)
    PROVE  \E r : /\ IsList(r, first2, nx2)
                  /\ Elements(r) = Elements(s) \ {s[i + 1]}
<1> DEFINE n == Len(s)
           r == [j \in 1..(n - 1) |-> IF j <= i THEN s[j] ELSE s[j + 1]]
<1>1. s \in Seq(Chunks) /\ n \in Nat /\ \A j \in 1..n : s[j] \in Chunks
  BY DEF IsList
<1>2. r \in Seq(Chunks) /\ Len(r) = n - 1
  <2>1. n - 1 \in Nat /\ \A j \in 1..(n - 1) : j \in 1..n /\ j + 1 \in 1..n
    BY <1>1
  <2>2. r \in [1..(n - 1) -> Chunks]
    BY <1>1, <2>1
  <2> HIDE DEF r
  <2>3. PICK m \in Nat : m = n - 1
    BY <2>1
  <2>4. r \in [1..m -> Chunks]
    BY <2>2, <2>3
  <2> QED
    BY <2>3, <2>4
<1>3. \A j \in 1..(n - 1) : r[j] = IF j <= i THEN s[j] ELSE s[j + 1]
  OBVIOUS
<1> HIDE DEF r
<1>4. \A j, k \in 1..n : s[j] = s[k] => j = k
  BY DEF IsList
<1>5. \A j \in 1..n : nx[s[j]] = Nth(s, j + 1)
  BY DEF IsList
<1>6. \A j \in 0..i : Nth(r, j) = Nth(s, j)
  <2> TAKE j \in 0..i
  <2>1. CASE j = 0
    BY <2>1 DEF Nth
  <2>2. CASE j # 0
    <3>1. j \in 1..(n - 1) /\ j \in 1..n /\ j <= i
      BY <1>1, <2>2
    <3> QED
      BY <1>2, <1>3, <3>1 DEF Nth
  <2> QED
    BY <2>1, <2>2
<1>7. \A j \in (i + 1)..n : Nth(r, j) = Nth(s, j + 1)
  <2> TAKE j \in (i + 1)..n
  <2>1. CASE j = n
    <3>1. j \notin 1..(n - 1) /\ j + 1 \notin 1..n
      BY <1>1, <2>1
    <3> QED
      BY <1>2, <3>1 DEF Nth
  <2>2. CASE j # n
    <3>1. j \in 1..(n - 1) /\ j + 1 \in 1..n /\ ~ (j <= i)
      BY <1>1, <2>2
    <3> QED
      BY <1>2, <1>3, <3>1 DEF Nth
  <2> QED
    BY <2>1, <2>2
<1>8. \A j, k \in 1..(n - 1) : r[j] = r[k] => j = k
  <2> TAKE j, k \in 1..(n - 1)
  <2>1. /\ j \in 1..n /\ j + 1 \in 1..n /\ k \in 1..n /\ k + 1 \in 1..n
        /\ j \in Nat /\ k \in Nat /\ j + 1 = k + 1 => j = k
    BY <1>1
  <2>2. CASE j <= i /\ k <= i
    BY <1>3, <1>4, <2>1, <2>2
  <2>3. CASE ~ (j <= i) /\ ~ (k <= i)
    BY <1>3, <1>4, <2>1, <2>3
  <2>4. CASE j <= i /\ ~ (k <= i)
    <3>1. j # k + 1
      BY <2>1, <2>4
    <3> QED
      BY <1>3, <1>4, <2>1, <2>4, <3>1
  <2>5. CASE ~ (j <= i) /\ k <= i
    <3>1. j + 1 # k
      BY <2>1, <2>5
    <3> QED
      BY <1>3, <1>4, <2>1, <2>5, <3>1
  <2> QED
    BY <2>2, <2>3, <2>4, <2>5
<1>9. i + 1 \in 1..n /\ nx[s[i + 1]] = Nth(s, i + 2)
  <2>1. i + 1 \in 1..n /\ (i + 1) + 1 = i + 2
    BY <1>1
  <2> QED
    BY <1>5, <2>1
<1> USE DEF Bypass
<1>10. first2 = Nth(r, 1)
  <2>1. CASE i = 0
    <3>1. 1 \in (i + 1)..n /\ i + 2 = 1 + 1 /\ i + 1 = 1
      BY <1>1, <2>1
    <3> QED
      BY <1>7, <1>9, <2>1, <3>1
  <2>2. CASE i # 0
    <3>1. 1 \in 0..i
      BY <2>2
    <3>2. first = Nth(s, 1)
      BY DEF IsList
    <3> QED
      BY <1>6, <2>2, <3>1, <3>2
  <2> QED
    BY <2>1, <2>2
<1>11. ASSUME NEW j \in 1..n, j # i + 1
       PROVE  nx2[s[j]] = IF j = i THEN Nth(s, i + 2) ELSE Nth(s, j + 1)
  <2>1. CASE i = 0
    BY <1>1, <1>5, <2>1
  <2>2. CASE i # 0
    <3>1. i \in 1..n /\ s[i] \in Chunks /\ nx2 = [nx EXCEPT ![s[i]] = nx[s[i + 1]]]
      BY <1>1, <2>2
    <3>2. j # i => s[j] # s[i]
      BY <1>4, <3>1
    <3> QED
      BY <1>1, <1>5, <1>9, <3>1, <3>2
  <2> QED
    BY <2>1, <2>2
<1>12. \A j \in 1..(n - 1) : nx2[r[j]] = Nth(r, j + 1)
  <2> TAKE j \in 1..(n - 1)
  <2>1. CASE j < i
    <3>1. j \in 1..n /\ j # i + 1 /\ j # i /\ j <= i /\ j + 1 \in 0..i
      BY <1>1, <2>1
    <3> QED
      BY <1>3, <1>6, <1>11, <3>1
  <2>2. CASE j = i
    <3>1. j \in 1..n /\ j # i + 1 /\ j <= i /\ j + 1 \in (i + 1)..n /\ (j + 1) + 1 = i + 2
      BY <1>1, <2>2
    <3> QED
      BY <1>3, <1>7, <1>11, <2>2, <3>1
  <2>3. CASE j > i
    <3>1. j + 1 \in 1..n /\ j + 1 # i + 1 /\ j + 1 # i /\ ~ (j <= i) /\ j + 1 \in (i + 1)..n
      BY <1>1, <2>3
    <3> QED
      BY <1>3, <1>7, <1>11, <3>1
  <2> QED
    BY <1>1, <2>1, <2>2, <2>3
<1>13. Elements(r) = Elements(s) \ {s[i + 1]}
  <2>1. ASSUME NEW x \in Elements(r) PROVE x \in Elements(s) \ {s[i + 1]}
    <3>1. PICK j \in 1..(n - 1) : x = r[j]
      BY <1>2, <2>1 DEF Elements
    <3>2. j \in 1..n /\ j + 1 \in 1..n /\ (j <= i => j # i + 1) /\ (~ (j <= i) => j + 1 # i + 1)
      BY <1>1, <3>1
    <3> QED
      BY <1>3, <1>4, <1>9, <3>1, <3>2 DEF Elements
  <2>2. ASSUME NEW x \in Elements(s), x # s[i + 1] PROVE x \in Elements(r)
    <3>1. PICK j \in 1..n : x = s[j]
      BY <2>2 DEF Elements
    <3>2. j # i + 1
      BY <2>2, <3>1
    <3>3. CASE j <= i
      <4>1. j \in 1..(n - 1)
        BY <1>1, <3>3
      <4> QED
        BY <1>2, <1>3, <3>1, <3>3, <4>1 DEF Elements
    <3>4. CASE j > i
      <4>1. j - 1 \in 1..(n - 1) /\ ~ (j - 1 <= i) /\ (j - 1) + 1 = j
        BY <1>1, <3>2, <3>4
      <4>2. r[j - 1] = x
        BY <1>3, <3>1, <4>1
      <4> QED
        BY <1>2, <4>1, <4>2 DEF Elements
    <3> QED
      BY <1>1, <3>3, <3>4
  <2> QED
    BY <2>1, <2>2
<1>14. IsList(r, first2, nx2)
  BY <1>2, <1>8, <1>10, <1>12 DEF IsList
<1> QED
  BY <1>13, <1>14

\* Following next from chunkList on yields the chunks of such a list.
LEMMA ListedAre ==
    ASSUME NEW s, IsList(s, chunkList, next)
    PROVE  ListAt[Cardinality(Chunks)] = NULL /\ Listed = Elements(s)
<1> DEFINE N == Cardinality(Chunks)
           step(f) == [n \in 0..N |->
                         IF n = 0 THEN chunkList
                         ELSE IF f[n - 1] = NULL THEN NULL ELSE next[f[n - 1]]]
           g == [n \in 0..N |-> Nth(s, n + 1)]
<1>1. s \in Seq(Chunks) /\ Len(s) \in Nat /\ N \in Nat /\ Len(s) <= N
  BY ListIsShort DEF IsList
<1>2. \A i \in 1..Len(s) : s[i] \in Chunks /\ s[i] # NULL /\ next[s[i]] = Nth(s, i + 1)
  BY <1>1, AllocateAssumption DEF IsList
<1> HIDE DEF N
<1>3. ASSUME NEW n \in 0..N, n # 0
      PROVE  Nth(s, n + 1) = IF Nth(s, n) = NULL THEN NULL ELSE next[Nth(s, n)]
  <2>1. CASE n \in 1..Len(s)
    BY <1>2, <2>1 DEF Nth
  <2>2. CASE n \notin 1..Len(s)
    <3>1. n + 1 \notin 1..Len(s)
      BY <1>1, <1>3, <2>2
    <3> QED
      BY <2>2, <3>1 DEF Nth
  <2> QED
    BY <2>1, <2>2
<1>4. \A n \in 0..N : n # 0 => n - 1 \in 0..N /\ (n - 1) + 1 = n
  BY <1>1
<1>5. g = step(g)
  <2>1. ASSUME NEW n \in 0..N PROVE g[n] = step(g)[n]
    <3>1. CASE n = 0
      BY <3>1 DEF IsList
    <3>2. CASE n # 0
      <4>1. g[n - 1] = Nth(s, n)
        BY <1>4, <3>2
      <4>2. g[n] = Nth(s, n + 1) /\ step(g)[n] = IF g[n - 1] = NULL THEN NULL ELSE next[g[n - 1]]
        BY <3>2
      <4> QED
        BY <1>3, <3>2, <4>1, <4>2
    <3> QED
      BY <3>1, <3>2
  <2> QED
    BY <2>1
<1>6. ListAt = step(ListAt)
  <2>1. ListAt = CHOOSE f : f = step(f)
    BY DEF ListAt, N
  <2> HIDE DEF g, step
  <2> QED
    BY <1>5, <2>1
<1>7. ListAt = g
  <2>1. \A n \in 0..N : ListAt[n] = IF n = 0 THEN chunkList
                        ELSE IF ListAt[n - 1] = NULL THEN NULL ELSE next[ListAt[n - 1]]
    BY <1>6
  <2>2. ASSUME NEW wrong \in SUBSET Nat, wrong # {},
               wrong = {n \in 0..N : ListAt[n] # g[n]}
        PROVE  FALSE
    <3>1. PICK R : IsWellFoundedOn(R, Nat) /\ \A x, y \in Nat : y < x => <<y, x>> \in R
      <4>1. \A x, y \in Nat : y < x => <<y, x>> \in OpToRel(<, Nat)
        BY DEF OpToRel
      <4> QED
        BY <4>1, NatLessThanWellFounded
    <3>2. PICK b \in wrong : \A r \in wrong : ~ (<<r, b>> \in R)
      BY <2>2, <3>1, WFMin
    <3>3. b \in 0..N /\ ListAt[b] # g[b] /\ b \in Nat
      BY <2>2
    <3>4. CASE b = 0
      BY <2>1, <3>3, <3>4 DEF IsList
    <3>5. CASE b # 0
      <4>1. b - 1 \in 0..N /\ b - 1 \in Nat /\ b - 1 < b /\ (b - 1) + 1 = b
        BY <1>1, <3>3, <3>5
      <4>2. ListAt[b - 1] = g[b - 1]
        BY <2>2, <3>1, <3>2, <3>3, <4>1
      <4>3. g[b - 1] = Nth(s, b) /\ g[b] = Nth(s, b + 1)
        BY <3>3, <4>1
      <4> HIDE DEF g
      <4>4. ListAt[b] = IF ListAt[b - 1] = NULL THEN NULL ELSE next[ListAt[b - 1]]
        BY <2>1, <3>3, <3>5
      <4> QED
        BY <1>3, <3>3, <3>5, <4>2, <4>3, <4>4
    <3> QED
      BY <3>4, <3>5
  <2>3. {n \in 0..N : ListAt[n] # g[n]} \in SUBSET Nat
    BY <1>1
  <2>4. \A n \in 0..N : ListAt[n] = g[n]
    BY <2>2, <2>3
  <2>5. ListAt = [n \in 0..N |-> ListAt[n]]
    BY <1>6
  <2> QED
    BY <2>4, <2>5
<1>8. \A n \in 0..N : ListAt[n] = Nth(s, n + 1)
  BY <1>7
<1>9. DOMAIN ListAt = 0..N
  BY <1>7
<1>10. ListAt[N] = NULL
  <2>1. N \in 0..N /\ N + 1 \notin 1..Len(s)
    BY <1>1
  <2> QED
    BY <1>8, <2>1 DEF Nth
<1>11. Listed = Elements(s)
  <2>1. ASSUME NEW c \in Listed PROVE c \in Elements(s)
    <3>1. PICK n \in 0..N : c = Nth(s, n + 1) /\ c # NULL
      BY <1>8, <1>9 DEF Listed
    <3> QED
      BY <3>1 DEF Nth, Elements
  <2>2. ASSUME NEW c \in Elements(s) PROVE c \in Listed
    <3>1. PICK i \in 1..Len(s) : c = s[i]
      BY <2>2 DEF Elements
    <3>2. i - 1 \in 0..N /\ (i - 1) + 1 = i
      BY <1>1
    <3>3. ListAt[i - 1] = c /\ c # NULL
      BY <1>2, <1>8, <3>1, <3>2 DEF Nth
    <3> QED
      BY <1>9, <3>2, <3>3 DEF Listed
  <2> QED
    BY <2>1, <2>2
<1> QED
  BY <1>10, <1>11 DEF N

-----------------------------------------------------------------------------
(* The list of the wrapper *)

\* A thread has an allocated chunk that is not in the list.
InHand(t) == pc[t] \in {"add", "link", "free"}

HeapTyped ==
    /\ allocated \subseteq Chunks
    /\ chunkList \in Chunks \cup {NULL}
    /\ next \in [Chunks -> Chunks \cup {NULL}]
    /\ damaged \subseteq Chunks \X {"header", "trailer"}
    /\ chunk_mutex \in Threads \cup {Nobody}
    /\ pc \in [Threads -> {"idle", "add", "link", "lock", "walk", "free", "check", "report"}]
    /\ chunk \in [Threads -> Chunks \cup {NULL}]
    /\ old \in [Threads -> Chunks \cup {NULL}]
    /\ walker \in [Threads -> Chunks \cup {NULL}]
    /\ previous \in [Threads -> Chunks \cup {NULL}]

\* Who changes the list or walks over it holds its mutex.
Locked == \A t \in Threads : pc[t] \in {"link", "walk", "check"} => chunk_mutex = t

\* Who frees has a chunk to free.
HasChunk == \A t \in Threads : pc[t] \in {"lock", "walk"} => chunk[t] \in Chunks

\* A thread that walks over the list s is between two neighbours in it, and
\* has not met the chunk it looks for.
WalkAt(s, t) ==
    \E i \in 0..Len(s) : /\ previous[t] = Nth(s, i) /\ walker[t] = Nth(s, i + 1)
                         /\ \A j \in 1..i : s[j] # chunk[t]

\* The chunks in hand are allocated, not in the list, and different.
HandsOk(s) ==
    \A t \in Threads :
        InHand(t) => /\ chunk[t] \in allocated \ Elements(s)
                     /\ \A u \in Threads \ {t} : InHand(u) => chunk[u] # chunk[t]

\* An allocated chunk that is not in the list is in a thread's hands, or was
\* given up because it is damaged.
NoneLost(s) ==
    \A c \in allocated \ Elements(s) :
        (\E t \in Threads : InHand(t) /\ chunk[t] = c) \/ <<c, "trailer">> \in damaged

Heap(s) ==
    /\ IsList(s, chunkList, next)
    /\ Elements(s) \subseteq allocated
    /\ HandsOk(s)
    /\ \A t \in Threads : pc[t] = "link" => next[chunk[t]] = chunkList
    /\ \A t \in Threads : pc[t] = "walk" => WalkAt(s, t)
    /\ NoneLost(s)

HeapOk == HeapTyped /\ Locked /\ HasChunk /\ \E s : Heap(s)

\* A step of thread t that leaves the list and what is allocated alone and
\* neither begins nor ends with a chunk in hand.
LEMMA MoveKeeps ==
    ASSUME HeapOk, HeapTyped', NEW t \in Threads,
           UNCHANGED <<allocated, damaged, chunkList, next>>,
           ~ InHand(t), ~ InHand(t)',
           \A u \in Threads \ {t} : /\ pc'[u] = pc[u] /\ chunk'[u] = chunk[u]
                                    /\ walker'[u] = walker[u] /\ previous'[u] = previous[u],
           \/ chunk_mutex' = chunk_mutex
           \/ chunk_mutex = Nobody /\ chunk_mutex' = t
           \/ chunk_mutex = t /\ chunk_mutex' = Nobody,
           pc'[t] \in {"link", "walk", "check"} => chunk_mutex' = t,
           pc'[t] \in {"lock", "walk"} => chunk'[t] \in Chunks,
           pc'[t] = "walk" => \A s : Heap(s) => WalkAt(s, t)'
    PROVE  HeapOk'
<1>1. PICK s : Heap(s)
  BY DEF HeapOk
<1>2. Locked'
  BY AllocateAssumption DEF HeapOk, Locked
<1>3. HasChunk'
  BY DEF HeapOk, HasChunk
<1>4. \A u \in Threads : InHand(u)' => InHand(u) /\ chunk'[u] = chunk[u] /\ pc'[u] = pc[u]
  BY DEF InHand
<1>5. \A u \in Threads : InHand(u) => InHand(u)' /\ chunk'[u] = chunk[u]
  BY DEF InHand
<1>6. HandsOk(s)'
  BY <1>1, <1>4 DEF Heap, HandsOk
<1>7. NoneLost(s)'
  BY <1>1, <1>5 DEF Heap, NoneLost
<1>8. ASSUME NEW u \in Threads, pc'[u] = "link" PROVE next'[chunk'[u]] = chunkList'
  <2>1. pc[u] = "link" /\ chunk'[u] = chunk[u]
    BY <1>4, <1>8 DEF InHand
  <2> QED
    BY <1>1, <2>1 DEF Heap
<1>9. ASSUME NEW u \in Threads, pc'[u] = "walk" PROVE WalkAt(s, u)'
  <2>1. CASE u = t
    BY <1>1, <1>9, <2>1
  <2>2. CASE u # t
    <3>1. WalkAt(s, u)
      BY <1>1, <1>9, <2>2 DEF Heap
    <3> QED
      BY <2>2, <3>1 DEF WalkAt
  <2> QED
    BY <2>1, <2>2
<1>10. IsList(s, chunkList, next)' /\ (Elements(s) \subseteq allocated)'
  BY <1>1 DEF Heap
<1>11. Heap(s)'
  BY <1>6, <1>7, <1>8, <1>9, <1>10 DEF Heap
<1> QED
  BY <1>2, <1>3, <1>11 DEF HeapOk

LEMMA NewChunkKeeps ==
    ASSUME HeapOk, NEW t \in Threads, pc[t] = "idle", NewChunk(t),
           old' \in [Threads -> Chunks \cup {NULL}],
           UNCHANGED <<chunkList, next, chunk_mutex, walker, previous>>
    PROVE  HeapOk'
<1>1. PICK s : Heap(s)
  BY DEF HeapOk
<1>2. PICK c \in Chunks \ allocated :
        /\ allocated' = allocated \cup {c}
        /\ damaged' = {d \in damaged : d[1] # c}
        /\ chunk' = [chunk EXCEPT ![t] = c]
  BY DEF NewChunk
<1>3. pc' = [pc EXCEPT ![t] = "add"]
  BY DEF NewChunk, Goto
<1>4. HeapTyped'
  BY <1>2, <1>3 DEF HeapOk, HeapTyped
<1>5. /\ pc'[t] = "add" /\ chunk'[t] = c
      /\ \A u \in Threads \ {t} : pc'[u] = pc[u] /\ chunk'[u] = chunk[u]
  BY <1>2, <1>3 DEF HeapOk, HeapTyped
<1>6. Locked' /\ HasChunk'
  BY <1>5 DEF HeapOk, Locked, HasChunk
<1>7. HandsOk(s)'
  <2>1. c \notin Elements(s)
    BY <1>1, <1>2 DEF Heap
  <2>2. \A u \in Threads \ {t} : InHand(u)' => InHand(u) /\ chunk[u] \in allocated /\ chunk[u] # c
    BY <1>1, <1>2, <1>5 DEF InHand, Heap, HandsOk
  <2>3. HandsOk(s)
    BY <1>1 DEF Heap
  <2> QED
    BY <1>2, <1>5, <2>1, <2>2, <2>3 DEF HandsOk
<1>8. NoneLost(s)'
  <2>1. \A u \in Threads : InHand(u) => u # t /\ InHand(u)' /\ chunk'[u] = chunk[u]
    BY <1>5 DEF InHand
  <2>2. \A d \in allocated : <<d, "trailer">> \in damaged => <<d, "trailer">> \in damaged'
    BY <1>2
  <2>3. InHand(t)'
    BY <1>5 DEF InHand
  <2>4. NoneLost(s)
    BY <1>1 DEF Heap
  <2> QED
    BY <1>2, <1>5, <2>1, <2>2, <2>3, <2>4 DEF NoneLost
<1>9. ASSUME NEW u \in Threads, pc'[u] = "link" PROVE next'[chunk'[u]] = chunkList'
  BY <1>1, <1>5, <1>9 DEF Heap
<1>10. ASSUME NEW u \in Threads, pc'[u] = "walk" PROVE WalkAt(s, u)'
  <2>1. WalkAt(s, u) /\ chunk'[u] = chunk[u]
    BY <1>1, <1>5, <1>10 DEF Heap
  <2> QED
    BY <2>1 DEF WalkAt
<1>11. IsList(s, chunkList, next)' /\ (Elements(s) \subseteq allocated)'
  BY <1>1, <1>2 DEF Heap
<1>12. Heap(s)'
  BY <1>7, <1>8, <1>9, <1>10, <1>11 DEF Heap
<1> QED
  BY <1>4, <1>6, <1>12 DEF HeapOk

LEMMA LockToAddKeeps ==
    ASSUME HeapOk, NEW t \in Threads, LockToAdd(t)
    PROVE  HeapOk'
<1>1. PICK s : Heap(s)
  BY DEF HeapOk
<1>2. PICK c \in allocated \ Elements(s) : c = chunk[t] /\ c \in Chunks
  BY <1>1 DEF LockToAdd, Heap, HandsOk, InHand, HeapOk, HeapTyped
<1>3. /\ pc[t] = "add" /\ chunk_mutex = Nobody /\ chunk_mutex' = t
      /\ next' = [next EXCEPT ![c] = chunkList] /\ pc' = [pc EXCEPT ![t] = "link"]
      /\ UNCHANGED <<allocated, damaged, chunkList, chunk, old, walker, previous>>
  BY <1>2 DEF LockToAdd, Goto, memory, position
<1>4. HeapTyped'
  BY <1>2, <1>3 DEF HeapOk, HeapTyped
<1>5. /\ pc'[t] = "link" /\ next'[c] = chunkList
      /\ \A u \in Threads \ {t} : pc'[u] = pc[u] /\ pc[u] \notin {"link", "walk", "check"}
  BY <1>2, <1>3, AllocateAssumption DEF HeapOk, HeapTyped, Locked
<1>6. Locked' /\ HasChunk'
  BY <1>3, <1>5 DEF HeapOk, Locked, HasChunk
<1>7. \A u \in Threads : InHand(u)' <=> InHand(u)
  BY <1>3, <1>5 DEF InHand
<1>8. HandsOk(s)' /\ NoneLost(s)'
  BY <1>1, <1>3, <1>7 DEF Heap, HandsOk, NoneLost
<1>9. \A u \in Threads : pc'[u] = "link" => next'[chunk'[u]] = chunkList'
  BY <1>2, <1>3, <1>5
<1>10. \A u \in Threads : pc'[u] # "walk"
  BY <1>5
<1>11. IsList(s, chunkList, next)' /\ (Elements(s) \subseteq allocated)'
  <2>1. IsList(s, chunkList, [next EXCEPT ![c] = chunkList])
    BY <1>1, <1>2, WriteElsewhere DEF Heap, HeapOk, HeapTyped
  <2> QED
    BY <1>1, <1>3, <2>1 DEF Heap
<1>12. Heap(s)'
  BY <1>8, <1>9, <1>10, <1>11 DEF Heap
<1> QED
  BY <1>4, <1>6, <1>12 DEF HeapOk

LEMMA LinkKeeps ==
    ASSUME HeapOk, NEW t \in Threads, Link(t)
    PROVE  HeapOk'
<1>1. PICK s : Heap(s)
  BY DEF HeapOk
<1>2. PICK c \in allocated \ Elements(s) : c = chunk[t] /\ c \in Chunks
  BY <1>1 DEF Link, Heap, HandsOk, InHand, HeapOk, HeapTyped
<1>3. /\ pc[t] = "link" /\ chunk_mutex = t /\ chunk_mutex' = Nobody /\ chunkList' = c
      /\ UNCHANGED <<allocated, damaged, next>>
  BY <1>2 DEF Link, HeapOk, Locked
<1>4. PICK label \in {"idle", "lock", "report"} :
        /\ pc' = [pc EXCEPT ![t] = label]
        /\ label = "lock" => chunk'[t] \in Chunks
  BY DEF Link, Done, CallFree, Goto, HeapOk, HeapTyped
<1>5. /\ \E x \in Chunks \cup {NULL} : chunk' = [chunk EXCEPT ![t] = x]
      /\ old' = old \/ old' = [old EXCEPT ![t] = NULL]
      /\ walker' = walker \/ walker' = [walker EXCEPT ![t] = NULL]
      /\ previous' = previous \/ previous' = [previous EXCEPT ![t] = NULL]
  BY DEF Link, Done, CallFree, HeapOk, HeapTyped
<1>6. HeapTyped'
  BY <1>2, <1>3, <1>4, <1>5 DEF HeapOk, HeapTyped
<1>7. /\ pc'[t] = label
      /\ \A u \in Threads \ {t} : /\ pc'[u] = pc[u] /\ pc[u] \notin {"link", "walk", "check"}
                                  /\ chunk'[u] = chunk[u]
  BY <1>3, <1>4, <1>5 DEF HeapOk, HeapTyped, Locked
<1>8. Locked' /\ HasChunk'
  BY <1>4, <1>7 DEF HeapOk, Locked, HasChunk
<1>9. PICK r : IsList(r, c, next) /\ Elements(r) = Elements(s) \cup {c}
  <2>1. IsList(s, chunkList, next) /\ next[c] = chunkList
    BY <1>1, <1>2, <1>3 DEF Heap
  <2>2. c \in Chunks \ Elements(s)
    BY <1>2
  <2>3. IsList(<<c>> \o s, c, next) /\ Elements(<<c>> \o s) = Elements(s) \cup {c}
    BY <2>1, <2>2, PushChunk
  <2> QED
    BY <2>3
<1>10. /\ ~ InHand(t)' /\ InHand(t)
       /\ \A u \in Threads \ {t} : (InHand(u)' <=> InHand(u))
  BY <1>3, <1>4, <1>7 DEF InHand
<1>11. HandsOk(r)'
  BY <1>1, <1>2, <1>3, <1>7, <1>9, <1>10 DEF Heap, HandsOk
<1>12. NoneLost(r)'
  <2>1. ASSUME NEW d \in allocated \ Elements(r), <<d, "trailer">> \notin damaged
        PROVE  \E u \in Threads : InHand(u)' /\ chunk'[u] = d
    <3>1. PICK u \in Threads : InHand(u) /\ chunk[u] = d
      BY <1>1, <1>9, <2>1 DEF Heap, NoneLost
    <3>2. u # t
      BY <1>2, <1>9, <3>1
    <3> QED
      BY <1>7, <1>10, <3>1, <3>2
  <2> QED
    BY <1>3, <2>1 DEF NoneLost
<1>13. \A u \in Threads : pc'[u] # "link" /\ pc'[u] # "walk"
  BY <1>4, <1>7
<1>14. IsList(r, chunkList, next)' /\ (Elements(r) \subseteq allocated)'
  BY <1>1, <1>2, <1>3, <1>9 DEF Heap
<1>15. Heap(r)'
  BY <1>11, <1>12, <1>13, <1>14 DEF Heap
<1> QED
  BY <1>6, <1>8, <1>15 DEF HeapOk

LEMMA UnlinkKeeps ==
    ASSUME HeapOk, NEW t \in Threads, Unlink(t)
    PROVE  HeapOk'
<1>1. PICK s : Heap(s)
  BY DEF HeapOk
<1>2. PICK i \in 0..Len(s) : previous[t] = Nth(s, i) /\ walker[t] = Nth(s, i + 1)
  BY <1>1 DEF Unlink, Heap, WalkAt
<1>3. PICK c \in Chunks : c = chunk[t] /\ walker[t] = c
  BY DEF Unlink, HeapOk, HasChunk
<1>4. /\ pc[t] = "walk" /\ chunk_mutex = t /\ chunk_mutex' = Nobody
      /\ UNCHANGED <<allocated, damaged, chunk, old, walker, previous>>
  BY DEF Unlink, HeapOk, Locked, memory, position
<1>5. /\ s \in Seq(Chunks) /\ Len(s) \in Nat /\ i \in Nat /\ i < Len(s) /\ i + 1 \in 1..Len(s)
      /\ c = s[i + 1]
  <2>1. s \in Seq(Chunks) /\ Len(s) \in Nat
    BY <1>1 DEF Heap, IsList
  <2> QED
    BY <1>2, <1>3, <2>1, AllocateAssumption DEF Nth
<1>6. IF i = 0 THEN chunkList' = next[s[1]] /\ next' = next
      ELSE chunkList' = chunkList /\ next' = [next EXCEPT ![s[i]] = next[s[i + 1]]]
  <2>1. CASE i = 0
    <3>1. previous[t] = NULL
      BY <1>2, <2>1 DEF Nth
    <3> QED
      BY <1>3, <1>5, <2>1, <3>1 DEF Unlink
  <2>2. CASE i # 0
    <3>1. previous[t] = s[i] /\ s[i] \in Chunks
      BY <1>2, <1>5, <2>2 DEF Nth
    <3> QED
      BY <1>3, <1>5, <2>2, <3>1, AllocateAssumption DEF Unlink
  <2> QED
    BY <2>1, <2>2
<1>7. PICK r : IsList(r, chunkList', next') /\ Elements(r) = Elements(s) \ {c}
  <2>1. IsList(s, chunkList, next) /\ next \in [Chunks -> Chunks \cup {NULL}]
    BY <1>1 DEF Heap, HeapOk, HeapTyped
  <2>2. PICK first2, nx2 : first2 = chunkList' /\ nx2 = next'
    OBVIOUS
  <2>3. Bypass(s, i, chunkList, next, first2, nx2)
    BY <1>6, <2>2 DEF Bypass
  <2>4. \E r : IsList(r, first2, nx2) /\ Elements(r) = Elements(s) \ {s[i + 1]}
    BY <1>5, <2>1, <2>3, TakeOut
  <2> QED
    BY <1>5, <2>2, <2>4
<1>8. c \in Elements(s) /\ c \in allocated
  BY <1>1, <1>5 DEF Elements, Heap
<1>9. PICK label \in {"free", "report"} :
        /\ pc' = [pc EXCEPT ![t] = label]
        /\ label = "report" => <<c, "trailer">> \in damaged
  BY <1>3 DEF Unlink, Goto
<1>10. HeapTyped'
  <2>1. chunkList' \in Chunks \cup {NULL} /\ next' \in [Chunks -> Chunks \cup {NULL}]
    <3>1. s[1] \in Chunks /\ s[i + 1] \in Chunks
      BY <1>5
    <3> QED
      BY <1>6, <3>1 DEF HeapOk, HeapTyped
  <2> QED
    BY <1>4, <1>9, <2>1 DEF HeapOk, HeapTyped
<1>11. /\ pc'[t] = label
       /\ \A u \in Threads \ {t} : pc'[u] = pc[u] /\ pc[u] \notin {"link", "walk", "check"}
  BY <1>4, <1>9 DEF HeapOk, HeapTyped, Locked
<1>12. Locked' /\ HasChunk'
  BY <1>4, <1>9, <1>11 DEF HeapOk, Locked, HasChunk
<1>13. \A u \in Threads : InHand(u) => u # t /\ InHand(u)' /\ chunk[u] \in allocated \ Elements(s)
  BY <1>1, <1>4, <1>11 DEF InHand, Heap, HandsOk
<1>14. \A u \in Threads \ {t} : InHand(u)' => InHand(u)
  BY <1>11 DEF InHand
<1>15. HandsOk(r)'
  <2>1. HandsOk(s)
    BY <1>1 DEF Heap
  <2> QED
    BY <1>3, <1>4, <1>7, <1>8, <1>13, <1>14, <2>1 DEF HandsOk
<1>16. NoneLost(r)'
  <2>1. ASSUME NEW d \in allocated \ Elements(r), <<d, "trailer">> \notin damaged
        PROVE  \E u \in Threads : InHand(u)' /\ chunk[u] = d
    <3>1. CASE d = c
      BY <1>3, <1>9, <1>11, <2>1, <3>1 DEF InHand
    <3>2. CASE d # c
      <4>1. PICK u \in Threads : InHand(u) /\ chunk[u] = d
        BY <1>1, <1>7, <2>1, <3>2 DEF Heap, NoneLost
      <4> QED
        BY <1>13, <4>1
    <3> QED
      BY <3>1, <3>2
  <2> QED
    BY <1>4, <2>1 DEF NoneLost
<1>17. \A u \in Threads : pc'[u] # "link" /\ pc'[u] # "walk"
  BY <1>9, <1>11
<1>18. IsList(r, chunkList, next)' /\ (Elements(r) \subseteq allocated)'
  BY <1>1, <1>4, <1>7 DEF Heap
<1>19. Heap(r)'
  BY <1>15, <1>16, <1>17, <1>18 DEF Heap
<1> QED
  BY <1>10, <1>12, <1>19 DEF HeapOk

LEMMA freeKeeps ==
    ASSUME HeapOk, NEW t \in Threads, free(t)
    PROVE  HeapOk'
<1>1. PICK s : Heap(s)
  BY DEF HeapOk
<1>2. PICK c \in allocated \ Elements(s) :
        /\ c = chunk[t] /\ c \in Chunks
        /\ \A u \in Threads \ {t} : InHand(u) => chunk[u] # c
  BY <1>1 DEF free, Heap, HandsOk, InHand, HeapOk, HeapTyped
<1>3. /\ pc[t] = "free" /\ allocated' = allocated \ {c}
      /\ next' = [next EXCEPT ![c] = NULL]
      /\ UNCHANGED <<damaged, chunkList, chunk_mutex>>
      /\ pc' = [pc EXCEPT ![t] = "idle"] /\ chunk' = [chunk EXCEPT ![t] = NULL]
      /\ old' = [old EXCEPT ![t] = NULL] /\ walker' = [walker EXCEPT ![t] = NULL]
      /\ previous' = [previous EXCEPT ![t] = NULL]
  BY <1>2 DEF free, Done, Goto
<1>4. HeapTyped'
  BY <1>2, <1>3 DEF HeapOk, HeapTyped
<1>5. /\ pc'[t] = "idle"
      /\ \A u \in Threads \ {t} : /\ pc'[u] = pc[u] /\ chunk'[u] = chunk[u]
                                  /\ walker'[u] = walker[u] /\ previous'[u] = previous[u]
  BY <1>3 DEF HeapOk, HeapTyped
<1>6. Locked' /\ HasChunk'
  BY <1>3, <1>5 DEF HeapOk, Locked, HasChunk
<1>7. \A u \in Threads : InHand(u)' <=> (InHand(u) /\ u # t)
  BY <1>5 DEF InHand
<1>8. HandsOk(s)'
  <2>1. HandsOk(s)
    BY <1>1 DEF Heap
  <2> QED
    BY <1>2, <1>3, <1>5, <1>7, <2>1 DEF HandsOk
<1>9. NoneLost(s)'
  <2>1. NoneLost(s)
    BY <1>1 DEF Heap
  <2>2. ASSUME NEW d \in allocated' \ Elements(s), <<d, "trailer">> \notin damaged'
        PROVE  \E u \in Threads : InHand(u)' /\ chunk'[u] = d
    <3>1. d \in allocated \ Elements(s) /\ d # c /\ <<d, "trailer">> \notin damaged
      BY <1>3, <2>2
    <3>2. PICK u \in Threads : InHand(u) /\ chunk[u] = d
      BY <2>1, <3>1 DEF NoneLost
    <3>3. u # t
      BY <1>2, <3>1, <3>2
    <3> QED
      BY <1>5, <1>7, <3>2, <3>3
  <2> QED
    BY <2>2 DEF NoneLost
<1>10. ASSUME NEW u \in Threads, pc'[u] = "link" PROVE next'[chunk'[u]] = chunkList'
  <2>1. /\ u # t /\ pc[u] = "link" /\ next[chunk[u]] = chunkList /\ InHand(u)
        /\ chunk'[u] = chunk[u]
    BY <1>1, <1>5, <1>10 DEF Heap, InHand
  <2>2. chunk[u] # c /\ chunk[u] \in Chunks
    BY <1>1, <1>2, <2>1 DEF Heap, HandsOk, HeapOk, HeapTyped
  <2> QED
    BY <1>3, <2>1, <2>2 DEF HeapOk, HeapTyped
<1>11. ASSUME NEW u \in Threads, pc'[u] = "walk" PROVE WalkAt(s, u)'
  <2>1. u # t /\ WalkAt(s, u)
    BY <1>1, <1>5, <1>11 DEF Heap
  <2> QED
    BY <1>5, <2>1 DEF WalkAt
<1>12. IsList(s, chunkList, next)' /\ (Elements(s) \subseteq allocated)'
  <2>1. IsList(s, chunkList, [next EXCEPT ![c] = NULL])
    BY <1>1, <1>2, WriteElsewhere DEF Heap, HeapOk, HeapTyped
  <2> QED
    BY <1>1, <1>2, <1>3, <2>1 DEF Heap
<1>13. Heap(s)'
  BY <1>8, <1>9, <1>10, <1>11, <1>12 DEF Heap
<1> QED
  BY <1>4, <1>6, <1>13 DEF HeapOk

LEMMA DamageKeeps ==
    ASSUME HeapOk, NEW t \in Threads, Damage(t), owned \in [Threads -> SUBSET Chunks]
    PROVE  HeapOk'
<1>1. PICK s : Heap(s)
  BY DEF HeapOk
<1>2. /\ damaged' \subseteq Chunks \X {"header", "trailer"} /\ damaged \subseteq damaged'
      /\ UNCHANGED <<allocated, chunkList, next, chunk_mutex, pc, chunk, old, walker, previous>>
  BY DEF Damage, list, position, HeapOk, HeapTyped
<1>3. HeapTyped' /\ Locked' /\ HasChunk'
  BY <1>2 DEF HeapOk, HeapTyped, Locked, HasChunk
<1>4. \A u \in Threads : InHand(u)' <=> InHand(u)
  BY <1>2 DEF InHand
<1>5. HandsOk(s)' /\ NoneLost(s)'
  BY <1>1, <1>2, <1>4 DEF Heap, HandsOk, NoneLost
<1>6. \A u \in Threads : pc'[u] = "walk" => WalkAt(s, u)'
  BY <1>1, <1>2 DEF Heap, WalkAt
<1>7. Heap(s)'
  BY <1>1, <1>2, <1>5, <1>6 DEF Heap
<1> QED
  BY <1>3, <1>7 DEF HeapOk

\* Steps that concern neither the list nor anyone who is using it.
LEMMA FrameKeeps ==
    ASSUME HeapOk,
           UNCHANGED <<allocated, damaged, chunkList, next, chunk_mutex, pc, chunk, old, walker, previous>>
    PROVE  HeapOk'
<1>1. PICK s : Heap(s)
  BY DEF HeapOk
<1>2. HeapTyped' /\ Locked' /\ HasChunk'
  BY DEF HeapOk, HeapTyped, Locked, HasChunk
<1>3. \A u \in Threads : InHand(u)' <=> InHand(u)
  BY DEF InHand
<1>4. HandsOk(s)' /\ NoneLost(s)'
  BY <1>1, <1>3 DEF Heap, HandsOk, NoneLost
<1>5. \A u \in Threads : pc'[u] = "walk" => WalkAt(s, u)'
  BY <1>1 DEF Heap, WalkAt
<1>6. Heap(s)'
  BY <1>1, <1>4, <1>5 DEF Heap
<1> QED
  BY <1>2, <1>6 DEF HeapOk

LEMMA debugFreeKeeps ==
    ASSUME HeapOk, NEW t \in Threads, NEW c \in Chunks, debugFree(t, c)
    PROVE  HeapOk'
<1>1. PICK label \in {"lock", "report"} : pc' = [pc EXCEPT ![t] = label]
  BY DEF debugFree, CallFree, Goto
<1>2. /\ pc[t] = "idle" /\ chunk' = [chunk EXCEPT ![t] = c] /\ old' = [old EXCEPT ![t] = NULL]
      /\ UNCHANGED <<allocated, damaged, chunkList, next, chunk_mutex, walker, previous>>
  BY DEF debugFree, CallFree, list
<1>3. HeapTyped'
  BY <1>1, <1>2 DEF HeapOk, HeapTyped
<1>4. /\ pc'[t] = label /\ chunk'[t] = c
      /\ \A u \in Threads \ {t} : pc'[u] = pc[u] /\ chunk'[u] = chunk[u]
  BY <1>1, <1>2 DEF HeapOk, HeapTyped
<1>5. ~ InHand(t) /\ ~ InHand(t)'
  BY <1>1, <1>2, <1>4 DEF InHand
<1> QED
  BY <1>1, <1>2, <1>3, <1>4, <1>5, MoveKeeps

\* A thread that is not inside the wrapper meets an error, or is done with one.
LEMMA GotoKeeps ==
    ASSUME HeapOk, NEW t \in Threads, NEW label,
           \/ pc[t] = "idle" /\ label = "report"
           \/ pc[t] \in {"walk", "check"} /\ label = "report",
           Goto(t, label),
           UNCHANGED <<allocated, damaged, chunkList, next, chunk_mutex, chunk, old, walker, previous>>
    PROVE  HeapOk'
<1>1. pc' = [pc EXCEPT ![t] = label] /\ label = "report"
  BY DEF Goto
<1>2. HeapTyped'
  BY <1>1 DEF HeapOk, HeapTyped
<1>3. pc'[t] = label /\ \A u \in Threads \ {t} : pc'[u] = pc[u]
  BY <1>1 DEF HeapOk, HeapTyped
<1>4. ~ InHand(t) /\ ~ InHand(t)'
  BY <1>1, <1>3 DEF InHand
<1> QED
  BY <1>1, <1>2, <1>3, <1>4, MoveKeeps

LEMMA ReportKeeps ==
    ASSUME HeapOk, NEW t \in Threads, Report(t)
    PROVE  HeapOk'
<1>1. /\ pc[t] = "report" /\ chunk_mutex' = Unlocked(t)
      /\ pc' = [pc EXCEPT ![t] = "idle"] /\ chunk' = [chunk EXCEPT ![t] = NULL]
      /\ old' = [old EXCEPT ![t] = NULL] /\ walker' = [walker EXCEPT ![t] = NULL]
      /\ previous' = [previous EXCEPT ![t] = NULL]
      /\ UNCHANGED <<allocated, damaged, chunkList, next>>
  BY DEF Report, Done, Goto, memory, list
<1>2. HeapTyped'
  BY <1>1 DEF HeapOk, HeapTyped, Unlocked
<1>3. /\ pc'[t] = "idle"
      /\ \A u \in Threads \ {t} : /\ pc'[u] = pc[u] /\ chunk'[u] = chunk[u]
                                  /\ walker'[u] = walker[u] /\ previous'[u] = previous[u]
  BY <1>1 DEF HeapOk, HeapTyped
<1>4. ~ InHand(t) /\ ~ InHand(t)'
  BY <1>1, <1>3 DEF InHand
<1>5. chunk_mutex' = chunk_mutex \/ (chunk_mutex = t /\ chunk_mutex' = Nobody)
  BY <1>1 DEF Unlocked
<1> QED
  BY <1>1, <1>2, <1>3, <1>4, <1>5, MoveKeeps

LEMMA LockToFreeKeeps ==
    ASSUME HeapOk, NEW t \in Threads, LockToFree(t)
    PROVE  HeapOk'
<1>1. /\ pc[t] = "lock" /\ chunk_mutex = Nobody /\ chunk_mutex' = t
      /\ pc' = [pc EXCEPT ![t] = "walk"]
      /\ walker' = [walker EXCEPT ![t] = chunkList] /\ previous' = [previous EXCEPT ![t] = NULL]
      /\ UNCHANGED <<allocated, damaged, chunkList, next, chunk, old>>
  BY DEF LockToFree, Goto, memory, list
<1>2. HeapTyped'
  BY <1>1 DEF HeapOk, HeapTyped
<1>3. /\ pc'[t] = "walk" /\ walker'[t] = chunkList /\ previous'[t] = NULL
      /\ \A u \in Threads \ {t} : /\ pc'[u] = pc[u]
                                  /\ walker'[u] = walker[u] /\ previous'[u] = previous[u]
  BY <1>1 DEF HeapOk, HeapTyped
<1>4. ~ InHand(t) /\ ~ InHand(t)'
  BY <1>1, <1>3 DEF InHand
<1>5. chunk'[t] \in Chunks
  BY <1>1 DEF HeapOk, HasChunk
<1>6. ASSUME NEW s, Heap(s) PROVE WalkAt(s, t)'
  <2>1. s \in Seq(Chunks) /\ chunkList = Nth(s, 1)
    BY <1>6 DEF Heap, IsList
  <2>2. 0 \in 0..Len(s) /\ Nth(s, 0) = NULL /\ 0 + 1 = 1
    BY <2>1 DEF Nth
  <2> QED
    BY <1>3, <2>1, <2>2 DEF WalkAt
<1> QED
  BY <1>1, <1>2, <1>3, <1>4, <1>5, <1>6, MoveKeeps

LEMMA WalkOnKeeps ==
    ASSUME HeapOk, NEW t \in Threads, WalkOn(t)
    PROVE  HeapOk'
<1>1. /\ pc[t] = "walk" /\ walker[t] # NULL /\ walker[t] \in Chunks /\ walker[t] # chunk[t]
      /\ previous' = [previous EXCEPT ![t] = walker[t]]
      /\ walker' = [walker EXCEPT ![t] = next[walker[t]]]
      /\ UNCHANGED <<allocated, damaged, chunkList, next, chunk_mutex, pc, chunk, old>>
  BY DEF WalkOn, memory, list, HeapOk, HeapTyped
<1>2. HeapTyped'
  BY <1>1 DEF HeapOk, HeapTyped
<1>3. /\ walker'[t] = next[walker[t]] /\ previous'[t] = walker[t]
      /\ \A u \in Threads \ {t} : walker'[u] = walker[u] /\ previous'[u] = previous[u]
  BY <1>1 DEF HeapOk, HeapTyped
<1>4. ~ InHand(t) /\ ~ InHand(t)'
  BY <1>1 DEF InHand
<1>5. chunk'[t] \in Chunks /\ chunk_mutex' = t
  BY <1>1 DEF HeapOk, HasChunk, Locked
<1>6. ASSUME NEW s, Heap(s) PROVE WalkAt(s, t)'
  <2>1. s \in Seq(Chunks) /\ \A i \in 1..Len(s) : next[s[i]] = Nth(s, i + 1)
    BY <1>6 DEF Heap, IsList
  <2>2. PICK i \in 0..Len(s) : walker[t] = Nth(s, i + 1) /\ \A j \in 1..i : s[j] # chunk[t]
    BY <1>1, <1>6 DEF Heap, WalkAt
  <2>3. i + 1 \in 1..Len(s)
    BY <1>1, <2>2 DEF Nth
  <2>4. i + 1 \in 0..Len(s) /\ walker[t] = s[i + 1]
    BY <2>1, <2>2, <2>3 DEF Nth
  <2>5. walker'[t] = Nth(s, (i + 1) + 1) /\ previous'[t] = Nth(s, i + 1)
    BY <1>3, <2>1, <2>2, <2>3, <2>4
  <2>6. \A j \in 1..(i + 1) : s[j] # chunk'[t]
    <3> TAKE j \in 1..(i + 1)
    <3>1. j = i + 1 \/ j \in 1..i
      BY <2>2
    <3> QED
      BY <1>1, <2>2, <2>4, <3>1
  <2> QED
    BY <2>4, <2>5, <2>6 DEF WalkAt
<1> QED
  BY <1>1, <1>2, <1>3, <1>4, <1>5, <1>6, MoveKeeps

LEMMA checkIntegrityKeeps ==
    ASSUME HeapOk, NEW t \in Threads, checkIntegrity(t)
    PROVE  HeapOk'
<1>1. /\ pc[t] = "idle" /\ chunk_mutex = Nobody /\ chunk_mutex' = t
      /\ pc' = [pc EXCEPT ![t] = "check"]
      /\ walker' = [walker EXCEPT ![t] = chunkList]
      /\ UNCHANGED <<allocated, damaged, chunkList, next, chunk, old, previous>>
  BY DEF checkIntegrity, Goto, memory, list
<1>2. HeapTyped'
  BY <1>1 DEF HeapOk, HeapTyped
<1>3. /\ pc'[t] = "check"
      /\ \A u \in Threads \ {t} : pc'[u] = pc[u] /\ walker'[u] = walker[u]
  BY <1>1 DEF HeapOk, HeapTyped
<1>4. ~ InHand(t) /\ ~ InHand(t)'
  BY <1>1, <1>3 DEF InHand
<1> QED
  BY <1>1, <1>2, <1>3, <1>4, MoveKeeps

LEMMA CheckOnKeeps ==
    ASSUME HeapOk, NEW t \in Threads, pc[t] = "check", walker[t] # NULL,
           walker' = [walker EXCEPT ![t] = next[walker[t]]],
           UNCHANGED <<allocated, damaged, chunkList, next, chunk_mutex, pc, chunk, old, previous>>
    PROVE  HeapOk'
<1>1. HeapTyped'
  BY DEF HeapOk, HeapTyped
<1>2. \A u \in Threads \ {t} : walker'[u] = walker[u]
  BY DEF HeapOk, HeapTyped
<1>3. ~ InHand(t) /\ ~ InHand(t)'
  BY DEF InHand
<1>4. chunk_mutex' = t
  BY DEF HeapOk, Locked
<1> QED
  BY <1>1, <1>2, <1>3, <1>4, MoveKeeps

LEMMA EndCheckKeeps ==
    ASSUME HeapOk, NEW t \in Threads, EndCheck(t)
    PROVE  HeapOk'
<1>1. /\ pc[t] = "check" /\ chunk_mutex' = Nobody /\ chunk_mutex = t
      /\ pc' = [pc EXCEPT ![t] = "idle"] /\ chunk' = [chunk EXCEPT ![t] = NULL]
      /\ old' = [old EXCEPT ![t] = NULL] /\ walker' = [walker EXCEPT ![t] = NULL]
      /\ previous' = [previous EXCEPT ![t] = NULL]
      /\ UNCHANGED <<allocated, damaged, chunkList, next>>
  BY DEF EndCheck, Done, Goto, memory, list, HeapOk, Locked
<1>2. HeapTyped'
  BY <1>1 DEF HeapOk, HeapTyped
<1>3. /\ pc'[t] = "idle"
      /\ \A u \in Threads \ {t} : /\ pc'[u] = pc[u] /\ chunk'[u] = chunk[u]
                                  /\ walker'[u] = walker[u] /\ previous'[u] = previous[u]
  BY <1>1 DEF HeapOk, HeapTyped
<1>4. ~ InHand(t) /\ ~ InHand(t)'
  BY <1>1, <1>3 DEF InHand
<1> QED
  BY <1>1, <1>2, <1>3, <1>4, MoveKeeps

LEMMA AllocatorKeeps ==
    ASSUME HeapOk, NEW t \in Threads, Allocator(t)
    PROVE  HeapOk'
<1>1. CASE NotListed(t)
  <2>1. /\ pc[t] = "walk" /\ Goto(t, "report")
        /\ UNCHANGED <<allocated, damaged, chunkList, next, chunk_mutex, chunk, old, walker, previous>>
    BY <1>1 DEF NotListed, memory, list, position
  <2> QED
    BY <2>1, GotoKeeps
<1>2. CASE CheckChunk(t)
  <2>1. /\ pc[t] = "check" /\ walker[t] # NULL
        /\ UNCHANGED <<allocated, damaged, chunkList, next, chunk_mutex, chunk, old, previous>>
        /\ \/ walker' = [walker EXCEPT ![t] = next[walker[t]]] /\ UNCHANGED pc
           \/ Goto(t, "report") /\ UNCHANGED walker
    BY <1>2 DEF CheckChunk, memory, list
  <2> QED
    BY <2>1, GotoKeeps, CheckOnKeeps
<1>3. CASE ReportCrashes(t)
  BY <1>3, FrameKeeps DEF ReportCrashes, memory, list, position
<1> QED
  BY <1>1, <1>2, <1>3, LockToAddKeeps, LinkKeeps, LockToFreeKeeps, WalkOnKeeps, UnlinkKeeps,
     freeKeeps, EndCheckKeeps DEF Allocator

LEMMA debugMallocKeeps ==
    ASSUME HeapOk, NEW t \in Threads, debugMalloc(t)
    PROVE  HeapOk'
<1>1. old' \in [Threads -> Chunks \cup {NULL}]
  BY DEF debugMalloc, HeapOk, HeapTyped
<1> QED
  BY <1>1, NewChunkKeeps DEF debugMalloc, list

LEMMA debugReallocKeeps ==
    ASSUME HeapOk, NEW t \in Threads, NEW c \in Chunks, debugRealloc(t, c)
    PROVE  HeapOk'
<1>1. pc[t] = "idle" /\ UNCHANGED <<chunkList, next, chunk_mutex, walker, previous>>
  BY DEF debugRealloc, list
<1>2. CASE NewChunk(t) /\ old' = [old EXCEPT ![t] = c]
  <2>1. old' \in [Threads -> Chunks \cup {NULL}]
    BY <1>2 DEF HeapOk, HeapTyped
  <2> QED
    BY <1>1, <1>2, <2>1, NewChunkKeeps
<1>3. CASE Goto(t, "report") /\ UNCHANGED <<allocated, damaged, chunk, old>>
  BY <1>1, <1>3, GotoKeeps
<1> QED
  BY <1>2, <1>3 DEF debugRealloc

\* What main keeps in hna_buff and vis_packet is a chunk, or nothing yet; it
\* has a packet to fill.
KeptOk ==
    /\ hna_buff \in Chunks \cup {NULL} /\ vis_packet \in Chunks \cup {NULL}
    /\ life["main"] = "vis_data" => vis_packet # NULL

\* What a step does to the memory.
HeapStep(t) ==
    \/ Allocator(t) \/ Report(t)
    \/ debugMalloc(t) \/ (\E c \in Chunks : debugRealloc(t, c) \/ debugFree(t, c))
    \/ checkIntegrity(t)
    \/ Damage(t)
    \/ /\ pc[t] = "idle" /\ Goto(t, "report")
       /\ UNCHANGED <<allocated, damaged, chunkList, next, chunk_mutex, chunk, old, walker, previous>>
    \/ UNCHANGED <<allocated, damaged, chunkList, next, chunk_mutex, pc, chunk, old, walker, previous>>

LEMMA HeapStepKeeps ==
    ASSUME HeapOk, owned \in [Threads -> SUBSET Chunks], NEW t \in Threads, HeapStep(t)
    PROVE  HeapOk'
BY AllocatorKeeps, ReportKeeps, debugMallocKeeps, debugReallocKeeps, debugFreeKeeps,
   checkIntegrityKeeps, DamageKeeps, GotoKeeps, FrameKeeps DEF HeapStep

\* Every step of the daemon is such a step of one of its threads.
LEMMA StepOnHeap ==
    ASSUME Next, KeptOk, owned \in [Threads -> SUBSET Chunks],
           \A t \in Threads : life[t] = "restore_if" => if_pos[t] \in Chunks
    PROVE  \E t \in Threads : HeapStep(t)
<1>1. Threads = {"main", "listen"}
  BY DaemonAssumption
<1>2. ASSUME NEW t \in Threads, restore_defaults(t) PROVE HeapStep(t)
  <2>1. CASE RemoveInterface(t)
    BY <2>1 DEF RemoveInterface, At, HeapStep
  <2> QED
    BY <1>2, <2>1 DEF restore_defaults, restore_and_exit, NextInterface, RemoveCrashes, RestoreTap,
       RestoreUnix, Join, HeapStep, avars, memory, list, position
<1>3. CASE MainGoes
  <2>1. CASE hna_update \/ Store \/ FreeVisPacket \/ NewVisPacket \/ FillVisPacket \/ PurgeAll
    <3>1. debugMalloc("main") \/ \E c \in Chunks : debugRealloc("main", c) \/ debugFree("main", c)
      BY <1>1, <2>1 DEF hna_update, Store, FreeVisPacket, NewVisPacket, FillVisPacket, PurgeAll, FreeOwn, At, KeptOk
    <3> QED
      BY <1>1, <3>1 DEF HeapStep
  <2>2. CASE AllocateInterface \/ Check \/ ProbeFails
    BY <1>1, <2>2 DEF AllocateInterface, Check, ProbeFails, At, HeapStep, memory, list, position
  <2>3. CASE \/ ParseArgs \/ SetUpDebug \/ AddInterface \/ CreateTap \/ CreateVisSocket
             \/ CreateUnixSocket \/ StartThread \/ BatmanInit
    BY <1>1, <2>3 DEF ParseArgs, SetUpDebug, AddInterface, CreateTap, CreateVisSocket,
       CreateUnixSocket, StartThread, BatmanInit, HeapStep, avars, memory, list, position
  <2>4. CASE NothingToDo \/ BatmanStops \/ BatmanReturns \/ cleanup \/ checkLeak
    BY <1>1, <2>4 DEF NothingToDo, BatmanStops, BatmanReturns, cleanup, checkLeak,
       HeapStep, avars, memory, list, position
  <2>5. CASE Allocator("main") \/ restore_defaults("main")
    BY <1>1, <1>2, <2>5 DEF HeapStep
  <2> QED
    BY <1>3, <2>1, <2>2, <2>3, <2>4, <2>5 DEF MainGoes
<1>4. CASE ListenGoes
  <2>1. CASE JoinLevel \/ LeaveLevel \/ FreeClients
    BY <1>1, <2>1 DEF JoinLevel, LeaveLevel, FreeClients, FreeOwn, HeapStep
  <2>2. CASE UnlockLog \/ LeaveLoop \/ EndThread
    BY <1>1, <2>2 DEF UnlockLog, LeaveLoop, EndThread, HeapStep, avars, memory, list, position
  <2>3. CASE Allocator("listen") \/ restore_defaults("listen")
    BY <1>1, <1>2, <2>3 DEF HeapStep
  <2> QED
    BY <1>4, <2>1, <2>2, <2>3 DEF ListenGoes
<1>5. CASE ReceiveFails \/ LockLog \/ SelectFails \/ handler
  BY <1>1, <1>5 DEF ReceiveFails, LockLog, SelectFails, handler, HeapStep, avars, memory, list, position
<1>6. CASE Serve
  BY <1>1, <1>6 DEF Serve, FreeOwn, HeapStep
<1>7. ASSUME NEW t \in Threads, GiveUp(t) PROVE HeapStep(t)
  BY <1>7 DEF GiveUp, At, HeapStep, memory, list, position
<1>8. ASSUME NEW t \in Threads, \/ Damage(t) \/ OutOfMemory(t) \/ \E c \in Chunks : FreeForeign(t, c)
      PROVE HeapStep(t)
  BY <1>8 DEF OutOfMemory, FreeForeign, HeapStep, memory, list, position
<1> QED
  BY <1>3, <1>4, <1>5, <1>6, <1>7, <1>8 DEF Next, Faults

-----------------------------------------------------------------------------
(* Types *)

MainLabels == {"args", "debug", "ifs", "add_if", "tap", "vis", "unix", "thread",
               "batman_init", "batman", "check", "vis_packet", "vis_data", "purge",
               "restore_ifs", "restore_if", "restore_unix", "join", "cleanup", "leak"}

ListenLabels == {"none", "serve", "locked", "unlock", "cleanup", "exit",
                 "restore_ifs", "restore_if", "restore_unix", "join"}

\* What TypeOK says of the variables that HeapTyped leaves out.
LifeTyped ==
    /\ life \in [Threads -> MainLabels \cup ListenLabels]
    /\ life["main"] \in MainLabels
    /\ life["listen"] \in ListenLabels

MemoryTyped ==
    /\ owned \in [Threads -> SUBSET Chunks]
    /\ clients_num \in {NULL, Freed, 0, 1}
    /\ log_mutex \in Threads \cup {Nobody}
    /\ crashed \in BOOLEAN
    /\ faults \in 0..MaxFaults

DaemonTyped ==
    /\ returning \in BOOLEAN /\ exited \in BOOLEAN /\ stop \in BOOLEAN
    /\ vis_server \in BOOLEAN /\ tap_sock \in BOOLEAN /\ unix_sock \in BOOLEAN
    /\ if_list \subseteq Chunks /\ raw_socks \subseteq Chunks
    /\ if_pos \in [Threads -> Chunks \cup {NULL}]

RestTyped == LifeTyped /\ MemoryTyped /\ DaemonTyped

\* A thread goes from one label to another.
LEMMA MainBecomes ==
    ASSUME LifeTyped, NEW label \in MainLabels, Become("main", label)
    PROVE  /\ LifeTyped'
           /\ life'["main"] = label /\ life'["listen"] = life["listen"]
<1>1. Threads = {"main", "listen"}
  BY DaemonAssumption
<1>2. label \in MainLabels \cup ListenLabels
  OBVIOUS
<1>3. life' = [life EXCEPT !["main"] = label] /\ life \in [Threads -> MainLabels \cup ListenLabels]
  BY DEF Become, LifeTyped
<1>4. life'["main"] = label /\ life'["listen"] = life["listen"] /\ life' \in [Threads -> MainLabels \cup ListenLabels]
  BY <1>1, <1>2, <1>3
<1> QED
  BY <1>4 DEF LifeTyped

LEMMA ListenBecomes ==
    ASSUME LifeTyped, NEW label \in ListenLabels, Become("listen", label)
    PROVE  /\ LifeTyped'
           /\ life'["listen"] = label /\ life'["main"] = life["main"]
<1>1. Threads = {"main", "listen"}
  BY DaemonAssumption
<1>2. label \in MainLabels \cup ListenLabels
  OBVIOUS
<1>3. life' = [life EXCEPT !["listen"] = label] /\ life \in [Threads -> MainLabels \cup ListenLabels]
  BY DEF Become, LifeTyped
<1>4. life'["listen"] = label /\ life'["main"] = life["main"] /\ life' \in [Threads -> MainLabels \cup ListenLabels]
  BY <1>1, <1>2, <1>3
<1> QED
  BY <1>4 DEF LifeTyped

LEMMA ThreadBecomes ==
    ASSUME LifeTyped, NEW t \in Threads, NEW label \in MainLabels \cap ListenLabels, Become(t, label)
    PROVE  /\ LifeTyped'
           /\ life'[t] = label /\ \A u \in Threads \ {t} : life'[u] = life[u]
<1>1. Threads = {"main", "listen"}
  BY DaemonAssumption
<1>2. CASE t = "main"
  BY <1>1, <1>2, MainBecomes
<1>3. CASE t = "listen"
  BY <1>1, <1>3, ListenBecomes
<1> QED
  BY <1>1, <1>2, <1>3

LEMMA AllocatorTyped ==
    ASSUME RestTyped, HeapTyped, NEW t \in Threads, Allocator(t), UNCHANGED dvars,
           pc[t] = "link" => chunk[t] \in Chunks
    PROVE  RestTyped'
<1>1. owned' \in [Threads -> SUBSET Chunks]
  BY DEF Allocator, LockToAdd, Link, LockToFree, WalkOn, NotListed, Unlink, free, CheckChunk, EndCheck,
     ReportCrashes, memory, RestTyped, MemoryTyped
<1>2. crashed' \in BOOLEAN /\ UNCHANGED <<clients_num, log_mutex, faults>>
  BY DEF Allocator, LockToAdd, Link, LockToFree, WalkOn, NotListed, Unlink, free, CheckChunk, EndCheck,
     ReportCrashes, log, RestTyped, MemoryTyped
<1>3. MemoryTyped'
  BY <1>1, <1>2 DEF RestTyped, MemoryTyped
<1> QED
  BY <1>3 DEF RestTyped, LifeTyped, DaemonTyped, dvars, taken

LEMMA FreeTyped ==
    ASSUME MemoryTyped, NEW t \in Threads, NEW c, FreeOwn(t, c)
    PROVE  MemoryTyped'
BY DEF FreeOwn, debugFree, MemoryTyped

LEMMA FrameTyped ==
    ASSUME MemoryTyped, UNCHANGED <<owned, clients_num, log_mutex, crashed, faults>>
    PROVE  MemoryTyped'
BY DEF MemoryTyped

LEMMA restore_defaultsTyped ==
    ASSUME RestTyped, NEW t \in Threads, restore_defaults(t)
    PROVE  RestTyped'
<1>1. {"restore_ifs", "restore_if", "restore_unix", "join"} \subseteq MainLabels \cap ListenLabels
  BY DEF MainLabels, ListenLabels
<1>2. MemoryTyped'
  <2>1. CASE RemoveCrashes(t)
    BY <2>1 DEF RemoveCrashes, memory, RestTyped, MemoryTyped
  <2>2. CASE ~ RemoveCrashes(t)
    BY <2>2, FrameTyped DEF restore_defaults, restore_and_exit, Report, NextInterface, RemoveInterface, debugFree,
       RestoreTap, RestoreUnix, Join, avars, memory, log, RestTyped
  <2> QED
    BY <2>1, <2>2
<1>3. LifeTyped'
  <2>1. CASE Join(t)
    <3>1. CASE UNCHANGED life
      BY <3>1 DEF RestTyped, LifeTyped
    <3>2. CASE t = "main" /\ Become(t, "cleanup")
      <4>1. "cleanup" \in MainLabels
        BY DEF MainLabels
      <4> QED
        BY <3>2, <4>1, MainBecomes DEF RestTyped
    <3> QED
      BY <2>1, <3>1, <3>2 DEF Join, AfterRestore
  <2>2. CASE \/ restore_and_exit(t) \/ NextInterface(t) \/ RemoveInterface(t)
             \/ RestoreTap(t) \/ RestoreUnix(t)
    <3>1. \E label \in MainLabels \cap ListenLabels : Become(t, label)
      BY <1>1, <2>2 DEF restore_and_exit, NextInterface, RemoveInterface, RestoreTap, RestoreUnix
    <3> QED
      BY <3>1, ThreadBecomes DEF RestTyped
  <2>3. CASE RemoveCrashes(t)
    BY <2>3 DEF RemoveCrashes, dvars, RestTyped, LifeTyped
  <2> QED
    BY <2>1, <2>2, <2>3 DEF restore_defaults
<1>4. DaemonTyped'
  <2>1. CASE restore_and_exit(t)
    BY <2>1 DEF restore_and_exit, RestTyped, DaemonTyped
  <2>2. CASE NextInterface(t)
    BY <2>2 DEF NextInterface, RestTyped, DaemonTyped
  <2>3. CASE RemoveInterface(t)
    BY <2>3 DEF RemoveInterface, RestTyped, DaemonTyped
  <2>4. CASE RestoreTap(t) \/ RestoreUnix(t)
    BY <2>4 DEF RestoreTap, RestoreUnix, RestTyped, DaemonTyped
  <2>5. CASE Join(t)
    BY <2>5 DEF Join, AfterRestore, taken, RestTyped, DaemonTyped
  <2>6. CASE RemoveCrashes(t)
    BY <2>6 DEF RemoveCrashes, dvars, taken, RestTyped, DaemonTyped
  <2> QED
    BY <2>1, <2>2, <2>3, <2>4, <2>5, <2>6 DEF restore_defaults
<1> QED
  BY <1>2, <1>3, <1>4 DEF RestTyped

\* What main and unix_listen do by themselves.
MainSteps ==
    \/ ParseArgs \/ ProbeFails \/ SetUpDebug
    \/ AllocateInterface \/ AddInterface \/ CreateTap \/ CreateVisSocket \/ CreateUnixSocket
    \/ StartThread \/ BatmanInit
    \/ hna_update \/ Store \/ NothingToDo \/ Check \/ BatmanStops
    \/ FreeVisPacket \/ NewVisPacket \/ FillVisPacket
    \/ PurgeAll \/ BatmanReturns \/ cleanup \/ checkLeak
    \/ ReceiveFails

ListenSteps ==
    \/ JoinLevel \/ LeaveLevel \/ UnlockLog
    \/ LeaveLoop \/ FreeClients \/ EndThread
    \/ Serve \/ LockLog \/ SelectFails

FaultStep(t) ==
    \/ GiveUp(t)
    \/ life[t] \in Allocating /\ OutOfMemory(t) /\ UNCHANGED dvars
    \/ /\ life[t] \in {"batman", "serve", "locked"}
       /\ Damage(t) \/ \E c \in Chunks : FreeForeign(t, c)
       /\ UNCHANGED dvars

LEMMA NextCases ==
    ASSUME Next
    PROVE  /\ ~ crashed /\ ~ exited
           /\ \/ MainSteps \/ ListenSteps \/ handler
              \/ \E t \in Threads : \/ Allocator(t) /\ UNCHANGED dvars
                                    \/ restore_defaults(t)
                                    \/ FaultStep(t)
<1>1. "main" \in Threads /\ "listen" \in Threads
  BY DaemonAssumption
<1> QED
  BY <1>1 DEF Next, MainGoes, ListenGoes, Faults, Alive, MainSteps, ListenSteps, FaultStep

LEMMA FaultTyped ==
    ASSUME MemoryTyped, Fault
    PROVE  faults' \in 0..MaxFaults /\ faults' > 0
BY AllocateAssumption DEF Fault, MemoryTyped

LEMMA MainMemoryTyped ==
    ASSUME RestTyped, MainSteps
    PROVE  MemoryTyped'
<1>1. CASE \/ ParseArgs \/ ProbeFails \/ AllocateInterface \/ CreateTap \/ CreateVisSocket
           \/ CreateUnixSocket \/ StartThread \/ BatmanInit \/ NothingToDo \/ Check \/ BatmanStops
           \/ NewVisPacket \/ BatmanReturns
  <2>1. UNCHANGED <<owned, clients_num, log_mutex, crashed, faults>>
    BY <1>1 DEF ParseArgs, ProbeFails, AllocateInterface, CreateTap, CreateVisSocket,
       CreateUnixSocket, StartThread, BatmanInit, NothingToDo, Check, BatmanStops,
       NewVisPacket, BatmanReturns, debugMalloc, checkIntegrity, avars, memory, log
  <2> QED
    BY <2>1, FrameTyped DEF RestTyped
<1>2. CASE SetUpDebug
  <2>1. clients_num' \in {0, 1}
    BY <1>2, DaemonAssumption DEF SetUpDebug
  <2> QED
    BY <1>2, <2>1 DEF SetUpDebug, memory, RestTyped, MemoryTyped
<1>3. CASE AddInterface
  BY <1>3 DEF AddInterface, log, RestTyped, MemoryTyped
<1>4. CASE hna_update \/ Store \/ FreeVisPacket \/ FillVisPacket \/ PurgeAll
  <2>1. ASSUME NEW t \in Threads, NEW c, debugMalloc(t) \/ debugRealloc(t, c)
        PROVE  MemoryTyped'
    BY <2>1, FrameTyped DEF debugMalloc, debugRealloc, log, RestTyped
  <2>2. "main" \in Threads
    BY DaemonAssumption
  <2>3. \E c : debugMalloc("main") \/ debugRealloc("main", c) \/ FreeOwn("main", c)
    BY <1>4 DEF hna_update, Store, FreeVisPacket, FillVisPacket, PurgeAll
  <2> QED
    BY <2>1, <2>2, <2>3, FreeTyped DEF RestTyped
<1>5. CASE cleanup
  BY <1>5 DEF cleanup, memory, RestTyped, MemoryTyped
<1>6. CASE checkLeak
  BY <1>6 DEF checkLeak, memory, RestTyped, MemoryTyped
<1>7. CASE ReceiveFails
  <2>1. Fault /\ UNCHANGED <<owned, clients_num, log_mutex, crashed>>
    BY <1>7 DEF ReceiveFails, memory, log
  <2> QED
    BY <2>1, FaultTyped DEF RestTyped, MemoryTyped
<1> QED
  BY <1>1, <1>2, <1>3, <1>4, <1>5, <1>6, <1>7 DEF MainSteps

LEMMA ListenMemoryTyped ==
    ASSUME RestTyped, ListenSteps
    PROVE  MemoryTyped'
<1>1. "listen" \in Threads
  BY DaemonAssumption
<1>2. CASE LeaveLoop \/ EndThread
  BY <1>2, FrameTyped DEF LeaveLoop, EndThread, avars, memory, log, RestTyped
<1>3. CASE JoinLevel \/ LeaveLevel \/ FreeClients \/ Serve
  <2>1. ASSUME debugMalloc("listen") PROVE MemoryTyped'
    BY <2>1, FrameTyped DEF debugMalloc, log, RestTyped
  <2>2. \E c : debugMalloc("listen") \/ FreeOwn("listen", c)
    BY <1>3 DEF JoinLevel, LeaveLevel, FreeClients, Serve
  <2> QED
    BY <1>1, <2>1, <2>2, FreeTyped DEF RestTyped
<1>4. CASE UnlockLog \/ LockLog
  BY <1>1, <1>4 DEF UnlockLog, LockLog, memory, RestTyped, MemoryTyped
<1>5. CASE SelectFails
  <2>1. Fault /\ UNCHANGED <<owned, clients_num, log_mutex, crashed>>
    BY <1>5 DEF SelectFails, memory, log
  <2> QED
    BY <2>1, FaultTyped DEF RestTyped, MemoryTyped
<1> QED
  BY <1>2, <1>3, <1>4, <1>5 DEF ListenSteps

LEMMA FaultMemoryTyped ==
    ASSUME RestTyped, NEW t \in Threads, FaultStep(t)
    PROVE  RestTyped'
<1>1. Fault /\ UNCHANGED <<owned, clients_num, log_mutex, crashed>> /\ UNCHANGED dvars
  BY DEF FaultStep, GiveUp, Damage, OutOfMemory, FreeForeign, debugFree, memory, log
<1>2. MemoryTyped'
  BY <1>1, FaultTyped DEF RestTyped, MemoryTyped
<1> QED
  BY <1>1, <1>2 DEF RestTyped, LifeTyped, DaemonTyped, dvars, taken

\* Labels after a step of main or of unix_listen.
LEMMA MainLifeTyped ==
    ASSUME RestTyped, MainSteps
    PROVE  LifeTyped'
<1>1. CASE StartThread
  <2>1. PICK started \in {"serve", "none"} : life' = [main |-> "batman_init", listen |-> started]
    BY <1>1 DEF StartThread
  <2>2. life' \in [Threads -> MainLabels \cup ListenLabels]
    BY <2>1, DaemonAssumption DEF MainLabels, ListenLabels
  <2> QED
    BY <1>1, <2>1, <2>2 DEF LifeTyped, MainLabels, ListenLabels
<1>2. CASE ~ StartThread
  <2>1. CASE UNCHANGED life
    BY <1>2, <2>1 DEF RestTyped, LifeTyped
  <2>2. CASE \E label \in MainLabels : Become("main", label)
    BY <1>2, <2>2, MainBecomes DEF RestTyped
  <2>3. UNCHANGED life \/ \E label \in MainLabels : Become("main", label)
    <3>1. CASE ParseArgs \/ ProbeFails \/ SetUpDebug \/ AllocateInterface \/ AddInterface \/ CreateTap
      BY <3>1 DEF ParseArgs, ProbeFails, SetUpDebug, AllocateInterface, AddInterface, CreateTap, dvars, MainLabels
    <3>2. CASE CreateVisSocket \/ CreateUnixSocket \/ BatmanInit \/ hna_update \/ Store \/ NothingToDo
      BY <3>2 DEF CreateVisSocket, CreateUnixSocket, BatmanInit, Return, hna_update, Store, NothingToDo, MainLabels
    <3>3. CASE Check
      BY <3>3 DEF Check, MainLabels
    <3>4. CASE BatmanStops \/ FreeVisPacket \/ NewVisPacket \/ FillVisPacket \/ PurgeAll
      BY <3>4 DEF BatmanStops, FreeVisPacket, NewVisPacket, FillVisPacket, PurgeAll, dvars, MainLabels
    <3>5. CASE BatmanReturns \/ cleanup \/ checkLeak \/ ReceiveFails
      BY <3>5 DEF BatmanReturns, Return, cleanup, checkLeak, ReceiveFails, MainLabels
    <3> QED
      BY <1>2, <3>1, <3>2, <3>3, <3>4, <3>5 DEF MainSteps
  <2> QED
    BY <2>1, <2>2, <2>3
<1> QED
  BY <1>1, <1>2

LEMMA ListenLifeTyped ==
    ASSUME RestTyped, ListenSteps
    PROVE  LifeTyped' /\ life'["main"] = life["main"]
<1>1. UNCHANGED life \/ \E label \in ListenLabels : Become("listen", label)
  BY DEF ListenSteps, JoinLevel, LeaveLevel, UnlockLog, LeaveLoop, FreeClients, EndThread,
     Serve, LockLog, SelectFails, dvars, ListenLabels
<1>2. CASE UNCHANGED life
  BY <1>2 DEF RestTyped, LifeTyped
<1>3. CASE \E label \in ListenLabels : Become("listen", label)
  BY <1>3, ListenBecomes DEF RestTyped
<1> QED
  BY <1>1, <1>2, <1>3

LEMMA MainDaemonTyped ==
    ASSUME RestTyped, MainSteps
    PROVE  DaemonTyped'
<1>1. CASE \/ ProbeFails \/ SetUpDebug \/ AllocateInterface \/ StartThread \/ hna_update \/ Store \/ NothingToDo
           \/ Check \/ BatmanStops \/ FreeVisPacket \/ NewVisPacket \/ FillVisPacket \/ PurgeAll \/ cleanup
  <2>1. UNCHANGED <<returning, exited, stop, vis_server, taken>>
    BY <1>1 DEF ProbeFails, SetUpDebug, AllocateInterface, StartThread, hna_update, Store, NothingToDo,
       Check, BatmanStops, FreeVisPacket, NewVisPacket, FillVisPacket, PurgeAll, cleanup, dvars
  <2> QED
    BY <2>1 DEF RestTyped, DaemonTyped, taken
<1>2. CASE ParseArgs \/ BatmanInit \/ BatmanReturns \/ ReceiveFails \/ checkLeak
  <2>1. UNCHANGED <<stop, vis_server, taken>> /\ returning' \in BOOLEAN /\ exited' \in BOOLEAN
    BY <1>2 DEF ParseArgs, BatmanInit, BatmanReturns, ReceiveFails, checkLeak, Return, RestTyped, DaemonTyped
  <2> QED
    BY <2>1 DEF RestTyped, DaemonTyped, taken
<1>3. CASE AddInterface
  BY <1>3, DaemonAssumption DEF AddInterface, RestTyped, DaemonTyped, MemoryTyped
<1>4. CASE CreateTap
  BY <1>4 DEF CreateTap, RestTyped, DaemonTyped
<1>5. CASE CreateUnixSocket
  BY <1>5 DEF CreateUnixSocket, RestTyped, DaemonTyped
<1>6. CASE CreateVisSocket
  <2>1. PICK o \in Options : vis_server' = o[2]
    BY <1>6 DEF CreateVisSocket
  <2>2. vis_server' \in BOOLEAN
    BY <2>1, DaemonAssumption
  <2> QED
    BY <1>6, <2>2 DEF CreateVisSocket, RestTyped, DaemonTyped, taken
<1> QED
  BY <1>1, <1>2, <1>3, <1>4, <1>5, <1>6 DEF MainSteps

LEMMA ListenDaemonTyped ==
    ASSUME RestTyped, ListenSteps
    PROVE  DaemonTyped'
<1>1. UNCHANGED <<returning, exited, stop, vis_server, taken>>
  BY DEF ListenSteps, JoinLevel, LeaveLevel, UnlockLog, LeaveLoop, FreeClients, EndThread,
     Serve, LockLog, SelectFails, dvars
<1> QED
  BY <1>1 DEF RestTyped, DaemonTyped, taken

LEMMA RestTypedKeeps ==
    ASSUME Next, RestTyped, HeapOk
    PROVE  RestTyped'
<1>1. CASE MainSteps
  BY <1>1, MainMemoryTyped, MainLifeTyped, MainDaemonTyped DEF RestTyped
<1>2. CASE ListenSteps
  BY <1>2, ListenMemoryTyped, ListenLifeTyped, ListenDaemonTyped DEF RestTyped
<1>3. CASE handler
  BY <1>3 DEF handler, RestTyped, LifeTyped, MemoryTyped, DaemonTyped, avars, memory, log, taken
<1>4. ASSUME NEW t \in Threads, Allocator(t), UNCHANGED dvars PROVE RestTyped'
  <2>1. pc[t] = "link" => chunk[t] \in Chunks
    BY DEF HeapOk, Heap, HandsOk, InHand, HeapTyped
  <2> QED
    BY <1>4, <2>1, AllocatorTyped DEF HeapOk
<1> QED
  BY <1>1, <1>2, <1>3, <1>4, NextCases, restore_defaultsTyped, FaultMemoryTyped

-----------------------------------------------------------------------------
(* The lives of the two threads *)

Setup == {"args", "debug", "ifs", "add_if", "tap", "vis", "unix", "thread"}

\* unix_listen is started when main has taken all it needs; a thread that has
\* ended, or waits for the other one to end, is not inside the wrapper; main
\* goes past restore_defaults only in the one of main() and when unix_listen
\* has ended or was never started.
LifeOk ==
    /\ life["main"] \in Setup => life["listen"] = "none"
    /\ life["listen"] \in {"none", "exit"} => pc["listen"] = "idle" /\ owned["listen"] = {}
    /\ life["main"] \in {"join", "cleanup", "leak"} => pc["main"] = "idle"
    /\ life["main"] \in {"cleanup", "leak"} => life["listen"] \in {"none", "exit"} /\ returning
    /\ \A t \in Threads : life[t] = "restore_if" => if_pos[t] \in Chunks
    /\ clients_num = Freed => life["main"] = "leak"

\* What a call of the wrapper does to another thread.
Call(t) == debugMalloc(t) \/ \E c : debugRealloc(t, c) \/ FreeOwn(t, c)

LEMMA CallFacts ==
    ASSUME MemoryTyped, HeapTyped, NEW t \in Threads, Call(t)
    PROVE  /\ pc[t] = "idle" /\ pc'[t] \in {"add", "lock", "report"}
           /\ \A u \in Threads \ {t} : pc'[u] = pc[u] /\ owned'[u] = owned[u]
           /\ owned'[t] \subseteq owned[t]
           /\ UNCHANGED <<clients_num, log_mutex, crashed, faults>>
<1>1. pc[t] = "idle"
  BY DEF Call, debugMalloc, debugRealloc, FreeOwn, debugFree
<1>2. \E label \in {"add", "lock", "report"} : pc' = [pc EXCEPT ![t] = label]
  BY DEF Call, debugMalloc, debugRealloc, FreeOwn, debugFree, NewChunk, CallFree, Goto
<1>3. owned' = owned \/ \E c : owned' = [owned EXCEPT ![t] = @ \ {c}]
  BY DEF Call, debugMalloc, debugRealloc, FreeOwn
<1>4. UNCHANGED <<clients_num, log_mutex, crashed, faults>>
  BY DEF Call, debugMalloc, debugRealloc, FreeOwn, debugFree, log
<1> QED
  BY <1>1, <1>2, <1>3, <1>4 DEF HeapTyped, MemoryTyped

\* What a step of main by itself may do to the labels.
MovesMain ==
    /\ pc["main"] = "idle"
    /\ pc'["listen"] = pc["listen"] /\ owned'["listen"] = owned["listen"]
    /\ \/ life'["listen"] = life["listen"]
       \/ life["main"] = "thread" /\ life'["main"] = "batman_init" /\ life'["listen"] \in {"serve", "none"}
    /\ life'["main"] \in Setup => life["main"] \in Setup
    /\ life'["main"] \notin {"restore_if", "restore_unix", "join", "cleanup"}
    /\ life'["main"] = "leak" => life["main"] \in {"cleanup", "leak"} /\ UNCHANGED <<pc, returning>>
    /\ UNCHANGED if_pos
    /\ clients_num' = Freed => clients_num = Freed \/ life'["main"] = "leak"
    /\ life["main"] = "leak" => life'["main"] = "leak"

LEMMA MainMoves ==
    ASSUME RestTyped, HeapTyped, MainSteps
    PROVE  MovesMain
<1>1. Threads = {"main", "listen"}
  BY DaemonAssumption
<1>2. CASE \/ ParseArgs \/ ProbeFails \/ SetUpDebug \/ AddInterface \/ CreateTap
  <2>1. CASE ParseArgs \/ CreateTap
    BY <1>1, <2>1 DEF MovesMain, ParseArgs, CreateTap, At, Become, taken, avars, memory, log, RestTyped,
       LifeTyped, Setup
  <2>2. CASE ProbeFails
    BY <1>1, <2>2 DEF MovesMain, ProbeFails, At, Goto, taken, dvars, memory, log, RestTyped, HeapTyped, Setup
  <2>3. CASE SetUpDebug
    <3>1. clients_num' # Freed
      BY <2>3, AllocateAssumption, DaemonAssumption DEF SetUpDebug
    <3> QED
      BY <1>1, <2>3, <3>1 DEF MovesMain, SetUpDebug, At, Become, taken, memory, RestTyped, LifeTyped, Setup
  <2>4. CASE AddInterface
    BY <1>1, <2>4 DEF MovesMain, AddInterface, At, Become, log, RestTyped, LifeTyped, MemoryTyped, Setup
  <2> QED
    BY <1>2, <2>1, <2>2, <2>3, <2>4
<1>3. CASE \/ CreateVisSocket \/ CreateUnixSocket \/ StartThread \/ BatmanInit
  BY <1>1, <1>3
     DEF MovesMain, CreateVisSocket, CreateUnixSocket, StartThread, BatmanInit, Return, At, Become,
     taken, avars, memory, log, RestTyped, LifeTyped, Setup
<1>4. CASE \/ NothingToDo \/ BatmanStops \/ BatmanReturns \/ cleanup \/ checkLeak \/ ReceiveFails
  BY <1>1, <1>4
     DEF MovesMain, NothingToDo, BatmanStops, BatmanReturns, cleanup, checkLeak, ReceiveFails, Return,
     At, Become, taken, avars, memory, log, RestTyped, LifeTyped, Setup
<1>5. CASE Check
  BY <1>1, <1>5 DEF MovesMain, Check, checkIntegrity, At, Become, Goto, taken, memory, log, RestTyped,
     LifeTyped, HeapTyped, Setup
<1>6. CASE AllocateInterface \/ hna_update \/ Store \/ FreeVisPacket \/ NewVisPacket \/ FillVisPacket \/ PurgeAll
  <2>1. Call("main") /\ "main" \in Threads
    BY <1>1, <1>6 DEF Call, AllocateInterface, hna_update, Store, FreeVisPacket, NewVisPacket, FillVisPacket, PurgeAll
  <2>2. /\ pc["main"] = "idle" /\ pc'["listen"] = pc["listen"] /\ owned'["listen"] = owned["listen"]
        /\ UNCHANGED clients_num
    BY <1>1, <2>1, CallFacts DEF RestTyped
  <2>3. CASE AllocateInterface \/ hna_update \/ Store \/ NewVisPacket \/ FillVisPacket
    BY <1>1, <2>2, <2>3 DEF MovesMain, AllocateInterface, hna_update, Store, NewVisPacket, FillVisPacket,
       At, Become, taken, RestTyped, LifeTyped, Setup
  <2>4. CASE FreeVisPacket \/ PurgeAll
    BY <1>1, <2>2, <2>4 DEF MovesMain, FreeVisPacket, PurgeAll, At, dvars, taken, Setup
  <2> QED
    BY <1>6, <2>3, <2>4
<1> QED
  BY <1>2, <1>3, <1>4, <1>5, <1>6 DEF MainSteps

\* The same for unix_listen.
MovesListen ==
    /\ pc["listen"] = "idle"
    /\ pc'["main"] = pc["main"] /\ owned'["main"] = owned["main"] /\ life'["main"] = life["main"]
    /\ life["listen"] \in {"serve", "locked", "unlock", "cleanup"}
    /\ life'["listen"] \in {"serve", "locked", "unlock", "cleanup", "exit"}
    /\ life'["listen"] = "exit" => pc'["listen"] = "idle" /\ owned'["listen"] = {}
    /\ UNCHANGED <<clients_num, returning, exited, kept, taken>>

LEMMA ListenMoves ==
    ASSUME RestTyped, HeapTyped, ListenSteps
    PROVE  MovesListen
<1>1. Threads = {"main", "listen"}
  BY DaemonAssumption
<1>2. CASE UnlockLog \/ LeaveLoop \/ EndThread \/ LockLog \/ SelectFails
  BY <1>1, <1>2
     DEF MovesListen, UnlockLog, LeaveLoop, EndThread, LockLog, SelectFails, Serving, At, Become,
     avars, memory, log, RestTyped, LifeTyped
<1>3. CASE JoinLevel \/ LeaveLevel \/ FreeClients \/ Serve
  <2>1. Call("listen") /\ "listen" \in Threads
    BY <1>1, <1>3 DEF Call, JoinLevel, LeaveLevel, FreeClients, Serve
  <2>2. /\ pc["listen"] = "idle" /\ pc'["main"] = pc["main"] /\ owned'["main"] = owned["main"]
        /\ UNCHANGED clients_num
    BY <1>1, <2>1, CallFacts DEF RestTyped
  <2> QED
    BY <1>1, <1>3, <2>2 DEF MovesListen, JoinLevel, LeaveLevel, FreeClients, Serve, Serving, At, Become,
       dvars, RestTyped, LifeTyped
<1> QED
  BY <1>2, <1>3 DEF ListenSteps

LEMMA AllocatorFacts ==
    ASSUME MemoryTyped, HeapTyped, NEW t \in Threads, Allocator(t)
    PROVE  /\ pc[t] # "idle"
           /\ \A u \in Threads \ {t} : pc'[u] = pc[u] /\ owned'[u] = owned[u]
           /\ pc[t] = "report" => pc'[t] = "report"
           /\ pc'[t] \in {"add", "link"} => pc[t] \in {"add", "link"}
           /\ pc[t] \notin {"link"} => owned' = owned
           /\ UNCHANGED <<clients_num, faults>>
<1>1. /\ pc[t] # "idle"
      /\ \E label : pc' = [pc EXCEPT ![t] = label]
      /\ pc[t] = "report" => pc'[t] = "report"
      /\ pc'[t] \in {"add", "link"} => pc[t] \in {"add", "link"}
  <2>1. CASE LockToAdd(t) \/ Link(t) \/ LockToFree(t) \/ WalkOn(t)
    BY <2>1 DEF LockToAdd, Link, LockToFree, WalkOn, Done, CallFree, Goto, HeapTyped
  <2>2. CASE NotListed(t) \/ Unlink(t) \/ free(t)
    BY <2>2 DEF NotListed, Unlink, free, Done, Goto, HeapTyped
  <2>3. CASE CheckChunk(t) \/ EndCheck(t) \/ ReportCrashes(t)
    BY <2>3 DEF CheckChunk, EndCheck, ReportCrashes, Done, Goto, HeapTyped
  <2> QED
    BY <2>1, <2>2, <2>3 DEF Allocator
<1>2. (\E S : owned' = [owned EXCEPT ![t] = S] /\ pc[t] = "link") \/ owned' = owned
  BY DEF Allocator, LockToAdd, Link, LockToFree, WalkOn, NotListed, Unlink, free, CheckChunk, EndCheck,
     ReportCrashes, memory
<1>3. UNCHANGED <<clients_num, faults>>
  BY DEF Allocator, LockToAdd, Link, LockToFree, WalkOn, NotListed, Unlink, free, CheckChunk, EndCheck,
     ReportCrashes, log
<1> QED
  BY <1>1, <1>2, <1>3 DEF HeapTyped, MemoryTyped

LEMMA FaultFacts ==
    ASSUME MemoryTyped, HeapTyped, NEW t \in Threads, FaultStep(t)
    PROVE  /\ life[t] \in Allocating
           /\ life[t] \in {"debug", "ifs"} => pc'[t] = "report"
           /\ \A u \in Threads \ {t} : pc'[u] = pc[u]
           /\ pc'[t] \in {"add", "link"} => pc[t] \in {"add", "link"}
           /\ UNCHANGED <<owned, clients_num, dvars>>
           /\ faults' > 0
<1>1. life[t] \in Allocating
  BY DEF FaultStep, GiveUp, At, Allocating
<1>2. Fault /\ UNCHANGED <<owned, clients_num, dvars>>
  BY DEF FaultStep, GiveUp, Damage, OutOfMemory, FreeForeign, debugFree, memory, log
<1>3. pc' = pc \/ \E label \in {"lock", "report"} : pc' = [pc EXCEPT ![t] = label]
  BY DEF FaultStep, GiveUp, Damage, OutOfMemory, FreeForeign, debugFree, CallFree, Goto
<1>4. life[t] \in {"debug", "ifs"} => pc' = [pc EXCEPT ![t] = "report"]
  BY DEF FaultStep, GiveUp, At, OutOfMemory, Goto
<1> QED
  BY <1>1, <1>2, <1>3, <1>4, FaultTyped DEF HeapTyped

LEMMA LifeOkKeeps ==
    ASSUME Next, RestTyped, HeapTyped, LifeOk
    PROVE  LifeOk'
<1>1. Threads = {"main", "listen"}
  BY DaemonAssumption
<1>2. CASE MainSteps
  <2>1. MovesMain
    BY <1>2, MainMoves
  <2> QED
    BY <1>1, <2>1 DEF MovesMain, LifeOk, Setup
<1>3. CASE ListenSteps
  <2>1. MovesListen
    BY <1>3, ListenMoves
  <2> QED
    BY <1>1, <2>1 DEF MovesListen, taken, LifeOk, Setup
<1>4. CASE handler
  BY <1>4 DEF handler, avars, memory, log, taken, LifeOk
<1>5. ASSUME NEW t \in Threads, Allocator(t), UNCHANGED dvars PROVE LifeOk'
  <2>1. /\ pc[t] # "idle" /\ UNCHANGED clients_num
        /\ \A u \in Threads \ {t} : pc'[u] = pc[u] /\ owned'[u] = owned[u]
    BY <1>5, AllocatorFacts DEF RestTyped
  <2> QED
    BY <1>1, <1>5, <2>1 DEF dvars, taken, LifeOk
<1>6. ASSUME NEW t \in Threads, FaultStep(t) PROVE LifeOk'
  <2>1. /\ life[t] \in Allocating
        /\ \A u \in Threads \ {t} : pc'[u] = pc[u]
        /\ UNCHANGED <<owned, clients_num, dvars>>
    BY <1>6, FaultFacts DEF RestTyped
  <2> QED
    BY <1>1, <2>1 DEF Allocating, dvars, taken, LifeOk
<1>7. ASSUME NEW t \in Threads, restore_defaults(t) PROVE LifeOk'
  <2>1. CASE restore_and_exit(t)
    <3>1. /\ pc[t] = "report" /\ \A u \in Threads \ {t} : pc'[u] = pc[u]
          /\ life' = [life EXCEPT ![t] = "restore_ifs"]
          /\ t # "main" => returning' = returning
          /\ UNCHANGED <<owned, clients_num, if_pos>>
      BY <2>1 DEF restore_and_exit, Report, Done, Goto, Become, memory, log, HeapTyped, RestTyped, DaemonTyped
    <3> QED
      BY <1>1, <3>1 DEF LifeOk, RestTyped, LifeTyped, Setup
  <2>2. CASE NextInterface(t)
    BY <1>1, <2>2 DEF NextInterface, At, Become, avars, memory, log, LifeOk, RestTyped, LifeTyped,
       DaemonTyped, Setup
  <2>3. CASE RemoveInterface(t)
    <3>1. /\ life[t] = "restore_if" /\ pc[t] = "idle"
          /\ \A u \in Threads \ {t} : pc'[u] = pc[u] /\ if_pos'[u] = if_pos[u]
          /\ life' = [life EXCEPT ![t] = "restore_ifs"]
          /\ UNCHANGED <<owned, clients_num, returning>>
      BY <2>3 DEF RemoveInterface, At, Become, debugFree, CallFree, Goto, HeapTyped, RestTyped, DaemonTyped
    <3> QED
      BY <1>1, <3>1 DEF LifeOk, RestTyped, LifeTyped, Setup
  <2>4. CASE RestoreTap(t) \/ RestoreUnix(t)
    BY <1>1, <2>4 DEF RestoreTap, RestoreUnix, At, Become, avars, memory, log, LifeOk, RestTyped, LifeTyped, Setup
  <2>5. CASE Join(t)
    BY <1>1, <2>5 DEF Join, AfterRestore, At, Become, avars, memory, log, taken, LifeOk, RestTyped,
       LifeTyped, Setup
  <2>6. CASE RemoveCrashes(t)
    BY <2>6 DEF RemoveCrashes, memory, dvars, taken, LifeOk
  <2> QED
    BY <1>7, <2>1, <2>2, <2>3, <2>4, <2>5, <2>6 DEF restore_defaults
<1> QED
  BY <1>2, <1>3, <1>4, <1>5, <1>6, <1>7, NextCases

-----------------------------------------------------------------------------
(* What the daemon takes and gives back *)

\* main takes the interfaces, the tap device and the unix socket one after
\* the other, and has none of those that are still to come; a thread that is
\* past a step of restore_defaults has given back what this step is for.
TakenOk ==
    /\ raw_socks \subseteq if_list
    /\ life["main"] \in {"args", "debug", "ifs", "add_if"} => if_list = {}
    /\ life["main"] \in {"args", "debug", "ifs", "add_if", "tap"} => ~ tap_sock
    /\ life["main"] \in {"args", "debug", "ifs", "add_if", "tap", "vis", "unix"} => ~ unix_sock
    /\ \A t \in Threads : life[t] \in {"restore_unix", "join"} => if_list = {} /\ ~ tap_sock
    /\ \A t \in Threads : life[t] = "join" => ~ unix_sock
    /\ life["main"] \in {"cleanup", "leak"} => if_list = {} /\ ~ tap_sock /\ ~ unix_sock
    /\ EverythingReleased

\* A step that takes nothing and does not go to the next stage.
LEMMA SameStage ==
    ASSUME TakenOk, ~ exited, UNCHANGED <<if_list, raw_socks, tap_sock, unix_sock, exited>>,
           \A t \in Threads : life'[t] = life[t] \/ life'[t] \notin {"restore_unix", "join"},
           \/ life'["main"] = life["main"]
           \/ life'["main"] \notin Setup \cup {"cleanup", "leak"}
           \/ life["main"] \in {"args", "debug", "ifs"} /\ life'["main"] \in {"debug", "ifs", "add_if"}
           \/ life["main"] = "cleanup"
    PROVE  TakenOk'
BY DEF TakenOk, Setup, EverythingReleased

LEMMA MainTakes ==
    ASSUME RestTyped, HeapTyped, LifeOk, TakenOk, ~ exited, MainSteps
    PROVE  TakenOk'
<1>1. Threads = {"main", "listen"}
  BY DaemonAssumption
<1>2. MovesMain /\ LifeTyped'
  BY MainMoves, MainLifeTyped
<1>3. \A t \in Threads : life'[t] = life[t] \/ life'[t] \notin {"restore_unix", "join"}
  BY <1>1, <1>2 DEF MovesMain
<1>4. CASE ParseArgs
  <2>1. life["main"] = "args" /\ UNCHANGED taken
    BY <1>4 DEF ParseArgs, At
  <2>2. CASE UNCHANGED exited /\ Become("main", "debug")
    BY <1>1, <2>1, <2>2, <1>3, SameStage DEF Become, taken, RestTyped, LifeTyped
  <2>3. CASE exited' = TRUE /\ UNCHANGED life
    BY <1>1, <2>1, <2>3 DEF TakenOk, EverythingReleased, taken
  <2> QED
    BY <1>4, <2>2, <2>3 DEF ParseArgs
<1>5. CASE ProbeFails \/ SetUpDebug \/ AllocateInterface
  <2>1. UNCHANGED taken /\ UNCHANGED exited
    BY <1>5 DEF ProbeFails, SetUpDebug, AllocateInterface, dvars
  <2>2. \/ life'["main"] = life["main"] \/ life'["main"] = "restore_ifs"
        \/ life["main"] \in {"args", "debug", "ifs"} /\ life'["main"] \in {"debug", "ifs", "add_if"}
    BY <1>1, <1>5 DEF ProbeFails, SetUpDebug, AllocateInterface, At, Become, dvars, RestTyped, LifeTyped
  <2> QED
    BY <1>3, <2>1, <2>2, SameStage DEF taken, Setup
<1>6. CASE AddInterface
  BY <1>1, <1>6 DEF AddInterface, At, Become, TakenOk, EverythingReleased, LifeOk, Setup, RestTyped, LifeTyped
<1>7. CASE CreateTap
  BY <1>1, <1>7 DEF CreateTap, At, Become, TakenOk, EverythingReleased, LifeOk, Setup, RestTyped, LifeTyped
<1>8. CASE CreateVisSocket \/ StartThread
  BY <1>1, <1>8 DEF CreateVisSocket, StartThread, At, Become, taken, TakenOk, EverythingReleased, LifeOk,
     Setup, RestTyped, LifeTyped
<1>9. CASE CreateUnixSocket
  BY <1>1, <1>9 DEF CreateUnixSocket, At, Become, TakenOk, EverythingReleased, LifeOk, Setup, RestTyped, LifeTyped
<1>10. CASE \/ BatmanInit \/ hna_update \/ Store \/ NothingToDo \/ Check \/ BatmanStops \/ FreeVisPacket \/ NewVisPacket
            \/ FillVisPacket \/ PurgeAll \/ BatmanReturns \/ ReceiveFails
  <2>1. UNCHANGED taken /\ UNCHANGED exited /\ life["main"] \notin Setup \cup {"cleanup", "leak"}
    BY <1>10 DEF BatmanInit, hna_update, Store, NothingToDo, Check, BatmanStops, FreeVisPacket, NewVisPacket,
       FillVisPacket, PurgeAll, BatmanReturns, ReceiveFails, At, dvars, Setup
  <2>2. life'["main"] \notin Setup \cup {"cleanup", "leak"}
    BY <1>2, <2>1 DEF MovesMain
  <2> QED
    BY <1>3, <2>1, <2>2, SameStage DEF taken
<1>11. CASE cleanup
  <2>1. UNCHANGED taken /\ UNCHANGED exited /\ life["main"] = "cleanup"
    BY <1>11 DEF cleanup, At
  <2> QED
    BY <1>3, <2>1, SameStage DEF taken
<1>12. CASE checkLeak
  BY <1>12 DEF checkLeak, At, taken, TakenOk, EverythingReleased
<1> QED
  BY <1>4, <1>5, <1>6, <1>7, <1>8, <1>9, <1>10, <1>11, <1>12 DEF MainSteps

LEMMA TakenOkKeeps ==
    ASSUME Next, RestTyped, HeapTyped, LifeOk, TakenOk
    PROVE  TakenOk'
<1>1. Threads = {"main", "listen"} /\ ~ exited
  BY DaemonAssumption, NextCases
<1>2. CASE ListenSteps
  <2>1. MovesListen
    BY <1>2, ListenMoves
  <2> QED
    BY <1>1, <2>1, SameStage DEF MovesListen, taken
<1>3. CASE handler
  BY <1>1, <1>3, SameStage DEF handler, taken
<1>4. ASSUME NEW t \in Threads, UNCHANGED dvars PROVE TakenOk'
  BY <1>1, <1>4, SameStage DEF dvars, taken
<1>5. ASSUME NEW t \in Threads, restore_defaults(t) PROVE TakenOk'
  <2>1. CASE restore_and_exit(t)
    BY <1>1, <2>1 DEF restore_and_exit, Become, TakenOk, EverythingReleased, RestTyped, LifeTyped, Setup
  <2>2. CASE NextInterface(t)
    <3>1. UNCHANGED <<if_list, raw_socks, tap_sock, unix_sock, exited>>
      BY <2>2 DEF NextInterface
    <3>2. life'[t] = "restore_if" /\ \A u \in Threads \ {t} : life'[u] = life[u]
      BY <2>2 DEF NextInterface, Become, RestTyped, LifeTyped
    <3> QED
      BY <1>1, <3>1, <3>2, SameStage DEF Setup
  <2>3. CASE RemoveInterface(t)
    BY <1>1, <2>3 DEF RemoveInterface, Become, TakenOk, EverythingReleased, RestTyped, LifeTyped, Setup
  <2>4. CASE RestoreTap(t)
    BY <1>1, <2>4 DEF RestoreTap, At, Become, TakenOk, EverythingReleased, RestTyped, LifeTyped, Setup
  <2>5. CASE RestoreUnix(t)
    BY <1>1, <2>5 DEF RestoreUnix, At, Become, TakenOk, EverythingReleased, RestTyped, LifeTyped, Setup
  <2>6. CASE Join(t)
    BY <1>1, <2>6 DEF Join, AfterRestore, At, Become, taken, TakenOk, EverythingReleased, RestTyped,
       LifeTyped, Setup
  <2> QED
    BY <1>4, <1>5, <2>1, <2>2, <2>3, <2>4, <2>5, <2>6 DEF restore_defaults, RemoveCrashes
<1>6. ASSUME NEW t \in Threads, FaultStep(t) PROVE TakenOk'
  BY <1>4, <1>6, FaultFacts DEF RestTyped
<1> QED
  BY <1>1, <1>2, <1>3, <1>4, <1>5, <1>6, NextCases, MainTakes

-----------------------------------------------------------------------------
(* Who has the memory, as long as nothing goes wrong *)

Restoring == {"restore_ifs", "restore_if", "restore_unix", "join", "cleanup", "leak"}

\* main owns nothing before batman() but the interface it is making; what it
\* has stored it has freed when it comes back from there, but for the list of
\* our hosts and the last vis packet.
ReturnOk ==
    /\ life["main"] \in (Setup \ {"add_if"}) \cup {"batman_init"} =>
          pc["main"] \in {"idle", "report"} /\ owned["main"] = {}
    /\ returning => /\ life["main"] \in Restoring
                    /\ pc["main"] \notin {"add", "link"}
                    /\ faults = 0 => owned["main"] \subseteq {hna_buff, vis_packet}

LEMMA MainReturns ==
    ASSUME RestTyped, HeapTyped, LifeOk, ReturnOk, MainSteps
    PROVE  ReturnOk'
<1>1. Threads = {"main", "listen"}
  BY DaemonAssumption
<1>2. pc["main"] = "idle"
  BY MainMoves DEF MovesMain
<1>3. CASE ParseArgs \/ ProbeFails \/ SetUpDebug
  BY <1>1, <1>3 DEF ParseArgs, ProbeFails, SetUpDebug, At, Become, Goto, avars, dvars, kept, memory, ReturnOk, Restoring,
     Setup, RestTyped, LifeTyped, HeapTyped
<1>4. CASE AllocateInterface
  BY <1>1, <1>4 DEF AllocateInterface, At, Become, kept, ReturnOk, Restoring, Setup, RestTyped, LifeTyped
<1>5. CASE AddInterface
  BY <1>1, <1>5 DEF AddInterface, At, Become, kept, ReturnOk, Restoring, Setup, RestTyped, LifeTyped, MemoryTyped
<1>6. CASE CreateTap \/ CreateVisSocket \/ CreateUnixSocket \/ StartThread
  BY <1>1, <1>2, <1>6 DEF CreateTap, CreateVisSocket, CreateUnixSocket, StartThread, At, Become, avars, memory, kept,
     ReturnOk, Restoring, Setup, RestTyped, LifeTyped
<1>7. CASE BatmanInit \/ BatmanReturns
  BY <1>1, <1>2, <1>7 DEF BatmanInit, BatmanReturns, Return, At, Become, avars, memory, kept,
     ReturnOk, Restoring, Setup, RestTyped, LifeTyped
<1>8. CASE ReceiveFails
  <2>1. faults' > 0 /\ faults' \in 0..MaxFaults /\ MaxFaults \in Nat
    BY <1>8, FaultTyped, AllocateAssumption DEF ReceiveFails, RestTyped
  <2>2. faults' # 0
    BY <2>1
  <2>3. pc'["main"] = "idle" /\ life'["main"] = "restore_ifs"
    BY <1>1, <1>2, <1>8 DEF ReceiveFails, Return, Become, RestTyped, LifeTyped
  <2> QED
    BY <2>2, <2>3 DEF ReturnOk, Restoring, Setup
<1>9. CASE \/ hna_update \/ Store \/ NothingToDo \/ Check \/ BatmanStops \/ FreeVisPacket \/ NewVisPacket
           \/ FillVisPacket \/ PurgeAll
  <2>1. life["main"] \in {"batman", "check", "vis_packet", "vis_data", "purge"} /\ UNCHANGED returning
    BY <1>9 DEF hna_update, Store, NothingToDo, Check, BatmanStops, FreeVisPacket, NewVisPacket, FillVisPacket, PurgeAll, At, dvars
  <2>2. life'["main"] \in {"batman", "check", "vis_packet", "vis_data", "purge"}
    BY <1>1, <1>9 DEF hna_update, Store, NothingToDo, Check, BatmanStops, FreeVisPacket, NewVisPacket, FillVisPacket, PurgeAll,
       Become, dvars, At, RestTyped, LifeTyped
  <2> QED
    BY <2>1, <2>2 DEF ReturnOk, Restoring, Setup
<1>10. CASE cleanup \/ checkLeak
  BY <1>1, <1>10 DEF cleanup, checkLeak, At, Become, memory, kept, ReturnOk, Restoring, Setup, RestTyped, LifeTyped
<1> QED
  BY <1>3, <1>4, <1>5, <1>6, <1>7, <1>8, <1>9, <1>10 DEF MainSteps

LEMMA ReturnOkKeeps ==
    ASSUME Next, RestTyped, HeapTyped, LifeOk, ReturnOk
    PROVE  ReturnOk'
<1>1. Threads = {"main", "listen"} /\ faults \in Nat
  BY DaemonAssumption, AllocateAssumption DEF RestTyped, MemoryTyped
<1>2. CASE ListenSteps
  <2>1. MovesListen
    BY <1>2, ListenMoves
  <2>2. faults' = 0 => faults = 0
    <3>1. CASE SelectFails
      BY <1>1, <3>1 DEF SelectFails, Fault
    <3>2. CASE ~ SelectFails
      BY <1>2, <3>2 DEF ListenSteps, JoinLevel, LeaveLevel, UnlockLog, LeaveLoop, FreeClients, EndThread,
         Serve, LockLog, debugMalloc, FreeOwn, avars
    <3> QED
      BY <3>1, <3>2
  <2> QED
    BY <2>1, <2>2 DEF MovesListen, kept, ReturnOk
<1>3. CASE handler
  BY <1>3 DEF handler, avars, memory, kept, ReturnOk
<1>4. ASSUME NEW t \in Threads, Allocator(t), UNCHANGED dvars PROVE ReturnOk'
  BY <1>1, <1>4, AllocatorFacts DEF dvars, kept, RestTyped, ReturnOk
<1>5. ASSUME NEW t \in Threads, FaultStep(t) PROVE ReturnOk'
  <2>1. /\ life[t] \in Allocating /\ (life[t] \in {"debug", "ifs"} => pc'[t] = "report")
        /\ \A u \in Threads \ {t} : pc'[u] = pc[u]
        /\ pc'[t] \in {"add", "link"} => pc[t] \in {"add", "link"}
        /\ UNCHANGED <<owned, life, returning>> /\ faults' # 0
    <3>1. faults' > 0 /\ faults' \in Nat
      BY <1>5, FaultFacts, FaultMemoryTyped, AllocateAssumption DEF RestTyped, MemoryTyped
    <3> QED
      BY <1>5, <3>1, FaultFacts DEF RestTyped, dvars
  <2> QED
    BY <1>1, <2>1 DEF Allocating, ReturnOk, Setup
<1>6. ASSUME NEW t \in Threads, restore_defaults(t) PROVE ReturnOk'
  <2>1. CASE restore_and_exit(t)
    <3>1. /\ pc[t] = "report" /\ pc' = [pc EXCEPT ![t] = "idle"]
          /\ life' = [life EXCEPT ![t] = "restore_ifs"]
          /\ returning' => returning /\ t # "main"
          /\ UNCHANGED <<owned, faults, kept>>
      BY <2>1 DEF restore_and_exit, Report, Done, Goto, Become, memory
    <3> QED
      BY <1>1, <3>1 DEF kept, ReturnOk, Restoring, Setup, RestTyped, LifeTyped, HeapTyped
  <2>2. CASE NextInterface(t)
    BY <1>1, <2>2 DEF NextInterface, At, Become, avars, memory, kept, ReturnOk, Restoring, Setup, RestTyped, LifeTyped
  <2>3. CASE RemoveInterface(t)
    <3>1. /\ life[t] = "restore_if" /\ pc[t] = "idle"
          /\ \E label \in {"lock", "report"} : pc' = [pc EXCEPT ![t] = label]
          /\ life' = [life EXCEPT ![t] = "restore_ifs"]
          /\ UNCHANGED <<owned, returning, faults, kept>>
      BY <2>3 DEF RemoveInterface, At, Become, debugFree, CallFree, Goto
    <3> QED
      BY <1>1, <3>1 DEF kept, ReturnOk, Restoring, Setup, RestTyped, LifeTyped, HeapTyped
  <2>4. CASE RestoreTap(t) \/ RestoreUnix(t)
    BY <1>1, <2>4 DEF RestoreTap, RestoreUnix, At, Become, avars, memory, kept, ReturnOk, Restoring, Setup, RestTyped,
       LifeTyped
  <2>5. CASE Join(t)
    BY <1>1, <2>5 DEF Join, AfterRestore, At, Become, avars, memory, kept, ReturnOk, Restoring, Setup, RestTyped, LifeTyped
  <2>6. CASE RemoveCrashes(t)
    BY <2>6 DEF RemoveCrashes, memory, dvars, kept, ReturnOk
  <2> QED
    BY <1>6, <2>1, <2>2, <2>3, <2>4, <2>5, <2>6 DEF restore_defaults
<1> QED
  BY <1>2, <1>3, <1>4, <1>5, <1>6, NextCases, MainReturns

\* A chunk somebody can still reach: the one who owns it, the list of
\* interfaces, or a thread that is putting it into the list of the wrapper or
\* freeing it.
Busy(t) == pc[t] \in {"add", "link", "lock", "walk", "free"}

Reached(c) ==
    \/ c \in if_list
    \/ \E t \in Threads : c \in owned[t] \/ (Busy(t) /\ chunk[t] = c)

AllReached == damaged = {} /\ \A c \in allocated : Reached(c)

ReachedOk == faults = 0 => AllReached

LEMMA NewChunkReached ==
    ASSUME HeapTyped, AllReached, NEW t \in Threads, pc[t] = "idle", NewChunk(t), UNCHANGED <<owned, if_list>>
    PROVE  AllReached'
<1>1. PICK c \in Chunks :
        /\ allocated' = allocated \cup {c}
        /\ damaged' = {d \in damaged : d[1] # c}
        /\ chunk' = [chunk EXCEPT ![t] = c]
        /\ pc' = [pc EXCEPT ![t] = "add"]
  BY DEF NewChunk, Goto
<1>2. /\ chunk'[t] = c /\ Busy(t)' /\ ~ Busy(t)
      /\ \A u \in Threads \ {t} : chunk'[u] = chunk[u] /\ (Busy(u)' <=> Busy(u))
  BY <1>1 DEF HeapTyped, Busy
<1>3. damaged' = {}
  BY <1>1 DEF AllReached
<1> QED
  BY <1>1, <1>2, <1>3 DEF AllReached, Reached

\* A thread begins to free a chunk that it, or the list of interfaces, had.
LEMMA CallFreeReached ==
    ASSUME HeapTyped, AllReached, NEW t \in Threads, NEW c, CallFree(t, c),
           NEW b, b = chunk[t], Busy(t) /\ b \in allocated => Reached(b)',
           UNCHANGED <<allocated, damaged>>,
           \A d \in if_list \ {c} : d \in if_list',
           \A u \in Threads : \A d \in owned[u] \ {c} : d \in owned'[u]
    PROVE  AllReached'
<1>1. ASSUME NEW d \in allocated, d # c, ~ (Busy(t) /\ chunk[t] = d) PROVE Reached(d)'
  <2>1. CASE d \in if_list
    BY <1>1, <2>1 DEF Reached
  <2>2. CASE \E u \in Threads : d \in owned[u]
    BY <1>1, <2>2 DEF Reached
  <2>3. ASSUME NEW u \in Threads, Busy(u), chunk[u] = d PROVE Reached(d)'
    <3>1. u # t
      BY <1>1, <2>3
    <3>2. Busy(u)' /\ chunk'[u] = d
      BY <2>3, <3>1 DEF CallFree, Goto, Busy, HeapTyped
    <3> QED
      BY <3>2 DEF Reached
  <2>4. Reached(d)
    BY DEF AllReached
  <2> QED
    BY <2>1, <2>2, <2>3, <2>4 DEF Reached
<1>2. ASSUME c \in allocated PROVE Reached(c)'
  <2>1. MagicOk(c, "header") = {TRUE}
    BY <1>2 DEF MagicOk, AllReached
  <2>2. pc' = [pc EXCEPT ![t] = "lock"] /\ chunk' = [chunk EXCEPT ![t] = c]
    BY <2>1 DEF CallFree, Goto
  <2> QED
    BY <2>2 DEF Reached, Busy, HeapTyped
<1> QED
  BY <1>1, <1>2 DEF AllReached

\* A step of one thread that keeps its chunk, or none that others rely on.
LEMMA MoveReached ==
    ASSUME AllReached, NEW t \in Threads,
           UNCHANGED <<damaged, if_list, owned>>, allocated' \subseteq allocated,
           \A u \in Threads \ {t} : pc'[u] = pc[u] /\ chunk'[u] = chunk[u],
           Busy(t) /\ chunk[t] \in allocated' => \/ Busy(t)' /\ chunk'[t] = chunk[t]
                                                \/ \E u \in Threads \ {t} : Busy(u) /\ chunk[u] = chunk[t]
    PROVE  AllReached'
<1>1. \A u \in Threads \ {t} : Busy(u)' <=> Busy(u)
  BY DEF Busy
<1>2. ASSUME NEW d \in allocated' PROVE Reached(d)'
  <2>1. Reached(d)
    BY <1>2 DEF AllReached
  <2>2. CASE d \in if_list \/ \E u \in Threads : d \in owned[u]
    BY <2>2 DEF Reached
  <2>3. ASSUME NEW u \in Threads \ {t}, Busy(u), chunk[u] = d PROVE Reached(d)'
    BY <1>1, <2>3 DEF Reached
  <2>4. CASE Busy(t) /\ chunk[t] = d
    BY <1>2, <2>3, <2>4 DEF Reached
  <2> QED
    BY <2>1, <2>2, <2>3, <2>4 DEF Reached
<1> QED
  BY <1>2 DEF AllReached

LEMMA FrameReached ==
    ASSUME AllReached, UNCHANGED <<allocated, damaged, if_list, owned, pc, chunk>>
    PROVE  AllReached'
BY DEF AllReached, Reached, Busy

LEMMA LinkReached ==
    ASSUME HeapTyped, MemoryTyped, AllReached, NEW t \in Threads, Link(t), UNCHANGED if_list
    PROVE  AllReached'
<1>1. /\ owned' = [owned EXCEPT ![t] = (@ \ {old[t]}) \cup {chunk[t]}]
      /\ UNCHANGED <<allocated, damaged>>
  BY DEF Link
<1>2. chunk[t] \in owned'[t] /\ \A u \in Threads : \A d \in owned[u] : d # old[t] => d \in owned'[u]
  BY <1>1 DEF MemoryTyped
<1>3. PICK b : b = chunk[t] /\ b \in owned'[t]
  BY <1>2
<1>4. Reached(b)'
  BY <1>3 DEF Reached
<1>5. CASE old[t] # NULL
  <2>1. CallFree(t, old[t])
    BY <1>5 DEF Link
  <2> QED
    BY <1>1, <1>2, <1>3, <1>4, <2>1, CallFreeReached
<1>6. CASE old[t] = NULL
  <2>1. \A u \in Threads : owned[u] \cap allocated \subseteq owned'[u]
    BY <1>1, <1>2, <1>6, AllocateAssumption DEF MemoryTyped
  <2>2. pc' = [pc EXCEPT ![t] = "idle"] /\ chunk' = [chunk EXCEPT ![t] = NULL]
    BY <1>6 DEF Link, Done, Goto
  <2>3. \A u \in Threads \ {t} : chunk'[u] = chunk[u] /\ (Busy(u)' <=> Busy(u))
    BY <2>2 DEF HeapTyped, Busy
  <2>4. ASSUME NEW d \in allocated PROVE Reached(d)'
    <3>1. Reached(d)
      BY DEF AllReached
    <3>2. CASE d = b
      BY <1>4, <3>2
    <3>3. CASE d # b
      BY <1>3, <2>1, <2>3, <3>1, <3>3 DEF Reached
    <3> QED
      BY <3>2, <3>3
  <2> QED
    BY <1>1, <2>4 DEF AllReached
<1> QED
  BY <1>5, <1>6

LEMMA AllocatorReached ==
    ASSUME HeapOk, MemoryTyped, AllReached, NEW t \in Threads, Allocator(t), UNCHANGED if_list
    PROVE  AllReached'
<1>1. CASE LockToAdd(t) \/ LockToFree(t) \/ WalkOn(t) \/ CheckChunk(t) \/ EndCheck(t) \/ ReportCrashes(t)
  <2>1. UNCHANGED <<allocated, damaged, owned>>
    BY <1>1 DEF LockToAdd, LockToFree, WalkOn, CheckChunk, EndCheck, ReportCrashes, memory
  <2>2. /\ \A u \in Threads \ {t} : pc'[u] = pc[u] /\ chunk'[u] = chunk[u]
        /\ Busy(t) => Busy(t)' /\ chunk'[t] = chunk[t]
    <3>1. CASE LockToAdd(t) \/ LockToFree(t) \/ WalkOn(t)
      BY <3>1 DEF LockToAdd, LockToFree, WalkOn, Goto, position, Busy, HeapOk, HeapTyped
    <3>2. CASE CheckChunk(t) \/ EndCheck(t) \/ ReportCrashes(t)
      BY <3>2 DEF CheckChunk, EndCheck, ReportCrashes, Done, Goto, position, Busy, HeapOk, HeapTyped
    <3> QED
      BY <1>1, <3>1, <3>2
  <2> QED
    BY <2>1, <2>2, MoveReached
<1>2. CASE Link(t)
  BY <1>2, LinkReached DEF HeapOk
<1>3. CASE NotListed(t)
  <2>1. /\ pc[t] = "walk" /\ walker[t] = NULL
        /\ UNCHANGED <<allocated, damaged, owned, chunk>>
        /\ \A u \in Threads \ {t} : pc'[u] = pc[u]
    BY <1>3 DEF NotListed, Goto, memory, position, HeapOk, HeapTyped
  <2>2. PICK s : Heap(s)
    BY DEF HeapOk
  <2>3. PICK i \in 0..Len(s) : Nth(s, i + 1) = NULL /\ \A j \in 1..i : s[j] # chunk[t]
    BY <2>1, <2>2 DEF Heap, WalkAt
  <2>4. \A j \in 1..Len(s) : s[j] # chunk[t]
    <3>1. s \in Seq(Chunks) /\ Len(s) \in Nat
      BY <2>2 DEF Heap, IsList
    <3>2. i + 1 \notin 1..Len(s)
      BY <2>3, <3>1, AllocateAssumption DEF Nth
    <3> QED
      BY <2>3, <3>1, <3>2
  <2>5. ASSUME chunk[t] \in allocated PROVE \E u \in Threads \ {t} : Busy(u) /\ chunk[u] = chunk[t]
    <3>1. chunk[t] \notin Elements(s)
      BY <2>4 DEF Elements
    <3>2. PICK u \in Threads : InHand(u) /\ chunk[u] = chunk[t]
      BY <2>2, <2>5, <3>1 DEF Heap, NoneLost, AllReached
    <3> QED
      BY <2>1, <3>2 DEF InHand, Busy
  <2> QED
    BY <2>1, <2>5, MoveReached
<1>4. CASE Unlink(t)
  <2>1. /\ UNCHANGED <<allocated, damaged, owned, chunk>>
        /\ pc' = [pc EXCEPT ![t] = "free"]
    BY <1>4 DEF Unlink, Goto, memory, position, AllReached
  <2>2. Busy(t)' /\ \A u \in Threads \ {t} : pc'[u] = pc[u]
    BY <2>1 DEF Busy, HeapOk, HeapTyped
  <2> QED
    BY <2>1, <2>2, MoveReached
<1>5. CASE free(t)
  <2>1. /\ UNCHANGED <<damaged, owned>> /\ allocated' = allocated \ {chunk[t]}
        /\ \A u \in Threads \ {t} : pc'[u] = pc[u] /\ chunk'[u] = chunk[u]
    BY <1>5 DEF free, Done, Goto, HeapOk, HeapTyped
  <2> QED
    BY <2>1, MoveReached
<1> QED
  BY <1>1, <1>2, <1>3, <1>4, <1>5 DEF Allocator

LEMMA CallReached ==
    ASSUME HeapTyped, MemoryTyped, AllReached, NEW t \in Threads, Call(t), UNCHANGED if_list
    PROVE  AllReached'
<1>1. pc[t] = "idle" /\ ~ Busy(t)
  BY CallFacts DEF Busy
<1>2. CASE debugMalloc(t)
  BY <1>1, <1>2, NewChunkReached DEF debugMalloc
<1>3. ASSUME NEW c, debugRealloc(t, c) PROVE AllReached'
  <2>1. UNCHANGED owned
    BY <1>3 DEF debugRealloc
  <2>2. CASE NewChunk(t)
    BY <1>1, <2>1, <2>2, NewChunkReached
  <2>3. CASE Goto(t, "report") /\ UNCHANGED <<allocated, damaged, chunk, old>>
    <3>1. \A u \in Threads \ {t} : pc'[u] = pc[u]
      BY <2>3 DEF Goto, HeapTyped
    <3> QED
      BY <1>1, <2>1, <2>3, <3>1, MoveReached
  <2> QED
    BY <1>3, <2>2, <2>3 DEF debugRealloc
<1>4. ASSUME NEW c, FreeOwn(t, c) PROVE AllReached'
  <2>1. /\ CallFree(t, c) /\ UNCHANGED <<allocated, damaged>>
        /\ owned' = [owned EXCEPT ![t] = @ \ {c}]
    BY <1>4 DEF FreeOwn, debugFree
  <2>2. \A u \in Threads : \A d \in owned[u] \ {c} : d \in owned'[u]
    BY <2>1 DEF MemoryTyped
  <2> QED
    BY <1>1, <2>1, <2>2, CallFreeReached
<1> QED
  BY <1>2, <1>3, <1>4 DEF Call

LEMMA ReachedOkKeeps ==
    ASSUME Next, RestTyped, HeapOk, TakenOk, ReachedOk
    PROVE  ReachedOk'
<1>1. Threads = {"main", "listen"} /\ faults \in Nat
  BY DaemonAssumption, AllocateAssumption DEF RestTyped, MemoryTyped
<1>2. HeapTyped /\ MemoryTyped
  BY DEF HeapOk, RestTyped
<1>3. ASSUME NEW t \in Threads, Call(t), UNCHANGED if_list PROVE ReachedOk'
  BY <1>2, <1>3, CallReached, CallFacts DEF ReachedOk
<1>4. ASSUME UNCHANGED <<allocated, damaged, if_list, owned, pc, chunk, faults>> PROVE ReachedOk'
  BY <1>4, FrameReached DEF ReachedOk
<1>5. CASE MainSteps
  <2>1. CASE AllocateInterface \/ hna_update \/ Store \/ FreeVisPacket \/ NewVisPacket \/ FillVisPacket \/ PurgeAll
    <3>1. Call("main") /\ UNCHANGED if_list
      BY <2>1 DEF Call, AllocateInterface, hna_update, Store, FreeVisPacket, NewVisPacket, FillVisPacket, PurgeAll,
         dvars, taken
    <3> QED
      BY <1>1, <1>3, <3>1
  <2>2. CASE \/ ParseArgs \/ SetUpDebug \/ CreateTap \/ CreateVisSocket \/ CreateUnixSocket \/ StartThread
             \/ BatmanInit \/ NothingToDo \/ BatmanStops \/ BatmanReturns \/ cleanup \/ checkLeak
    BY <1>4, <2>2 DEF ParseArgs, SetUpDebug, CreateTap, CreateVisSocket, CreateUnixSocket, StartThread,
       BatmanInit, NothingToDo, BatmanStops, BatmanReturns, cleanup, checkLeak, avars, memory, position, taken
  <2>3. CASE ProbeFails \/ Check
    <3>1. /\ pc["main"] = "idle" /\ UNCHANGED <<allocated, damaged, if_list, owned, chunk, faults>>
          /\ \A u \in Threads \ {"main"} : pc'[u] = pc[u]
      BY <2>3 DEF ProbeFails, Check, checkIntegrity, At, Goto, memory, position, dvars, taken, HeapOk, HeapTyped
    <3>2. ~ Busy("main")
      BY <3>1 DEF Busy
    <3> QED
      BY <1>1, <3>1, <3>2, MoveReached DEF ReachedOk
  <2>4. CASE AddInterface
    <3>1. /\ if_list = {} /\ if_list' = owned["main"] /\ owned' = [owned EXCEPT !["main"] = {}]
          /\ UNCHANGED <<allocated, damaged, pc, chunk, faults>>
      BY <2>4 DEF AddInterface, At, position, TakenOk
    <3>2. owned'["listen"] = owned["listen"]
      BY <1>1, <1>2, <3>1 DEF MemoryTyped
    <3>3. ASSUME AllReached PROVE AllReached'
      BY <1>1, <3>1, <3>2, <3>3 DEF AllReached, Reached, Busy
    <3> QED
      BY <3>1, <3>3 DEF ReachedOk
  <2>5. CASE ReceiveFails
    BY <1>1, <2>5 DEF ReceiveFails, Fault, ReachedOk
  <2> QED
    BY <1>5, <2>1, <2>2, <2>3, <2>4, <2>5 DEF MainSteps
<1>6. CASE ListenSteps
  <2>1. CASE JoinLevel \/ LeaveLevel \/ FreeClients \/ Serve
    <3>1. Call("listen") /\ UNCHANGED if_list
      BY <2>1 DEF Call, JoinLevel, LeaveLevel, FreeClients, Serve, dvars, taken
    <3> QED
      BY <1>1, <1>3, <3>1
  <2>2. CASE UnlockLog \/ LeaveLoop \/ EndThread \/ LockLog
    BY <1>4, <2>2 DEF UnlockLog, LeaveLoop, EndThread, LockLog, avars, memory, position, taken
  <2>3. CASE SelectFails
    BY <1>1, <2>3 DEF SelectFails, Fault, ReachedOk
  <2> QED
    BY <1>6, <2>1, <2>2, <2>3 DEF ListenSteps
<1>7. CASE handler
  BY <1>4, <1>7 DEF handler, avars, memory, position, taken
<1>8. ASSUME NEW t \in Threads, Allocator(t), UNCHANGED dvars PROVE ReachedOk'
  BY <1>2, <1>8, AllocatorReached, AllocatorFacts DEF dvars, taken, ReachedOk
<1>9. ASSUME NEW t \in Threads, FaultStep(t) PROVE ReachedOk'
  <2>1. Fault
    BY <1>9 DEF FaultStep, GiveUp, Damage, OutOfMemory, FreeForeign
  <2> QED
    BY <1>1, <2>1 DEF Fault, ReachedOk
<1>10. ASSUME NEW t \in Threads, restore_defaults(t) PROVE ReachedOk'
  <2>1. CASE restore_and_exit(t)
    <3>1. /\ pc[t] = "report" /\ UNCHANGED <<allocated, damaged, if_list, owned, faults>>
          /\ \A u \in Threads \ {t} : pc'[u] = pc[u] /\ chunk'[u] = chunk[u]
      BY <2>1 DEF restore_and_exit, Report, Done, Goto, memory, HeapOk, HeapTyped
    <3>2. ~ Busy(t)
      BY <3>1 DEF Busy
    <3> QED
      BY <3>1, <3>2, MoveReached DEF ReachedOk
  <2>2. CASE NextInterface(t) \/ RemoveCrashes(t) \/ RestoreTap(t) \/ RestoreUnix(t) \/ Join(t)
    BY <1>4, <2>2 DEF NextInterface, RemoveCrashes, RestoreTap, RestoreUnix, Join, avars, dvars, memory, position,
       taken
  <2>3. CASE RemoveInterface(t)
    <3>1. PICK c : c = if_pos[t]
      OBVIOUS
    <3>2. /\ pc[t] = "idle" /\ CallFree(t, c) /\ UNCHANGED <<allocated, damaged, owned, faults>>
          /\ if_list' = if_list \ {c}
      BY <2>3, <3>1 DEF RemoveInterface, debugFree, At
    <3>3. ~ Busy(t)
      BY <3>2 DEF Busy
    <3> QED
      BY <1>2, <3>2, <3>3, CallFreeReached DEF ReachedOk
  <2> QED
    BY <1>10, <2>1, <2>2, <2>3 DEF restore_defaults
<1> QED
  BY <1>5, <1>6, <1>7, <1>8, <1>9, <1>10, NextCases

-----------------------------------------------------------------------------
(* What main keeps *)

\* A pointer of main is assigned what a call that begins will return.
LEMMA AssignedChunk ==
    ASSUME HeapTyped, NEW c, debugMalloc("main") \/ debugRealloc("main", c), NEW pointer \in Chunks \cup {NULL}
    PROVE  /\ Assigned(pointer) \in Chunks \cup {NULL}
           /\ debugMalloc("main") => Assigned(pointer) \in Chunks
<1>1. "main" \in Threads
  BY DaemonAssumption
<1>2. ASSUME NewChunk("main") PROVE Assigned(pointer) \in Chunks
  BY <1>1, <1>2 DEF NewChunk, Goto, HeapTyped, Assigned
<1>3. ASSUME Goto("main", "report") PROVE Assigned(pointer) \in Chunks \cup {NULL}
  BY <1>1, <1>3 DEF Goto, HeapTyped, Assigned
<1>4. CASE debugMalloc("main")
  BY <1>2, <1>4 DEF debugMalloc
<1>5. CASE debugRealloc("main", c) /\ ~ debugMalloc("main")
  <2>1. NewChunk("main") \/ Goto("main", "report")
    BY <1>5 DEF debugRealloc
  <2> QED
    BY <1>2, <1>3, <1>5, <2>1
<1> QED
  BY <1>4, <1>5

LEMMA KeptOkKeeps ==
    ASSUME Next, RestTyped, HeapTyped, KeptOk
    PROVE  KeptOk'
<1>1. Threads = {"main", "listen"} /\ NULL \notin Chunks
  BY DaemonAssumption, AllocateAssumption
<1>2. ASSUME UNCHANGED kept, life'["main"] = life["main"] \/ life'["main"] # "vis_data" PROVE KeptOk'
  BY <1>2 DEF kept, KeptOk
<1>3. CASE MainSteps
  <2>1. CASE hna_update
    <3>1. \E c : debugMalloc("main") \/ debugRealloc("main", c)
      BY <2>1 DEF hna_update
    <3>2. hna_buff' \in Chunks \cup {NULL}
      BY <2>1, <3>1, AssignedChunk DEF hna_update, KeptOk
    <3>3. life'["main"] = "check" /\ UNCHANGED vis_packet
      BY <1>1, <2>1 DEF hna_update, Become, RestTyped, LifeTyped
    <3> QED
      BY <3>2, <3>3 DEF KeptOk
  <2>2. CASE FreeVisPacket
    BY <2>2 DEF FreeVisPacket, At, KeptOk
  <2>3. CASE NewVisPacket
    <3>1. vis_packet' \in Chunks /\ UNCHANGED hna_buff
      BY <2>3, AssignedChunk DEF NewVisPacket, KeptOk
    <3> QED
      BY <1>1, <3>1 DEF KeptOk
  <2>4. CASE FillVisPacket
    <3>1. vis_packet' \in Chunks \cup {NULL} /\ UNCHANGED hna_buff
      BY <2>4, AssignedChunk DEF FillVisPacket, KeptOk
    <3>2. life'["main"] = "batman"
      BY <1>1, <2>4 DEF FillVisPacket, Become, RestTyped, LifeTyped
    <3> QED
      BY <3>1, <3>2 DEF KeptOk
  <2>5. CASE \/ ParseArgs \/ ProbeFails \/ SetUpDebug \/ AllocateInterface \/ AddInterface \/ CreateTap
             \/ CreateVisSocket \/ CreateUnixSocket \/ StartThread \/ BatmanInit
    BY <1>1, <1>2, <2>5 DEF ParseArgs, ProbeFails, SetUpDebug, AllocateInterface, AddInterface, CreateTap,
       CreateVisSocket, CreateUnixSocket, StartThread, BatmanInit, Return, Become, dvars, RestTyped, LifeTyped
  <2>6. CASE \/ Store \/ NothingToDo \/ Check \/ BatmanStops \/ PurgeAll \/ BatmanReturns \/ cleanup
             \/ checkLeak \/ ReceiveFails
    BY <1>1, <1>2, <2>6 DEF Store, NothingToDo, Check, BatmanStops, PurgeAll, BatmanReturns, cleanup,
       checkLeak, ReceiveFails, Return, Become, dvars, RestTyped, LifeTyped
  <2> QED
    BY <1>3, <2>1, <2>2, <2>3, <2>4, <2>5, <2>6 DEF MainSteps
<1>4. CASE ListenSteps
  BY <1>2, <1>4, ListenMoves DEF MovesListen
<1>5. CASE handler
  BY <1>2, <1>5 DEF handler
<1>6. ASSUME UNCHANGED dvars PROVE KeptOk'
  BY <1>2, <1>6 DEF dvars
<1>7. ASSUME NEW t \in Threads, restore_defaults(t) PROVE KeptOk'
  <2>1. CASE RemoveCrashes(t)
    BY <1>6, <2>1 DEF RemoveCrashes
  <2>2. CASE Join(t)
    BY <1>1, <1>2, <2>2 DEF Join, AfterRestore, Become, RestTyped, LifeTyped
  <2>3. CASE \/ restore_and_exit(t) \/ NextInterface(t) \/ RemoveInterface(t)
             \/ RestoreTap(t) \/ RestoreUnix(t)
    BY <1>1, <1>2, <2>3 DEF restore_and_exit, NextInterface, RemoveInterface, RestoreTap, RestoreUnix, Become,
       RestTyped, LifeTyped
  <2> QED
    BY <1>7, <2>1, <2>2, <2>3 DEF restore_defaults
<1>8. ASSUME NEW t \in Threads, FaultStep(t) PROVE KeptOk'
  BY <1>6, <1>8, FaultFacts DEF RestTyped
<1> QED
  BY <1>3, <1>4, <1>5, <1>6, <1>7, <1>8, NextCases

-----------------------------------------------------------------------------
(* The theorems *)

Inv == RestTyped /\ HeapOk /\ LifeOk /\ TakenOk /\ ReturnOk /\ ReachedOk /\ KeptOk

LEMMA InitOk == Init => Inv
<1> SUFFICES ASSUME Init PROVE Inv
  OBVIOUS
<1>1. Threads = {"main", "listen"} /\ MaxFaults \in Nat
  BY DaemonAssumption, AllocateAssumption
<1>2. RestTyped
  <2>1. LifeTyped
    <3>1. life = [main |-> "args", listen |-> "none"]
      BY DEF Init
    <3> QED
      BY <1>1, <3>1 DEF LifeTyped, MainLabels, ListenLabels
  <2>2. MemoryTyped
    <3>1. 0 \in 0..MaxFaults
      BY <1>1
    <3>2. owned \in [Threads -> SUBSET Chunks] /\ crashed = FALSE
      BY DEF Init, AInit
    <3> QED
      BY <3>1, <3>2 DEF Init, AInit, MemoryTyped
  <2>3. DaemonTyped
    BY DEF Init, DaemonTyped
  <2> QED
    BY <2>1, <2>2, <2>3 DEF RestTyped
<1>3. HeapOk
  <2>1. HeapTyped
    BY DEF Init, AInit, HeapTyped
  <2>2. \A t \in Threads : pc[t] = "idle"
    BY DEF Init, AInit
  <2>3. PICK s : s = <<>>
    OBVIOUS
  <2>4. s \in Seq(Chunks) /\ Len(s) = 0
    BY <2>3
  <2>5. IsList(s, chunkList, next)
    BY <2>4 DEF IsList, Nth, Init, AInit
  <2>6. Elements(s) = {} /\ allocated = {}
    BY <2>4 DEF Elements, Init, AInit
  <2>7. Heap(s)
    BY <2>2, <2>5, <2>6 DEF Heap, HandsOk, NoneLost, InHand
  <2> QED
    BY <2>1, <2>2, <2>7 DEF HeapOk, Locked, HasChunk
<1>4. life["main"] = "args" /\ life["listen"] = "none"
  BY DEF Init
<1>5. LifeOk
  BY <1>1, <1>4, AllocateAssumption DEF Init, AInit, LifeOk
<1>6. TakenOk
  BY <1>1, <1>4 DEF Init, TakenOk, EverythingReleased
<1>7. ReturnOk /\ ReachedOk /\ KeptOk
  BY <1>1, <1>4 DEF Init, AInit, ReturnOk, ReachedOk, AllReached, KeptOk
<1> QED
  BY <1>2, <1>3, <1>5, <1>6, <1>7 DEF Inv

LEMMA HeapOkKeeps ==
    ASSUME Next, Inv
    PROVE  HeapOk'
<1>1. /\ KeptOk /\ owned \in [Threads -> SUBSET Chunks]
      /\ \A t \in Threads : life[t] = "restore_if" => if_pos[t] \in Chunks
  BY DEF Inv, RestTyped, MemoryTyped, LifeOk
<1>2. PICK t \in Threads : HeapStep(t)
  BY <1>1, StepOnHeap
<1> QED
  BY <1>1, <1>2, HeapStepKeeps DEF Inv

LEMMA StepOk == Inv /\ [Next]_vars => Inv'
<1> SUFFICES ASSUME Inv, [Next]_vars PROVE Inv'
  OBVIOUS
<1>1. CASE Next
  <2>1. HeapTyped
    BY DEF Inv, HeapOk
  <2> QED
    BY <1>1, <2>1, HeapOkKeeps, RestTypedKeeps, LifeOkKeeps, TakenOkKeeps, ReturnOkKeeps, ReachedOkKeeps,
       KeptOkKeeps DEF Inv
<1>2. CASE UNCHANGED vars
  <2>1. UNCHANGED <<memory, list, chunk_mutex, pc, position, log, faults, life, returning, exited, stop,
                    vis_server, kept, taken>>
    BY <1>2 DEF vars, avars, dvars
  <2>2. HeapOk'
    BY <2>1, FrameKeeps DEF Inv, memory, list, position
  <2>3. RestTyped'
    BY <2>1 DEF Inv, RestTyped, LifeTyped, MemoryTyped, DaemonTyped, memory, log, taken
  <2>4. LifeOk' /\ TakenOk' /\ ReturnOk' /\ KeptOk'
    BY <2>1 DEF Inv, LifeOk, TakenOk, ReturnOk, KeptOk, EverythingReleased, memory, log, kept, taken
  <2>5. ReachedOk'
    BY <2>1, FrameReached DEF Inv, ReachedOk, memory, position, taken
  <2> QED
    BY <2>2, <2>3, <2>4, <2>5 DEF Inv
<1> QED
  BY <1>1, <1>2

LEMMA InvAlways == Spec => []Inv
BY InitOk, StepOk, PTL DEF Spec

\* The types of what the wrapper and the daemon keep hold in every state, for
\* any number of chunks and faults.
THEOREM TypeCorrect == Spec => []TypeOK
<1>1. Inv => TypeOK
  BY DEF Inv, RestTyped, HeapOk, HeapTyped, LifeTyped, MemoryTyped, DaemonTyped, KeptOk, TypeOK, ATypeOK,
     MainLabels, ListenLabels
<1> QED
  BY <1>1, InvAlways, PTL

\* debugMalloc, debugRealloc and debugFree of both threads keep chunkList a
\* list that ends, of allocated chunks without repetition, and the one way to
\* every chunk that nobody has just taken or given up; whatever the callers
\* damage or free, and wherever the threads are interrupted.
THEOREM WrapperKeepsList == Spec => []ListIsHeap
<1>1. Inv => ListIsHeap
  <2> SUFFICES ASSUME Inv PROVE ListIsHeap
    OBVIOUS
  <2>1. PICK s : Heap(s)
    BY DEF Inv, HeapOk
  <2>2. ListAt[Cardinality(Chunks)] = NULL /\ Listed = Elements(s)
    BY <2>1, ListedAre DEF Heap
  <2> QED
    BY <2>1, <2>2 DEF Heap, NoneLost, InHand, ListIsHeap
<1> QED
  BY <1>1, InvAlways, PTL

\* debugFree hands a chunk to free() at most once, and only when nobody can
\* find it in the list or is putting it there, however often the threads free
\* what they do not own.
THEOREM FreedOnce == Spec => []NoDoubleFree
<1>1. Inv => NoDoubleFree
  <2> SUFFICES ASSUME Inv PROVE NoDoubleFree
    OBVIOUS
  <2>1. PICK s : Heap(s)
    BY DEF Inv, HeapOk
  <2>2. Listed = Elements(s)
    BY <2>1, ListedAre DEF Heap
  <2> QED
    BY <2>1, <2>2 DEF Heap, HandsOk, InHand, NoDoubleFree
<1> QED
  BY <1>1, InvAlways, PTL

\* Wherever starting, running or stopping fails, restore_defaults gives back
\* the tap device, the raw sockets and the unix socket before the process
\* exits.
THEOREM ReleasedBeforeExit == Spec => []EverythingReleased
<1>1. Inv => EverythingReleased
  BY DEF Inv, TakenOk
<1> QED
  BY <1>1, InvAlways, PTL

\* main() frees the memory of debug_clients only when unix_listen has ended or
\* was never started, and without a fault nothing but the list of our hosts
\* and the last vis packet is left when it looks for leaks: batman() returns
\* without freeing these two, and frees all else.
THEOREM CleanedUp == Spec => []CleanedUpLast
<1>1. Inv => CleanedUpLast
  <2> SUFFICES ASSUME Inv PROVE CleanedUpLast
    OBVIOUS
  <2>1. Threads = {"main", "listen"}
    BY DaemonAssumption
  <2>2. clients_num = Freed => life["listen"] \in {"none", "exit"}
    BY DEF Inv, LifeOk
  <2>3. ASSUME At("main", "leak"), faults = 0
        PROVE  allocated \subseteq {hna_buff, vis_packet}
    <3>1. /\ life["main"] = "leak" /\ pc["main"] = "idle"
          /\ pc["listen"] = "idle" /\ owned["listen"] = {} /\ returning /\ if_list = {}
      BY <2>3 DEF At, Inv, LifeOk, TakenOk
    <3>2. owned["main"] \subseteq {hna_buff, vis_packet}
      BY <2>3, <3>1 DEF Inv, ReturnOk
    <3>3. \A c \in allocated : c \in owned["main"]
      BY <2>1, <2>3, <3>1 DEF Inv, ReachedOk, AllReached, Reached, Busy
    <3> QED
      BY <3>2, <3>3
  <2> QED
    BY <2>2, <2>3 DEF CleanedUpLast
<1> QED
  BY <1>1, InvAlways, PTL

=============================================================================
