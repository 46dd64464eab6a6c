-------------------------- MODULE UnixClientsProof --------------------------
(***************************************************************************)
(* Proofs about the clients of the unix socket, for any number of sockets, *)
(* slots and debug levels: the debug lists match the clients, slots belong *)
(* to the clients whose uids they are, and the list a thread is writing to *)
(* does not change under it.                                               *)
(***************************************************************************)
EXTENDS UnixClients, FiniteSetTheorems, SequenceTheorems, WellFoundedInduction, TLAPS

-----------------------------------------------------------------------------
(* Lists without duplicates *)

\* A list of different sockets is no longer than there are sockets.
LEMMA ShortList ==
    ASSUME NEW s \in Seq(Socks), IsInjective(s)
    PROVE  Len(s) <= MaxSock
<1>1. MaxSock \in Nat /\ Len(s) \in Nat
  BY UnixAssumption
<1>2. PICK one \in Int, n \in Int, m \in Int : one = 1 /\ n = Len(s) /\ m = MaxSock /\ n >= 0 /\ m >= 0
  BY <1>1
<1>3. /\ IsFiniteSet(one..n) /\ Cardinality(one..n) = IF one > n THEN 0 ELSE n - one + 1
      /\ IsFiniteSet(one..m) /\ Cardinality(one..m) = IF one > m THEN 0 ELSE m - one + 1
  BY FS_Interval
<1>4. Cardinality(one..n) = n /\ Cardinality(one..m) = m
  BY <1>2, <1>3
<1>5. s \in [one..n -> one..m]
  BY <1>2 DEF Socks
<1>6. CASE n > m
  <2>1. PICK x, y \in one..n : x # y /\ s[x] = s[y]
    BY <1>3, <1>4, <1>5, <1>6, FS_PigeonHole
  <2> QED
    BY <1>2, <2>1 DEF IsInjective
<1> QED
  BY <1>2, <1>6

LEMMA InToSet ==
    ASSUME NEW X, NEW s \in Seq(X)
    PROVE  \A x : x \in ToSet(s) <=> \E i \in 1..Len(s) : s[i] = x
BY DEF ToSet

LEMMA AppendNew ==
    ASSUME NEW X, NEW s \in Seq(X), NEW x \in X
    PROVE  /\ Append(s, x) \in Seq(X)
           /\ Len(Append(s, x)) = Len(s) + 1
           /\ \A i \in 1..Len(s) : Append(s, x)[i] = s[i]
           /\ ToSet(Append(s, x)) = ToSet(s) \cup {x}
           /\ IsInjective(s) /\ x \notin ToSet(s) => IsInjective(Append(s, x))
<1>1. Append(s, x) \in Seq(X)
  OBVIOUS
<1>2. PICK u \in Seq(X) : u = Append(s, x)
  BY <1>1
<1>3. /\ Len(u) = Len(s) + 1 /\ Len(s) \in Nat /\ u[Len(s) + 1] = x
      /\ \A i \in 1..Len(s) : u[i] = s[i]
  BY <1>2
<1>4. \A i \in 1..Len(u) : i \in 1..Len(s) \/ i = Len(s) + 1
  BY <1>3
<1>5. ToSet(u) = ToSet(s) \cup {x}
  <2>1. ASSUME NEW y \in ToSet(u) PROVE y \in ToSet(s) \cup {x}
    BY <1>3, <1>4, InToSet
  <2>2. ASSUME NEW y \in ToSet(s) PROVE y \in ToSet(u)
    BY <1>3, InToSet
  <2>3. x \in ToSet(u)
    BY <1>3, InToSet
  <2> QED
    BY <2>1, <2>2, <2>3
<1>6. ASSUME IsInjective(s), x \notin ToSet(s) PROVE IsInjective(u)
  <2>1. \A i \in 1..Len(s) : u[i] # x
    BY <1>3, <1>6, InToSet
  <2> QED
    BY <1>3, <1>4, <1>6, <2>1 DEF IsInjective
<1> QED
  BY <1>2, <1>3, <1>5, <1>6

LEMMA ConsNew ==
    ASSUME NEW X, NEW s \in Seq(X), NEW x \in X
    PROVE  /\ <<x>> \o s \in Seq(X)
           /\ Len(<<x>> \o s) = Len(s) + 1
           /\ ToSet(<<x>> \o s) = ToSet(s) \cup {x}
           /\ IsInjective(s) /\ x \notin ToSet(s) => IsInjective(<<x>> \o s)
<1>1. <<x>> \in Seq(X) /\ Len(<<x>>) = 1 /\ <<x>>[1] = x
  OBVIOUS
<1>2. PICK u \in Seq(X) : u = <<x>> \o s
  BY <1>1, ConcatProperties
<1>3. /\ Len(u) = 1 + Len(s) /\ Len(s) \in Nat
      /\ \A i \in 1..(1 + Len(s)) : u[i] = IF i <= 1 THEN <<x>>[i] ELSE s[i - 1]
  BY <1>1, <1>2, ConcatProperties
<1>4. u[1] = x /\ \A i \in 1..Len(s) : u[i + 1] = s[i]
  BY <1>1, <1>3
<1>5. \A i \in 1..Len(u) : i = 1 \/ (i - 1 \in 1..Len(s) /\ (i - 1) + 1 = i)
  BY <1>3
<1>6. ToSet(u) = ToSet(s) \cup {x}
  <2>1. ASSUME NEW y \in ToSet(u) PROVE y \in ToSet(s) \cup {x}
    <3>1. PICK i \in 1..Len(u) : u[i] = y
      BY InToSet
    <3>2. CASE i = 1
      BY <1>4, <3>1, <3>2
    <3>3. CASE i # 1
      <4>1. PICK j \in 1..Len(s) : j = i - 1 /\ j + 1 = i
        BY <1>5, <3>3
      <4>2. s[j] = y
        BY <1>4, <3>1, <4>1
      <4> QED
        BY <4>2, InToSet
    <3> QED
      BY <3>2, <3>3
  <2>2. ASSUME NEW y \in ToSet(s) PROVE y \in ToSet(u)
    <3>1. PICK i \in 1..Len(s) : s[i] = y
      BY InToSet
    <3>2. i + 1 \in 1..Len(u)
      BY <1>3
    <3> QED
      BY <1>4, <3>1, <3>2, InToSet
  <2>3. x \in ToSet(u)
    BY <1>3, <1>4, InToSet
  <2> QED
    BY <2>1, <2>2, <2>3
<1>7. ASSUME IsInjective(s), x \notin ToSet(s) PROVE IsInjective(u)
  <2>1. \A i \in 1..Len(s) : s[i] # x
    BY <1>7, InToSet
  <2>2. ASSUME NEW i \in 1..Len(u), NEW j \in 1..Len(u), u[i] = u[j] PROVE i = j
    <3>1. CASE i = 1 /\ j = 1
      BY <3>1
    <3>2. CASE i = 1 /\ j # 1
      BY <1>4, <1>5, <2>1, <2>2, <3>2
    <3>3. CASE i # 1 /\ j = 1
      BY <1>4, <1>5, <2>1, <2>2, <3>3
    <3>4. CASE i # 1 /\ j # 1
      <4>1. i - 1 \in 1..Len(s) /\ j - 1 \in 1..Len(s) /\ s[i - 1] = s[j - 1]
        BY <1>4, <1>5, <2>2, <3>4
      <4>2. i - 1 = j - 1
        BY <1>7, <4>1 DEF IsInjective
      <4> QED
        BY <4>2
    <3> QED
      BY <3>1, <3>2, <3>3, <3>4
  <2> QED
    BY <2>2 DEF IsInjective
<1> QED
  BY <1>2, <1>3, <1>6, <1>7

\* What is left of a list behind its k-th element.
LEMMA SuffixFacts ==
    ASSUME NEW X, NEW s \in Seq(X), NEW k \in 1..Len(s)
    PROVE  LET u == SubSeq(s, k + 1, Len(s))
           IN  /\ u \in Seq(X) /\ Len(u) = Len(s) - k
               /\ ToSet(u) \subseteq ToSet(s)
               /\ IsInjective(s) => IsInjective(u) /\ s[k] \notin ToSet(u)
<1>1. PICK n \in Nat, m \in Nat : n = Len(s) /\ m = k + 1 /\ m <= n + 1
  OBVIOUS
<1>2. \A i \in m..n : s[i] \in X
  BY <1>1
<1>3. PICK u : u = SubSeq(s, m, n)
  OBVIOUS
<1>4. /\ u \in Seq(X) /\ Len(u) = IF m <= n THEN n - m + 1 ELSE 0
      /\ \A i \in 1..(n - m + 1) : u[i] = s[m + i - 1]
  BY <1>2, <1>3, SubSeqProperties
<1>5. Len(u) = n - k
  BY <1>1, <1>4
<1>6. \A i \in 1..Len(u) : i + k \in 1..n /\ u[i] = s[i + k]
  <2> SUFFICES ASSUME NEW i \in 1..Len(u) PROVE i + k \in 1..n /\ u[i] = s[i + k]
    OBVIOUS
  <2>1. i \in 1..(n - m + 1) /\ m + i - 1 = i + k /\ i + k \in 1..n
    BY <1>1, <1>5
  <2> QED
    BY <1>4, <2>1
<1>7. ToSet(u) \subseteq ToSet(s)
  BY <1>1, <1>4, <1>6, InToSet
<1>8. ASSUME IsInjective(s) PROVE IsInjective(u) /\ s[k] \notin ToSet(u)
  <2>1. \A i, j \in 1..n : s[i] = s[j] => i = j
    BY <1>1, <1>8 DEF IsInjective
  <2>2. IsInjective(u)
    <3> SUFFICES ASSUME NEW i \in 1..Len(u), NEW j \in 1..Len(u), u[i] = u[j] PROVE i = j
      BY <1>4 DEF IsInjective
    <3>1. i + k = j + k
      BY <1>6, <2>1
    <3> QED
      BY <3>1
  <2>3. ASSUME NEW i \in 1..Len(u), u[i] = s[k] PROVE FALSE
    <3>1. i + k = k
      BY <1>1, <1>6, <2>1, <2>3
    <3> QED
      BY <3>1
  <2> QED
    BY <1>4, <2>2, <2>3, InToSet
<1> QED
  BY <1>1, <1>3, <1>4, <1>5, <1>7, <1>8

\* The k-th element leaves a list.
LEMMA RemoveAtFacts ==
    ASSUME NEW X, NEW s \in Seq(X), NEW k \in 1..Len(s), IsInjective(s)
    PROVE  /\ RemoveAt(s, k) \in Seq(X) /\ Len(RemoveAt(s, k)) = Len(s) - 1
           /\ ToSet(RemoveAt(s, k)) = ToSet(s) \ {s[k]}
           /\ IsInjective(RemoveAt(s, k))
<1>1. PICK n \in Nat : n = Len(s) /\ k \in 1..n
  OBVIOUS
<1>2. PICK a \in Seq(X) : /\ a = SubSeq(s, 1, k - 1) /\ Len(a) = k - 1
                          /\ \A i \in 1..(k - 1) : a[i] = s[i]
  <2>1. \A i \in 1..(k - 1) : s[i] \in X
    BY <1>1
  <2>2. PICK one \in Int, m \in Int : one = 1 /\ m = k - 1
    OBVIOUS
  <2>3. PICK a : a = SubSeq(s, one, m)
    OBVIOUS
  <2>4. /\ a \in Seq(X) /\ Len(a) = IF one <= m THEN m - one + 1 ELSE 0
        /\ \A i \in 1..(m - one + 1) : a[i] = s[one + i - 1]
    BY <2>1, <2>2, <2>3, SubSeqProperties
  <2>5. Len(a) = k - 1 /\ \A i \in 1..(k - 1) : a[i] = s[i]
    BY <1>1, <2>2, <2>4
  <2> QED
    BY <2>2, <2>3, <2>4, <2>5
<1>3. PICK b \in Seq(X) : /\ b = SubSeq(s, k + 1, n) /\ Len(b) = n - k
                          /\ \A i \in 1..(n - k) : b[i] = s[k + i]
  <2>1. PICK m \in Int : m = k + 1
    OBVIOUS
  <2>2. \A i \in m..n : s[i] \in X
    BY <1>1, <2>1
  <2>3. PICK b : b = SubSeq(s, m, n)
    OBVIOUS
  <2>4. /\ b \in Seq(X) /\ Len(b) = IF m <= n THEN n - m + 1 ELSE 0
        /\ \A i \in 1..(n - m + 1) : b[i] = s[m + i - 1]
    BY <2>2, <2>3, SubSeqProperties
  <2>5. Len(b) = n - k /\ \A i \in 1..(n - k) : b[i] = s[k + i]
    <3>1. \A i \in 1..(n - k) : i \in 1..(n - m + 1) /\ m + i - 1 = k + i
      BY <1>1, <2>1
    <3> QED
      BY <1>1, <2>1, <2>4, <3>1
  <2> QED
    BY <2>1, <2>3, <2>4, <2>5
<1>4. PICK u \in Seq(X) : u = a \o b
  BY ConcatProperties
<1>5. RemoveAt(s, k) = u
  BY <1>1, <1>2, <1>3, <1>4 DEF RemoveAt
<1>6. PICK p \in Nat, q \in Nat : p = k - 1 /\ q = n - k
  <2>1. k - 1 \in Nat /\ n - k \in Nat
    BY <1>1
  <2> QED
    BY <2>1
<1>7. /\ Len(u) = p + q
      /\ \A i \in 1..(p + q) : u[i] = IF i <= p THEN a[i] ELSE b[i - p]
  <2>1. Len(a) = p /\ Len(b) = q
    BY <1>2, <1>3, <1>6
  <2>2. /\ Len(u) = Len(a) + Len(b)
        /\ \A i \in 1..(Len(a) + Len(b)) : u[i] = IF i <= Len(a) THEN a[i] ELSE b[i - Len(a)]
    BY <1>4, ConcatProperties
  <2> QED
    BY ONLY <2>1, <2>2
<1>8. Len(u) = n - 1 /\ p + q = n - 1
  BY <1>1, <1>6, <1>7
<1>9. \A i \in 1..(k - 1) : i \in 1..(n - 1) /\ u[i] = s[i]
  <2> SUFFICES ASSUME NEW i \in 1..(k - 1) PROVE i \in 1..(n - 1) /\ u[i] = s[i]
    OBVIOUS
  <2>1. i \in 1..(n - 1) /\ i <= p
    BY <1>1, <1>6
  <2>2. i \in 1..(p + q)
    BY <1>8, <2>1
  <2>3. u[i] = a[i]
    BY <1>7, <2>1, <2>2
  <2> QED
    BY <1>2, <2>1, <2>3
<1>10. \A i \in k..(n - 1) : u[i] = s[i + 1]
  <2> SUFFICES ASSUME NEW i \in k..(n - 1) PROVE u[i] = s[i + 1]
    OBVIOUS
  <2>1. i \in 1..(p + q) /\ ~ (i <= p) /\ i - p \in 1..(n - k) /\ k + (i - p) = i + 1
    BY <1>1, <1>6, <1>8
  <2>2. u[i] = b[i - p]
    BY <1>7, <2>1
  <2>3. b[i - p] = s[k + (i - p)]
    BY <1>3, <2>1
  <2> QED
    BY <2>1, <2>2, <2>3
<1>11. \A i, j \in 1..n : s[i] = s[j] => i = j
  <2>1. DOMAIN s = 1..n
    BY <1>1
  <2> QED
    BY <2>1 DEF IsInjective
<1> DEFINE old(i) == IF i < k THEN i ELSE i + 1
<1>12. \A i \in 1..(n - 1) : old(i) \in 1..n /\ old(i) # k /\ u[i] = s[old(i)]
  <2> SUFFICES ASSUME NEW i \in 1..(n - 1) PROVE old(i) \in 1..n /\ old(i) # k /\ u[i] = s[old(i)]
    OBVIOUS
  <2>1. CASE i < k
    <3>1. i \in 1..(k - 1) /\ i \in 1..n /\ i # k /\ old(i) = i
      BY <1>1, <2>1
    <3> QED
      BY <1>9, <3>1
  <2>2. CASE i >= k
    <3>1. i \in k..(n - 1) /\ i + 1 \in 1..n /\ i + 1 # k /\ old(i) = i + 1
      BY <1>1, <2>2
    <3> QED
      BY <1>10, <3>1
  <2> QED
    BY <1>1, <2>1, <2>2
<1>13. \A j \in 1..n : j # k => \E i \in 1..(n - 1) : old(i) = j
  <2> SUFFICES ASSUME NEW j \in 1..n, j # k PROVE \E i \in 1..(n - 1) : old(i) = j
    OBVIOUS
  <2>1. CASE j < k
    <3>1. j \in 1..(n - 1) /\ old(j) = j
      BY <1>1, <2>1
    <3> QED
      BY <3>1
  <2>2. CASE j > k
    <3>1. j - 1 \in 1..(n - 1) /\ old(j - 1) = j
      BY <1>1, <2>2
    <3> QED
      BY <3>1
  <2> QED
    BY <1>1, <2>1, <2>2
<1>14. \A i, j \in 1..(n - 1) : old(i) = old(j) => i = j
  BY <1>1
<1> HIDE DEF old
<1>15. IsInjective(u)
  <2> SUFFICES ASSUME NEW i \in 1..(n - 1), NEW j \in 1..(n - 1), u[i] = u[j] PROVE i = j
    BY <1>8 DEF IsInjective
  <2>1. s[old(i)] = s[old(j)] /\ old(i) \in 1..n /\ old(j) \in 1..n
    BY <1>12
  <2>2. old(i) = old(j)
    BY <1>11, <2>1
  <2> QED
    BY <1>14, <2>2
<1>16. ToSet(u) = ToSet(s) \ {s[k]}
  <2>1. ASSUME NEW y \in ToSet(u) PROVE y \in ToSet(s) /\ y # s[k]
    <3>1. PICK i \in 1..(n - 1) : u[i] = y
      BY <1>8, InToSet
    <3>2. PICK j \in 1..n : j # k /\ y = s[j]
      BY <1>12, <3>1
    <3>3. y # s[k]
      BY <1>1, <1>11, <3>2
    <3> QED
      BY <1>1, <3>2, <3>3, InToSet
  <2>2. ASSUME NEW y \in ToSet(s), y # s[k] PROVE y \in ToSet(u)
    <3>1. PICK j \in 1..n : s[j] = y /\ j # k
      BY <1>1, <2>2, InToSet
    <3>2. PICK i \in 1..(n - 1) : old(i) = j
      BY <1>13, <3>1
    <3>3. u[i] = y
      BY <1>12, <3>1, <3>2
    <3> QED
      BY <1>8, <3>3, InToSet
  <2> QED
    BY <2>1, <2>2
<1> QED
  BY <1>1, <1>5, <1>8, <1>15, <1>16

LEMMA RemoveFirstFacts ==
    ASSUME NEW X, NEW s \in Seq(X), NEW x \in ToSet(s), IsInjective(s)
    PROVE  /\ RemoveFirst(s, x) \in Seq(X) /\ Len(RemoveFirst(s, x)) = Len(s) - 1
           /\ ToSet(RemoveFirst(s, x)) = ToSet(s) \ {x}
           /\ IsInjective(RemoveFirst(s, x))
<1>1. PICK k \in 1..Len(s) : s[k] = x
  BY InToSet
<1>2. {i \in 1..Len(s) : s[i] = x} = {k}
  BY <1>1 DEF IsInjective
<1>3. SelectInSeq(s, LAMBDA v : v = x) = k
  <2>1. SelectInSeq(s, LAMBDA v : v = x) = IF {k} # {} THEN Min({k}) ELSE 0
    BY <1>2 DEF SelectInSeq
  <2>2. Min({k}) = k
    BY DEF Min
  <2> QED
    BY <2>1, <2>2
<1>4. RemoveFirst(s, x) = RemoveAt(s, k)
  BY <1>1, <1>3 DEF RemoveFirst
<1>5. PICK u : u = RemoveAt(s, k)
  OBVIOUS
<1>6. u \in Seq(X) /\ Len(u) = Len(s) - 1 /\ ToSet(u) = ToSet(s) \ {s[k]} /\ IsInjective(u)
  BY <1>5, RemoveAtFacts
<1> QED
  BY <1>1, <1>4, <1>5, <1>6
-----------------------------------------------------------------------------
(* The inductive invariant *)

\* Where unix_listen works on one client, and where that client is on no list.
Moving == {"lock_new", "add", "leave", "close"}

AtClient == {"lock_old", "unlink"} \cup Moving

\* The loop is at a client that is connected.  A client in front of another
\* one that left is connected and no longer in the list.
ClientsListed ==
    /\ IsInjective(client_list)
    /\ ToSet(client_list) \subseteq open
    /\ Serving => unix_pos <= Len(client_list) + 1
    /\ pc \in AtClient => unix_pos \in DOMAIN client_list
    /\ pc \in {"lock_old", "unlink"} => debug_level[Client] # 0
    /\ pc \in {"lock_new", "add"} => request # 0

\* Holds also while the lists are taken down, where the counters lag behind.
Counts == \A l \in Levels : Len(fd_list[l]) <= clients_num[l]

DebugOk ==
    Serving =>
        \A l \in Levels :
            /\ clients_num[l] = Len(fd_list[l])
            /\ IsInjective(fd_list[l])
            /\ \A s \in ToSet(fd_list[l]) : debug_level[s] = l /\ s \in open
            /\ \A s \in open : debug_level[s] = l => s \in ToSet(fd_list[l]) \/ (pc \in Moving /\ s = Client)
            /\ pc \in Moving => Client \notin ToSet(fd_list[l])

\* Who walks or changes a list holds its mutex.
LocksOk ==
    /\ \A t \in Threads : debug_pos[t] > 0 => out[t] # 0 /\ mutex[out[t]] = t
    /\ pc \in {"unlink", "add"} => out["listen"] = 0
    /\ pc = "unlink" => mutex[debug_level[Client]] = "listen"
    /\ pc = "add" => mutex[request] = "listen"

SlotsOk ==
    Serving =>
        /\ \A s \in open : uid[s] # 0 => unix_packet[uid[s]] = s \/ (pc = "close" /\ s = Client)
        /\ \A u \in Uids \ {0} : unix_packet[u] # NULL => unix_packet[u] \in open /\ uid[unix_packet[u]] = u
        /\ pc = "close" => \A u \in Uids \ {0} : unix_packet[u] # Client

Inv == TypeOK /\ ClientsListed /\ Counts /\ DebugOk /\ LocksOk /\ SlotsOk

\* What is the same for clients and lists keeps the invariant about them.
LEMMA Frame ==
    ASSUME Inv, UNCHANGED <<clients, debug, loop>>
    PROVE  ClientsListed' /\ Counts' /\ DebugOk' /\ SlotsOk'
<1>1. /\ UNCHANGED <<open, client_list, max_sock, uid, unix_packet, debug_level, fd_list, clients_num>>
      /\ UNCHANGED <<pc, unix_pos, request>>
  BY DEF clients, debug, loop
<1>2. Serving' = Serving /\ Client' = Client
  BY <1>1 DEF Serving, Client
<1>3. ClientsListed' /\ Counts'
  BY <1>1, <1>2 DEF Inv, ClientsListed, Counts
<1>4. DebugOk'
  BY <1>1, <1>2 DEF Inv, DebugOk
<1>5. SlotsOk'
  BY <1>1, <1>2 DEF Inv, SlotsOk
<1> QED
  BY <1>3, <1>4, <1>5

-----------------------------------------------------------------------------
(* debug_output, in either thread, and the main thread *)

LEMMA SilentKeeps ==
    ASSUME Inv, NEW t \in Threads, Silent(t)
    PROVE  Inv'
<1>1. ClientsListed' /\ Counts' /\ DebugOk' /\ SlotsOk'
  BY Frame DEF Silent
<1>2. TypeOK'
  BY DEF Inv, TypeOK, Silent, clients, debug, loop
<1>3. LocksOk'
  BY DEF Inv, TypeOK, LocksOk, Silent, clients, debug, loop, Client, Threads
<1> QED
  BY <1>1, <1>2, <1>3 DEF Inv

LEMMA TryLockKeeps ==
    ASSUME Inv, NEW t \in Threads, TryLock(t)
    PROVE  Inv'
<1>1. ClientsListed' /\ Counts' /\ DebugOk' /\ SlotsOk'
  BY Frame DEF TryLock
<1>2. out[t] \in Levels
  BY DEF Inv, TypeOK, TryLock
<1>3. UNCHANGED <<running, crashed, clients, debug, loop, reply>>
  BY DEF TryLock
<1>4. 1 \in 0..(MaxSock + 1) /\ ErrLevel \in Levels
  BY UnixAssumption
<1>5. CASE mutex[out[t]] = Free
  <2>1. /\ mutex' = [mutex EXCEPT ![out[t]] = t]
        /\ debug_pos' = [debug_pos EXCEPT ![t] = 1]
        /\ out' = out
    BY <1>5 DEF TryLock
  <2>2. TypeOK'
    BY <1>2, <1>3, <1>4, <2>1 DEF Inv, TypeOK, clients, debug, loop
  <2>3. \A r \in Threads : debug_pos'[r] > 0 => out'[r] # 0 /\ mutex'[out'[r]] = r
    <3> SUFFICES ASSUME NEW r \in Threads, debug_pos'[r] > 0 PROVE out'[r] # 0 /\ mutex'[out'[r]] = r
      OBVIOUS
    <3>1. CASE r = t
      BY <1>2, <2>1, <3>1, UnixAssumption DEF Inv, TypeOK
    <3>2. CASE r # t
      <4>1. debug_pos[r] > 0 /\ out[r] \in Levels \cup {0}
        BY <2>1, <3>2 DEF Inv, TypeOK
      <4>2. out[r] # 0 /\ mutex[out[r]] = r
        BY <4>1 DEF Inv, LocksOk
      <4> QED
        BY <1>2, <1>5, <2>1, <4>1, <4>2, UnixAssumption DEF Inv, TypeOK
    <3> QED
      BY <3>1, <3>2
  <2>4. LocksOk'
    BY <1>2, <1>3, <1>5, <2>1, <2>3, UnixAssumption
       DEF Inv, TypeOK, LocksOk, clients, debug, loop, Client, Threads
  <2> QED
    BY <1>1, <2>2, <2>4 DEF Inv
<1>6. CASE mutex[out[t]] # Free
  <2>1. out' = [out EXCEPT ![t] = ErrLevel] /\ UNCHANGED <<mutex, debug_pos>>
    BY <1>6 DEF TryLock
  <2>2. TypeOK'
    <3>1. out' \in [Threads -> Levels \cup {0}]
      BY <1>4, <2>1 DEF Inv, TypeOK
    <3> QED
      BY <1>3, <2>1, <3>1 DEF Inv, TypeOK, clients, debug, loop
  <2>3. LocksOk'
    BY <1>2, <1>3, <2>1, UnixAssumption
       DEF Inv, TypeOK, LocksOk, TryLock, clients, debug, loop, Client, Threads
  <2> QED
    BY <1>1, <2>2, <2>3 DEF Inv
<1> QED
  BY <1>5, <1>6

LEMMA WriteKeeps ==
    ASSUME Inv, NEW t \in Threads, out[t] # 0, debug_pos[t] > 0, Write(t)
    PROVE  Inv'
<1>1. ClientsListed' /\ Counts' /\ DebugOk' /\ SlotsOk'
  BY Frame DEF Write
<1>2. debug_pos[t] + 1 \in 0..(MaxSock + 1)
  <2>1. out[t] \in Levels /\ fd_list[out[t]] \in Seq(Socks) /\ debug_pos[t] \in Nat
    BY DEF Inv, TypeOK
  <2>2. debug_pos[t] <= Len(fd_list[out[t]])
    BY <2>1 DEF Write
  <2>3. Len(fd_list[out[t]]) <= clients_num[out[t]] /\ clients_num[out[t]] \in 0..MaxSock
    BY <2>1 DEF Inv, TypeOK, Counts
  <2> QED
    BY <2>1, <2>2, <2>3, UnixAssumption
<1>3. TypeOK'
  BY <1>2 DEF Inv, TypeOK, Write, clients, debug, loop
<1>4. LocksOk'
  BY DEF Inv, TypeOK, LocksOk, Write, clients, debug, loop, Client, Threads
<1> QED
  BY <1>1, <1>3, <1>4 DEF Inv

LEMMA UnlockKeeps ==
    ASSUME Inv, NEW t \in Threads, out[t] # 0, debug_pos[t] > 0, Unlock(t)
    PROVE  Inv'
<1>1. ClientsListed' /\ Counts' /\ DebugOk' /\ SlotsOk'
  BY Frame DEF Unlock
<1>2. out[t] \in Levels /\ mutex[out[t]] = t
  BY DEF Inv, TypeOK, LocksOk
<1>3. TypeOK'
  BY <1>2, UnixAssumption DEF Inv, TypeOK, Unlock, clients, debug, loop
<1>4. \A r \in Threads : debug_pos'[r] > 0 => out'[r] # 0 /\ mutex'[out'[r]] = r
  <2> SUFFICES ASSUME NEW r \in Threads, debug_pos'[r] > 0 PROVE out'[r] # 0 /\ mutex'[out'[r]] = r
    OBVIOUS
  <2>1. r # t
    BY DEF Inv, TypeOK, Unlock
  <2>2. debug_pos[r] > 0 /\ out'[r] = out[r] /\ out[r] \in Levels \cup {0}
    BY <2>1 DEF Inv, TypeOK, Unlock
  <2>3. out[r] # 0 /\ mutex[out[r]] = r
    BY <2>2 DEF Inv, LocksOk
  <2> QED
    BY <1>2, <2>1, <2>2, <2>3 DEF Inv, TypeOK, Unlock
<1>5. LocksOk'
  BY <1>2, <1>4 DEF Inv, TypeOK, LocksOk, Unlock, clients, debug, loop, Client, Threads
<1> QED
  BY <1>1, <1>3, <1>5 DEF Inv

LEMMA MainKeeps ==
    ASSUME Inv,
           \/ \E l \in Levels : MainOutput(l)
           \/ \E u \in Uids : ReplyTest(u)
           \/ ReplyWrite
           \/ Abort
    PROVE  Inv'
<1>1. ClientsListed' /\ Counts' /\ DebugOk' /\ SlotsOk'
  BY Frame DEF MainOutput, ReplyTest, ReplyWrite, Abort
<1>2. TypeOK'
  BY DEF Inv, TypeOK, MainOutput, ReplyTest, ReplyWrite, Abort, clients, debug, loop, printing
<1>3. LocksOk'
  <2>1. CASE UNCHANGED <<clients, debug, mutex, loop, printing>>
    BY <2>1 DEF Inv, LocksOk, clients, debug, loop, printing, Client
  <2>2. ASSUME NEW l \in Levels, MainOutput(l) PROVE LocksOk'
    BY <2>2 DEF Inv, TypeOK, LocksOk, MainOutput, clients, debug, loop, Client, Threads
  <2> QED
    BY <2>1, <2>2 DEF ReplyTest, ReplyWrite, Abort
<1> QED
  BY <1>1, <1>2, <1>3 DEF Inv
-----------------------------------------------------------------------------
(* unix_listen: what a step that leaves one part alone keeps of it *)

\* The client the loop is at.
LEMMA AtPos ==
    ASSUME Inv, Serving, unix_pos <= Len(client_list)
    PROVE  /\ Client \in Socks /\ Client \in open
           /\ unix_pos \in 1..Len(client_list)
           /\ unix_pos + 1 \in 1..(MaxSock + 1)
           /\ unix_pos + 1 <= Len(client_list) + 1
           /\ max_sock \in 0..MaxSock => Raised(Client) \in 0..MaxSock
<1>1. client_list \in Seq(Socks) /\ unix_pos \in Nat /\ unix_pos >= 1 /\ MaxSock \in Nat
  BY UnixAssumption DEF Inv, TypeOK
<1>2. unix_pos \in 1..Len(client_list)
  BY <1>1
<1>3. Client \in Socks /\ Client \in ToSet(client_list)
  BY <1>1, <1>2, InToSet DEF Client
<1>4. Client \in open
  BY <1>3 DEF Inv, ClientsListed
<1>5. Len(client_list) <= MaxSock
  BY <1>1, ShortList DEF Inv, ClientsListed
<1>6. max_sock \in 0..MaxSock => Raised(Client) \in 0..MaxSock
  BY <1>1, <1>3 DEF Raised, Socks
<1> QED
  BY <1>1, <1>2, <1>3, <1>4, <1>5, <1>6

LEMMA ListFrame ==
    ASSUME Inv, UNCHANGED <<open, client_list>>, pc' \notin AtClient,
           Serving' => unix_pos' <= Len(client_list) + 1
    PROVE  ClientsListed'
BY DEF Inv, ClientsListed, AtClient, Moving

LEMMA DebugFrame ==
    ASSUME Inv, UNCHANGED <<open, debug>>, pc \notin Moving, pc' \notin Moving, Serving' => Serving
    PROVE  Counts' /\ DebugOk'
<1>1. Counts'
  BY DEF Inv, Counts, debug
<1>2. DebugOk'
  BY DEF Inv, DebugOk, debug
<1> QED
  BY <1>1, <1>2

LEMMA SlotsFrame ==
    ASSUME Inv, UNCHANGED <<open, uid, unix_packet>>, pc # "close", pc' # "close", Serving' => Serving
    PROVE  SlotsOk'
BY DEF Inv, SlotsOk

\* unix_listen holds no mutex and prints nothing between two messages.
LEMMA LocksFrame ==
    ASSUME Inv, out["listen"] = 0, UNCHANGED <<mutex, debug_pos>>, out'["main"] = out["main"],
           pc' \notin {"unlink", "add"}
    PROVE  LocksOk'
<1>1. ~ (debug_pos["listen"] > 0)
  BY DEF Inv, LocksOk, Threads
<1> QED
  BY <1>1 DEF Inv, LocksOk, Threads

LEMMA OnlyListen ==
    ASSUME Inv, NEW l \in Levels \cup {0}, out' = [out EXCEPT !["listen"] = l]
    PROVE  out' \in [Threads -> Levels \cup {0}] /\ out'["main"] = out["main"]
BY DEF Inv, TypeOK, Threads

-----------------------------------------------------------------------------
(* unix_listen: the steps *)

LEMMA SimpleKeeps ==
    ASSUME Inv, AcceptFails \/ StartLoop \/ EndLoop \/ StartCleanup \/ Exit
    PROVE  Inv'
<1>1. /\ out["listen"] = 0 /\ pc \in {"select", "loop", "cleanup"}
      /\ pc' \in {"select", "loop", "cleanup", "exit"}
      /\ UNCHANGED <<open, client_list, uid, unix_packet, debug, mutex, debug_pos, crashed, running, reply, request>>
      /\ unix_pos' \in {1, unix_pos} /\ max_sock' \in {0, max_sock}
      /\ Serving' => Serving
  BY DEF AcceptFails, StartLoop, EndLoop, StartCleanup, Exit, At, clients, loop, printing, Serving
<1>2. PICK l \in Levels \cup {0} : out' = [out EXCEPT !["listen"] = l]
  <2>1. CASE UNCHANGED out
    <3>1. out' = [out EXCEPT !["listen"] = 0]
      BY <1>1, <2>1 DEF Inv, TypeOK
    <3> QED
      BY <3>1
  <2>2. CASE AcceptFails \/ StartCleanup
    BY <2>2, UnixAssumption DEF AcceptFails, StartCleanup
  <2> QED
    BY <2>1, <2>2 DEF StartLoop, EndLoop, Exit, printing
<1>3. Serving' => unix_pos' <= Len(client_list) + 1
  <2>1. Len(client_list) \in Nat
    BY DEF Inv, TypeOK
  <2> QED
    BY <1>1, <2>1 DEF Inv, ClientsListed
<1>4. ClientsListed' /\ Counts' /\ DebugOk' /\ SlotsOk'
  <2>1. pc \notin Moving /\ pc' \notin AtClient /\ pc' \notin Moving /\ pc # "close" /\ pc' # "close"
    BY <1>1 DEF Moving, AtClient
  <2> QED
    BY <1>1, <1>3, <2>1, ListFrame, DebugFrame, SlotsFrame
<1>5. LocksOk'
  BY <1>1, <1>2, OnlyListen, LocksFrame
<1>6. TypeOK'
  <2>1. out' \in [Threads -> Levels \cup {0}]
    BY <1>2, OnlyListen
  <2>2. unix_pos' \in 1..(MaxSock + 1) /\ max_sock' \in 0..MaxSock
    <3>1. unix_pos \in 1..(MaxSock + 1) /\ max_sock \in 0..MaxSock
      BY DEF Inv, TypeOK
    <3>2. 1 \in 1..(MaxSock + 1) /\ 0 \in 0..MaxSock
      BY UnixAssumption
    <3> QED
      BY <1>1, <3>1, <3>2
  <2> QED
    BY <1>1, <2>1, <2>2 DEF Inv, TypeOK, debug
<1> QED
  BY <1>4, <1>5, <1>6 DEF Inv

LEMMA IdleKeeps ==
    ASSUME Inv, Idle
    PROVE  Inv'
<1>1. pc = "loop" /\ pc' = "loop" /\ Serving /\ Serving' /\ out["listen"] = 0
  BY DEF Idle, At, Serving
<1>2. unix_pos' = unix_pos + 1 /\ max_sock' = Raised(Client) /\ unix_pos <= Len(client_list)
  BY DEF Idle
<1>3. ClientsListed' /\ Counts' /\ DebugOk' /\ SlotsOk' /\ LocksOk'
  <2>1. pc \notin Moving /\ pc' \notin AtClient /\ pc' \notin Moving
    BY <1>1 DEF Moving, AtClient
  <2>2. /\ UNCHANGED <<open, client_list, uid, unix_packet, debug, mutex, debug_pos>>
        /\ out'["main"] = out["main"]
    BY DEF Idle, printing
  <2> QED
    BY <1>1, <1>2, <2>1, <2>2, AtPos, ListFrame, DebugFrame, SlotsFrame, LocksFrame
<1>4. TypeOK'
  <2>1. unix_pos' \in 1..(MaxSock + 1) /\ max_sock' \in 0..MaxSock
    BY <1>1, <1>2, AtPos DEF Inv, TypeOK
  <2> QED
    BY <2>1 DEF Inv, TypeOK, Idle, debug, printing
<1> QED
  BY <1>3, <1>4 DEF Inv

LEMMA EchoRequestKeeps ==
    ASSUME Inv, EchoRequest
    PROVE  Inv'
<1>1. pc = "loop" /\ pc' = "loop" /\ Serving /\ Serving' /\ out["listen"] = 0
  BY DEF EchoRequest, At, Serving
<1>2. /\ unix_pos' = unix_pos + 1 /\ max_sock' = Raised(Client) /\ unix_pos <= Len(client_list)
      /\ UNCHANGED <<running, crashed, open, client_list, debug, mutex, pc, request, debug_pos, reply>>
  BY DEF EchoRequest
<1>3. PICK l \in Levels \cup {0} : out' = [out EXCEPT !["listen"] = l]
  BY UnixAssumption DEF EchoRequest, handle_packet
<1>4. PICK c \in Socks : c = Client /\ c \in open
  BY <1>1, <1>2, AtPos
<1>5. ClientsListed' /\ Counts' /\ DebugOk' /\ LocksOk'
  <2>1. pc \notin Moving /\ pc' \notin AtClient /\ pc' \notin Moving
    BY <1>1 DEF Moving, AtClient
  <2> QED
    BY <1>1, <1>2, <1>3, <2>1, AtPos, ListFrame, DebugFrame, LocksFrame, OnlyListen
<1>6. ASSUME UNCHANGED <<unix_packet, uid>>
      PROVE  /\ SlotsOk'
             /\ unix_packet' \in [Uids -> Socks \cup {NULL, Freed}] /\ uid' \in [Socks -> Uids]
  <2>1. SlotsOk'
    BY <1>1, <1>2, <1>6, SlotsFrame
  <2>2. unix_packet' \in [Uids -> Socks \cup {NULL, Freed}] /\ uid' \in [Socks -> Uids]
    BY <1>6 DEF Inv, TypeOK
  <2> QED
    BY <2>1, <2>2
<1>7. ASSUME uid[c] = 0, NEW u \in FreeSlot,
             unix_packet' = [unix_packet EXCEPT ![u] = c], uid' = [uid EXCEPT ![c] = u]
      PROVE  /\ SlotsOk'
             /\ unix_packet' \in [Uids -> Socks \cup {NULL, Freed}] /\ uid' \in [Socks -> Uids]
  <2>1. u \in Uids /\ unix_packet[u] = NULL
    BY DEF FreeSlot
  <2>2. /\ unix_packet' \in [Uids -> Socks \cup {NULL, Freed}] /\ uid' \in [Socks -> Uids]
        /\ open \subseteq Socks /\ unix_packet \in [Uids -> Socks \cup {NULL, Freed}] /\ uid \in [Socks -> Uids]
    BY <1>7, <2>1 DEF Inv, TypeOK
  <2>3. ASSUME NEW s \in open, uid'[s] # 0 PROVE unix_packet'[uid'[s]] = s
    <3>1. CASE s = c
      BY <1>7, <2>1, <2>2, <3>1
    <3>2. CASE s # c
      <4>1. uid'[s] = uid[s] /\ uid[s] \in Uids
        BY <1>7, <2>2, <3>2
      <4>2. unix_packet[uid[s]] = s
        BY <1>1, <2>3, <4>1 DEF Inv, SlotsOk
      <4>3. uid[s] # u
        BY <2>1, <2>2, <4>2, UnixAssumption
      <4> QED
        BY <1>7, <2>2, <4>1, <4>2, <4>3
    <3> QED
      BY <3>1, <3>2
  <2>4. ASSUME NEW v \in Uids \ {0}, unix_packet'[v] # NULL
        PROVE  unix_packet'[v] \in open /\ uid'[unix_packet'[v]] = v
    <3>1. CASE v = u
      BY <1>4, <1>7, <2>1, <2>2, <3>1
    <3>2. CASE v # u
      <4>1. unix_packet'[v] = unix_packet[v]
        BY <1>7, <2>2, <3>2
      <4>2. unix_packet[v] \in open /\ uid[unix_packet[v]] = v
        BY <1>1, <2>4, <4>1 DEF Inv, SlotsOk
      <4>3. unix_packet[v] # c
        BY <1>7, <4>2
      <4> QED
        BY <1>7, <2>2, <4>1, <4>2, <4>3
    <3> QED
      BY <3>1, <3>2
  <2>5. SlotsOk'
    BY <1>1, <1>2, <2>3, <2>4 DEF SlotsOk
  <2> QED
    BY <2>2, <2>5
<1>8. SlotsOk' /\ unix_packet' \in [Uids -> Socks \cup {NULL, Freed}] /\ uid' \in [Socks -> Uids]
  BY <1>4, <1>6, <1>7 DEF EchoRequest
<1>9. TypeOK'
  <2>1. unix_pos' \in 1..(MaxSock + 1) /\ max_sock' \in 0..MaxSock
    BY <1>1, <1>2, AtPos DEF Inv, TypeOK
  <2> QED
    BY <1>2, <1>3, <1>8, <2>1, OnlyListen DEF Inv, TypeOK, debug
<1> QED
  BY <1>5, <1>8, <1>9 DEF Inv
LEMMA AcceptKeeps ==
    ASSUME Inv, Accept
    PROVE  Inv'
<1>1. pc = "select" /\ pc' = "select" /\ Serving /\ Serving' /\ out["listen"] = 0
  BY DEF Accept, At, Serving, loop
<1>2. PICK s \in Socks :
        /\ s \notin open
        /\ open' = open \cup {s}
        /\ client_list' = Append(client_list, s)
        /\ max_sock' = Raised(s)
        /\ debug_level' = [debug_level EXCEPT ![s] = 0]
        /\ uid' = [uid EXCEPT ![s] = 0]
        /\ \E p \in {s, Freed} :
              unix_packet' = [u \in Uids |-> IF unix_packet[u] = Freed THEN p ELSE unix_packet[u]]
  <2> DEFINE low == CHOOSE s \in Socks \ open : \A r \in Socks \ open : s <= r
  <2>1. low \in Socks \ open
    <3>1. PICK T : T = Socks \ open /\ T # {} /\ T \subseteq Nat
      <4>1. Socks \subseteq Nat /\ open \subseteq Socks /\ open # Socks
        BY UnixAssumption DEF Inv, TypeOK, Accept, Socks
      <4> QED
        BY <4>1
    <3>2. PICK R : IsWellFoundedOn(R, Nat) /\ \A x, y \in Nat : y < x => <<y, x>> \in R
      <4>1. \A x, y \in Nat : y < x => <<y, x>> \in OpToRel(<, Nat)
        BY DEF OpToRel
      <4> QED
        BY <4>1, NatLessThanWellFounded
    <3>3. PICK b \in T : \A r \in T : ~ (<<r, b>> \in R)
      BY <3>1, <3>2, WFMin
    <3>4. \A r \in Socks \ open : b <= r
      <4> SUFFICES ASSUME NEW r \in T PROVE b <= r
        BY <3>1
      <4>1. ~ (r < b)
        BY <3>1, <3>2, <3>3
      <4>2. r \in Nat /\ b \in Nat
        BY <3>1
      <4> QED
        BY <4>1, <4>2
    <3> QED
      BY <3>1, <3>4
  <2> HIDE DEF low
  <2> QED
    BY <2>1 DEF Accept, low
<1>3. PICK p \in {s, Freed} :
        unix_packet' = [u \in Uids |-> IF unix_packet[u] = Freed THEN p ELSE unix_packet[u]]
  BY <1>2
<1>4. /\ out' = [out EXCEPT !["listen"] = ConnLevel] /\ ConnLevel \in Levels \cup {0}
      /\ UNCHANGED <<running, crashed, fd_list, clients_num, mutex, pc, unix_pos, request, debug_pos, reply>>
  BY UnixAssumption DEF Accept, loop
<1>5. /\ client_list \in Seq(Socks) /\ open \subseteq Socks /\ uid \in [Socks -> Uids]
      /\ debug_level \in [Socks -> Levels \cup {0}] /\ fd_list \in [Levels -> Seq(Socks)]
      /\ unix_packet \in [Uids -> Socks \cup {NULL, Freed}]
  BY DEF Inv, TypeOK
<1>6. TypeOK'
  <2>1. client_list' \in Seq(Socks)
    BY <1>2, <1>5, AppendNew
  <2>2. max_sock' \in 0..MaxSock
    BY <1>2, UnixAssumption DEF Inv, TypeOK, Raised, Socks
  <2>3. 0 \in Uids
    BY UnixAssumption DEF Uids
  <2>4. unix_packet' \in [Uids -> Socks \cup {NULL, Freed}]
    BY <1>3, <1>5
  <2> QED
    BY <1>2, <1>4, <2>1, <2>2, <2>3, <2>4, OnlyListen DEF Inv, TypeOK
<1>7. ClientsListed'
  <2>1. s \notin ToSet(client_list)
    BY <1>2 DEF Inv, ClientsListed
  <2>2. IsInjective(client_list') /\ ToSet(client_list') \subseteq open'
    BY <1>2, <1>5, <2>1, AppendNew DEF Inv, ClientsListed
  <2>3. unix_pos' <= Len(client_list') + 1
    <3>1. Len(client_list') = Len(client_list) + 1 /\ Len(client_list) \in Nat
      BY <1>2, <1>5, AppendNew
    <3>2. unix_pos \in Nat /\ unix_pos <= Len(client_list) + 1
      BY <1>1 DEF Inv, TypeOK, ClientsListed
    <3> QED
      BY <1>4, <3>1, <3>2
  <2> QED
    BY <1>1, <2>2, <2>3 DEF ClientsListed, AtClient, Moving
<1>8. Counts'
  BY <1>4 DEF Inv, Counts
<1>9. DebugOk'
  <2> SUFFICES ASSUME NEW l \in Levels
               PROVE  /\ clients_num'[l] = Len(fd_list'[l])
                      /\ IsInjective(fd_list'[l])
                      /\ \A r \in ToSet(fd_list'[l]) : debug_level'[r] = l /\ r \in open'
                      /\ \A r \in open' : debug_level'[r] = l => r \in ToSet(fd_list'[l])
    BY <1>1 DEF DebugOk, Moving
  <2>1. /\ clients_num[l] = Len(fd_list[l])
        /\ IsInjective(fd_list[l])
        /\ \A r \in ToSet(fd_list[l]) : debug_level[r] = l /\ r \in open
        /\ \A r \in open : debug_level[r] = l => r \in ToSet(fd_list[l])
    BY <1>1 DEF Inv, DebugOk, Moving
  <2>2. l # 0
    BY UnixAssumption
  <2> QED
    BY <1>2, <1>4, <1>5, <2>1, <2>2
<1>10. LocksOk'
  BY <1>1, <1>4, LocksFrame, OnlyListen
<1>11. SlotsOk'
  <2>1. /\ \A r \in open : uid[r] # 0 => unix_packet[uid[r]] = r
        /\ \A u \in Uids \ {0} : unix_packet[u] # NULL => unix_packet[u] \in open /\ uid[unix_packet[u]] = u
    BY <1>1 DEF Inv, SlotsOk
  <2>2. Freed \notin Socks /\ NULL # Freed
    BY UnixAssumption
  <2>3. \A u \in Uids : unix_packet[u] # Freed => unix_packet'[u] = unix_packet[u]
    BY <1>3
  <2>4. \A u \in Uids \ {0} : unix_packet'[u] = unix_packet[u]
    BY <1>5, <2>1, <2>2, <2>3
  <2>5. \A r \in open' : uid'[r] # 0 => unix_packet'[uid'[r]] = r
    BY <1>2, <1>5, <2>1, <2>4
  <2>6. \A u \in Uids \ {0} : unix_packet'[u] # NULL => unix_packet'[u] \in open' /\ uid'[unix_packet'[u]] = u
    BY <1>2, <1>5, <2>1, <2>4
  <2> QED
    BY <1>1, <2>5, <2>6 DEF SlotsOk
<1> QED
  BY <1>6, <1>7, <1>8, <1>9, <1>10, <1>11 DEF Inv

\* A client asks for a level, or has left.
LEMMA DemandKeeps ==
    ASSUME Inv, HangUp \/ \E l \in Levels : DebugRequest(l)
    PROVE  Inv'
<1>1. /\ pc = "loop" /\ out["listen"] = 0 /\ unix_pos <= Len(client_list)
      /\ UNCHANGED <<running, crashed, open, client_list, uid, unix_packet, debug, mutex, unix_pos, debug_pos, reply>>
      /\ request' \in Levels \cup {0} /\ max_sock' \in {max_sock, Raised(Client)}
      /\ pc' \in {"lock_old", "lock_new", "leave"}
      /\ pc' = "lock_old" <=> debug_level[Client] # 0
      /\ pc' = "lock_new" => request' # 0
  BY UnixAssumption DEF HangUp, DebugRequest, At, clients, printing
<1>2. PICK l \in Levels \cup {0} : out' = [out EXCEPT !["listen"] = l]
  <2>1. CASE HangUp
    BY <2>1, UnixAssumption DEF HangUp
  <2>2. CASE UNCHANGED out
    <3>1. out' = [out EXCEPT !["listen"] = 0]
      BY <1>1, <2>2 DEF Inv, TypeOK
    <3> QED
      BY <3>1
  <2> QED
    BY <2>1, <2>2 DEF DebugRequest, printing
<1>3. Serving /\ Serving' /\ Client' = Client
  BY <1>1 DEF Serving, Client
<1>4. Client \in open /\ unix_pos \in DOMAIN client_list /\ max_sock' \in 0..MaxSock
  <2>1. client_list \in Seq(Socks) /\ max_sock \in 0..MaxSock
    BY DEF Inv, TypeOK
  <2>2. Client \in open /\ unix_pos \in 1..Len(client_list) /\ Raised(Client) \in 0..MaxSock
    BY <1>1, <1>3, <2>1, AtPos
  <2> QED
    BY <1>1, <2>1, <2>2
<1>5. TypeOK'
  BY <1>1, <1>2, <1>4, OnlyListen DEF Inv, TypeOK, debug
<1>6. ClientsListed'
  BY <1>1, <1>3, <1>4 DEF Inv, ClientsListed, debug
<1>7. Counts'
  BY <1>1 DEF Inv, Counts, debug
<1>8. DebugOk'
  <2>1. ASSUME NEW k \in Levels, pc' \in Moving PROVE Client \notin ToSet(fd_list[k])
    <3>1. debug_level[Client] = 0
      BY <1>1, <2>1 DEF Moving
    <3> QED
      BY <1>3, <3>1, UnixAssumption DEF Inv, DebugOk
  <2> QED
    BY <1>1, <1>3, <2>1 DEF Inv, DebugOk, Moving, debug
<1>9. LocksOk'
  BY <1>1, <1>2, LocksFrame, OnlyListen
<1>10. SlotsOk'
  BY <1>1, <1>3, SlotsFrame
<1> QED
  BY <1>5, <1>6, <1>7, <1>8, <1>9, <1>10 DEF Inv
LEMMA LockOldKeeps ==
    ASSUME Inv, LockOld
    PROVE  Inv'
<1>1. /\ pc = "lock_old" /\ pc' = "unlink" /\ out["listen"] = 0 /\ out' = out
      /\ mutex[debug_level[Client]] = Free
      /\ mutex' = [mutex EXCEPT ![debug_level[Client]] = "listen"]
      /\ UNCHANGED <<running, crashed, open, client_list, max_sock, uid, unix_packet, debug, unix_pos, request,
                     debug_pos, reply>>
  BY DEF LockOld, At, clients, printing
<1>2. Serving /\ Serving' /\ Client' = Client /\ pc \notin Moving /\ pc' \notin Moving
  BY <1>1 DEF Serving, Client, Moving
<1>3. unix_pos \in DOMAIN client_list /\ Client \in Socks /\ debug_level[Client] \in Levels
  <2>1. unix_pos \in DOMAIN client_list /\ debug_level[Client] # 0
    BY <1>1 DEF Inv, ClientsListed, AtClient
  <2>2. Client \in Socks
    BY <2>1 DEF Inv, TypeOK, Client
  <2> QED
    BY <2>1, <2>2 DEF Inv, TypeOK
<1>4. TypeOK'
  BY <1>1, <1>3 DEF Inv, TypeOK, debug, Threads
<1>5. ClientsListed'
  BY <1>1, <1>2, <1>3, UnixAssumption DEF Inv, ClientsListed, debug
<1>6. Counts' /\ DebugOk' /\ SlotsOk'
  BY <1>1, <1>2, DebugFrame, SlotsFrame
<1>7. LocksOk'
  <2>1. ~ (debug_pos["listen"] > 0)
    BY <1>1 DEF Inv, LocksOk, Threads
  <2>2. debug_pos["main"] > 0 => out["main"] # 0 /\ mutex[out["main"]] = "main"
    BY DEF Inv, LocksOk, Threads
  <2>3. out["main"] \in Levels \cup {0} /\ mutex \in [Levels -> Threads \cup {Free}]
    BY DEF Inv, TypeOK, Threads
  <2>4. debug_pos'["main"] > 0 => out'["main"] # 0 /\ mutex'[out'["main"]] = "main"
    BY <1>1, <1>3, <2>2, <2>3, UnixAssumption DEF Threads
  <2>5. mutex'[debug_level'[Client']] = "listen"
    BY <1>1, <1>2, <1>3, <2>3 DEF debug
  <2> QED
    BY <1>1, <2>1, <2>4, <2>5 DEF LocksOk, Threads
<1> QED
  BY <1>4, <1>5, <1>6, <1>7 DEF Inv

LEMMA LockNewKeeps ==
    ASSUME Inv, LockNew
    PROVE  Inv'
<1>1. /\ pc = "lock_new" /\ pc' = "add" /\ out["listen"] = 0 /\ out' = out
      /\ mutex[request] = Free
      /\ mutex' = [mutex EXCEPT ![request] = "listen"]
      /\ UNCHANGED <<running, crashed, open, client_list, max_sock, uid, unix_packet, debug, unix_pos, request,
                     debug_pos, reply>>
  BY DEF LockNew, At, clients, printing
<1>2. Serving /\ Serving' /\ Client' = Client /\ pc \in Moving /\ pc' \in Moving
  BY <1>1 DEF Serving, Client, Moving
<1>3. unix_pos \in DOMAIN client_list /\ request \in Levels
  BY <1>1 DEF Inv, TypeOK, ClientsListed, AtClient, Moving
<1>4. TypeOK'
  BY <1>1, <1>3 DEF Inv, TypeOK, debug, Threads
<1>5. ClientsListed'
  BY <1>1, <1>2, <1>3, UnixAssumption DEF Inv, ClientsListed, debug
<1>6. Counts' /\ DebugOk'
  BY <1>1, <1>2 DEF Inv, Counts, DebugOk, debug
<1>7. SlotsOk'
  BY <1>1, <1>2, SlotsFrame
<1>8. LocksOk'
  <2>1. ~ (debug_pos["listen"] > 0)
    BY <1>1 DEF Inv, LocksOk, Threads
  <2>2. debug_pos["main"] > 0 => out["main"] # 0 /\ mutex[out["main"]] = "main"
    BY DEF Inv, LocksOk, Threads
  <2>3. out["main"] \in Levels \cup {0} /\ mutex \in [Levels -> Threads \cup {Free}]
    BY DEF Inv, TypeOK, Threads
  <2>4. debug_pos'["main"] > 0 => out'["main"] # 0 /\ mutex'[out'["main"]] = "main"
    BY <1>1, <1>3, <2>2, <2>3, UnixAssumption DEF Threads
  <2>5. mutex'[request'] = "listen"
    BY <1>1, <1>3, <2>3
  <2> QED
    BY <1>1, <2>1, <2>4, <2>5 DEF LocksOk, Threads
<1> QED
  BY <1>4, <1>5, <1>6, <1>7, <1>8 DEF Inv

\* unix_listen gives the mutex of a list back.
LEMMA GivesBack ==
    ASSUME Inv, out["listen"] = 0, out' = out, debug_pos' = debug_pos, pc' \notin {"unlink", "add"},
           NEW l \in Levels, mutex[l] = "listen", mutex' = [mutex EXCEPT ![l] = Free]
    PROVE  LocksOk' /\ mutex' \in [Levels -> Threads \cup {Free}]
<1>1. ~ (debug_pos["listen"] > 0)
  BY DEF Inv, LocksOk, Threads
<1>2. debug_pos["main"] > 0 => out["main"] # 0 /\ mutex[out["main"]] = "main"
  BY DEF Inv, LocksOk, Threads
<1>3. out["main"] \in Levels \cup {0} /\ mutex \in [Levels -> Threads \cup {Free}]
  BY DEF Inv, TypeOK, Threads
<1>4. debug_pos'["main"] > 0 => out'["main"] # 0 /\ mutex'[out'["main"]] = "main"
  BY <1>2, <1>3
<1> QED
  BY <1>1, <1>3, <1>4 DEF LocksOk, Threads

LEMMA LeaveKeeps ==
    ASSUME Inv, Leave
    PROVE  Inv'
<1>1. /\ pc = "leave" /\ pc' = "close" /\ out["listen"] = 0
      /\ unix_packet' = IF uid[Client] # 0 THEN [unix_packet EXCEPT ![uid[Client]] = NULL] ELSE unix_packet
      /\ out' = [out EXCEPT !["listen"] = ConnLevel] /\ ConnLevel \in Levels \cup {0}
      /\ UNCHANGED <<running, crashed, open, client_list, max_sock, uid, debug, mutex, unix_pos, request,
                     debug_pos, reply>>
  BY UnixAssumption DEF Leave, At
<1>2. Serving /\ Serving' /\ Client' = Client /\ pc \in Moving /\ pc' \in Moving
  BY <1>1 DEF Serving, Client, Moving
<1>3. unix_pos \in DOMAIN client_list
  BY <1>1 DEF Inv, ClientsListed, AtClient, Moving
<1>4. PICK c \in Socks : c = Client /\ c \in open
  <2>1. unix_pos <= Len(client_list)
    BY <1>3 DEF Inv, TypeOK
  <2> QED
    BY <1>2, <2>1, AtPos
<1>5. /\ open \subseteq Socks /\ uid \in [Socks -> Uids]
      /\ unix_packet \in [Uids -> Socks \cup {NULL, Freed}]
  BY DEF Inv, TypeOK
<1>6. unix_packet' \in [Uids -> Socks \cup {NULL, Freed}]
  BY <1>1, <1>4, <1>5
<1>7. TypeOK'
  BY <1>1, <1>6, OnlyListen DEF Inv, TypeOK, debug
<1>8. ClientsListed'
  BY <1>1, <1>2, <1>3 DEF Inv, ClientsListed, debug
<1>9. Counts' /\ DebugOk'
  BY <1>1, <1>2 DEF Inv, Counts, DebugOk, debug
<1>10. LocksOk'
  BY <1>1, LocksFrame, OnlyListen
<1>11. SlotsOk'
  <2>1. /\ \A r \in open : uid[r] # 0 => unix_packet[uid[r]] = r
        /\ \A u \in Uids \ {0} : unix_packet[u] # NULL => unix_packet[u] \in open /\ uid[unix_packet[u]] = u
    BY <1>1, <1>2 DEF Inv, SlotsOk
  <2>2. \A u \in Uids : unix_packet'[u] = IF uid[c] # 0 /\ u = uid[c] THEN NULL ELSE unix_packet[u]
    BY <1>1, <1>4, <1>5
  <2>3. \A r \in open : uid[r] # 0 => unix_packet'[uid[r]] = r \/ r = c
    BY <1>4, <1>5, <2>1, <2>2
  <2>4. \A u \in Uids \ {0} : unix_packet'[u] # NULL => unix_packet'[u] \in open /\ uid[unix_packet'[u]] = u
    BY <2>1, <2>2
  <2>5. \A u \in Uids \ {0} : unix_packet'[u] # c
    BY <1>4, <2>1, <2>2, UnixAssumption
  <2> QED
    BY <1>1, <1>2, <1>4, <2>3, <2>4, <2>5 DEF SlotsOk
<1> QED
  BY <1>7, <1>8, <1>9, <1>10, <1>11 DEF Inv
LEMMA CloseKeeps ==
    ASSUME Inv, Close
    PROVE  Inv'
<1>1. /\ pc = "close" /\ pc' = "loop" /\ out["listen"] = 0 /\ out' = out
      /\ open' = open \ {Client}
      /\ client_list' = SubSeq(client_list, unix_pos + 1, Len(client_list))
      /\ unix_packet' = Dangling(Client)
      /\ unix_pos' = 1
      /\ UNCHANGED <<running, crashed, max_sock, uid, debug, mutex, request, debug_pos, reply>>
  BY DEF Close, At, printing
<1>2. Serving /\ Serving' /\ pc \in Moving /\ pc' \notin Moving /\ pc' \notin AtClient
  BY <1>1 DEF Serving, Moving, AtClient
<1>3. unix_pos \in 1..Len(client_list)
  BY <1>1 DEF Inv, TypeOK, ClientsListed, AtClient, Moving
<1>4. PICK c \in Socks : c = Client /\ c \in open
  <2>1. unix_pos <= Len(client_list)
    BY <1>3 DEF Inv, TypeOK
  <2> QED
    BY <1>2, <2>1, AtPos
<1>5. /\ open \subseteq Socks /\ uid \in [Socks -> Uids] /\ client_list \in Seq(Socks)
      /\ unix_packet \in [Uids -> Socks \cup {NULL, Freed}]
  BY DEF Inv, TypeOK
<1>6. /\ client_list' \in Seq(Socks) /\ IsInjective(client_list')
      /\ ToSet(client_list') \subseteq ToSet(client_list) \ {c}
  BY <1>1, <1>3, <1>4, <1>5, SuffixFacts DEF Inv, ClientsListed, Client
<1>7. unix_packet' = [u \in Uids |-> IF unix_packet[u] = c THEN Freed ELSE unix_packet[u]]
  BY <1>1, <1>4 DEF Dangling
<1>8. TypeOK'
  <2>1. unix_packet' \in [Uids -> Socks \cup {NULL, Freed}]
    BY <1>5, <1>7
  <2>2. unix_pos' \in 1..(MaxSock + 1)
    BY <1>1, UnixAssumption
  <2> QED
    BY <1>1, <1>6, <2>1, <2>2 DEF Inv, TypeOK, debug
<1>9. ClientsListed'
  <2>1. ToSet(client_list') \subseteq open'
    BY <1>1, <1>4, <1>6 DEF Inv, ClientsListed
  <2>2. unix_pos' <= Len(client_list') + 1
    BY <1>1, <1>6
  <2> QED
    BY <1>1, <1>2, <1>6, <2>1, <2>2 DEF ClientsListed
<1>10. Counts'
  BY <1>1 DEF Inv, Counts, debug
<1>11. DebugOk'
  <2> SUFFICES ASSUME NEW l \in Levels
               PROVE  /\ clients_num'[l] = Len(fd_list'[l])
                      /\ IsInjective(fd_list'[l])
                      /\ \A r \in ToSet(fd_list'[l]) : debug_level'[r] = l /\ r \in open'
                      /\ \A r \in open' : debug_level'[r] = l => r \in ToSet(fd_list'[l])
    BY <1>2 DEF DebugOk
  <2>1. /\ clients_num[l] = Len(fd_list[l])
        /\ IsInjective(fd_list[l])
        /\ \A r \in ToSet(fd_list[l]) : debug_level[r] = l /\ r \in open
        /\ \A r \in open : debug_level[r] = l => r \in ToSet(fd_list[l]) \/ r = c
        /\ c \notin ToSet(fd_list[l])
    BY <1>2, <1>4 DEF Inv, DebugOk
  <2> QED
    BY <1>1, <1>4, <2>1 DEF debug
<1>12. LocksOk'
  BY <1>1, LocksFrame
<1>13. SlotsOk'
  <2>1. /\ \A r \in open : uid[r] # 0 => unix_packet[uid[r]] = r \/ r = c
        /\ \A u \in Uids \ {0} : unix_packet[u] # NULL => unix_packet[u] \in open /\ uid[unix_packet[u]] = u
        /\ \A u \in Uids \ {0} : unix_packet[u] # c
    BY <1>1, <1>2, <1>4 DEF Inv, SlotsOk
  <2>2. \A u \in Uids \ {0} : unix_packet'[u] = unix_packet[u]
    BY <1>7, <2>1
  <2>3. \A r \in open' : uid'[r] # 0 => unix_packet'[uid'[r]] = r
    BY <1>1, <1>4, <1>5, <2>1, <2>2
  <2>4. \A u \in Uids \ {0} : unix_packet'[u] # NULL => unix_packet'[u] \in open' /\ uid'[unix_packet'[u]] = u
    BY <1>1, <1>4, <2>1, <2>2
  <2> QED
    BY <1>1, <2>3, <2>4 DEF SlotsOk
<1> QED
  BY <1>8, <1>9, <1>10, <1>11, <1>12, <1>13 DEF Inv

LEMMA UnlinkKeeps ==
    ASSUME Inv, Unlink
    PROVE  Inv'
<1>1. pc = "unlink" /\ out["listen"] = 0 /\ out' = out
  BY DEF Unlink, At, printing
<1>2. Serving /\ pc \notin Moving
  BY <1>1 DEF Serving, Moving
<1>3. unix_pos \in DOMAIN client_list /\ debug_level[Client] # 0 /\ mutex[debug_level[Client]] = "listen"
  BY <1>1 DEF Inv, ClientsListed, AtClient, LocksOk
<1>4. unix_pos <= Len(client_list)
  BY <1>3 DEF Inv, TypeOK
<1>5. PICK c \in Socks, l \in Levels : c = Client /\ c \in open /\ l = debug_level[c] /\ mutex[l] = "listen"
  BY <1>2, <1>3, <1>4, AtPos DEF Inv, TypeOK
<1>6. /\ open \subseteq Socks /\ fd_list \in [Levels -> Seq(Socks)] /\ clients_num \in [Levels -> 0..MaxSock]
      /\ debug_level \in [Socks -> Levels \cup {0}] /\ 0 \notin Levels /\ request \in Levels \cup {0}
  BY UnixAssumption DEF Inv, TypeOK
<1>7. \A k \in Levels :
        /\ clients_num[k] = Len(fd_list[k])
        /\ IsInjective(fd_list[k])
        /\ \A r \in ToSet(fd_list[k]) : debug_level[r] = k /\ r \in open
        /\ \A r \in open : debug_level[r] = k => r \in ToSet(fd_list[k])
  BY <1>2 DEF Inv, DebugOk
<1>8. c \in ToSet(fd_list[l])
  BY <1>5, <1>7
<1>9. /\ fd_list' = [fd_list EXCEPT ![l] = RemoveFirst(fd_list[l], c)]
      /\ clients_num' = [clients_num EXCEPT ![l] = clients_num[l] - 1]
      /\ mutex' = [mutex EXCEPT ![l] = Free]
      /\ debug_level' = IF request = l THEN [debug_level EXCEPT ![c] = 0] ELSE debug_level
      /\ pc' = IF request = 0 THEN "leave" ELSE IF request = l THEN "loop" ELSE "lock_new"
      /\ unix_pos' = IF request = l THEN unix_pos + 1 ELSE unix_pos
      /\ UNCHANGED <<running, crashed, open, client_list, max_sock, uid, unix_packet, request, debug_pos, reply>>
  BY <1>5, <1>8 DEF Unlink, clients, printing
<1>10. PICK short \in Seq(Socks) :
         /\ short = RemoveFirst(fd_list[l], c) /\ Len(short) = Len(fd_list[l]) - 1
         /\ ToSet(short) = ToSet(fd_list[l]) \ {c} /\ IsInjective(short)
  BY <1>6, <1>7, <1>8, RemoveFirstFacts
<1>11. clients_num[l] - 1 \in 0..MaxSock /\ clients_num[l] - 1 = Len(short)
  BY <1>6, <1>7, <1>10, UnixAssumption
<1>12. Serving' /\ pc' \in {"leave", "loop", "lock_new"} /\ pc' # "close" /\ pc # "close"
  BY <1>1, <1>9 DEF Serving
<1>13. LocksOk' /\ mutex' \in [Levels -> Threads \cup {Free}]
  BY <1>1, <1>5, <1>9, <1>12, GivesBack
<1>14. TypeOK'
  <2>1. fd_list' \in [Levels -> Seq(Socks)] /\ clients_num' \in [Levels -> 0..MaxSock]
    BY <1>6, <1>9, <1>10, <1>11
  <2>2. debug_level' \in [Socks -> Levels \cup {0}]
    BY <1>6, <1>9
  <2>3. unix_pos' \in 1..(MaxSock + 1)
    BY <1>2, <1>4, <1>9, AtPos DEF Inv, TypeOK
  <2> QED
    BY <1>1, <1>9, <1>12, <1>13, <2>1, <2>2, <2>3 DEF Inv, TypeOK
<1>15. ClientsListed'
  <2>1. unix_pos' <= Len(client_list) + 1
    BY <1>2, <1>4, <1>9, AtPos DEF Inv, ClientsListed
  <2>2. pc' \in AtClient => unix_pos' = unix_pos /\ (pc' = "lock_new" => request # 0)
    BY <1>6, <1>9 DEF AtClient, Moving
  <2> QED
    BY <1>3, <1>9, <1>12, <2>1, <2>2 DEF Inv, ClientsListed
<1>16. \A k \in Levels : fd_list'[k] = IF k = l THEN short ELSE fd_list[k]
  BY <1>6, <1>9, <1>10
<1>17. \A k \in Levels : clients_num'[k] = Len(fd_list'[k])
  BY <1>6, <1>7, <1>9, <1>11, <1>16
<1>18. Counts'
  BY <1>6, <1>9, <1>10, <1>14, <1>17 DEF Counts, TypeOK
<1>19. DebugOk'
  <2> SUFFICES ASSUME NEW k \in Levels
               PROVE  /\ IsInjective(fd_list'[k])
                      /\ \A r \in ToSet(fd_list'[k]) : debug_level'[r] = k /\ r \in open'
                      /\ \A r \in open' : debug_level'[r] = k =>
                             r \in ToSet(fd_list'[k]) \/ (pc' \in Moving /\ r = Client')
                      /\ pc' \in Moving => Client' \notin ToSet(fd_list'[k])
    BY <1>17 DEF DebugOk
  <2>1. IsInjective(fd_list'[k])
    BY <1>7, <1>10, <1>16
  <2>2. c \notin ToSet(fd_list'[k])
    BY <1>5, <1>7, <1>10, <1>16
  <2>3. \A r \in Socks : r # c => debug_level'[r] = debug_level[r]
    BY <1>6, <1>9
  <2>4. \A r \in ToSet(fd_list'[k]) : debug_level'[r] = k /\ r \in open'
    BY <1>6, <1>7, <1>9, <1>10, <1>16, <2>2, <2>3
  <2>5. pc' \in Moving => Client' = c
    BY <1>5, <1>6, <1>9 DEF Client, Moving
  <2>6. pc' \notin Moving => debug_level'[c] = 0
    BY <1>6, <1>9 DEF Moving
  <2>7. \A r \in open' : debug_level'[r] = k =>
             r \in ToSet(fd_list'[k]) \/ (pc' \in Moving /\ r = Client')
    <3> SUFFICES ASSUME NEW r \in open', debug_level'[r] = k
                 PROVE  r \in ToSet(fd_list'[k]) \/ (pc' \in Moving /\ r = Client')
      OBVIOUS
    <3>1. CASE r = c
      BY <1>6, <2>5, <2>6, <3>1
    <3>2. CASE r # c
      <4>1. r \in open /\ debug_level[r] = k
        BY <1>6, <1>9, <2>3, <3>2
      <4>2. r \in ToSet(fd_list[k])
        BY <1>7, <4>1
      <4> QED
        BY <1>10, <1>16, <3>2, <4>2
    <3> QED
      BY <3>1, <3>2
  <2> QED
    BY <2>1, <2>2, <2>4, <2>5, <2>7
<1>20. SlotsOk'
  BY <1>2, <1>9, <1>12, SlotsFrame
<1> QED
  BY <1>13, <1>14, <1>15, <1>18, <1>19, <1>20 DEF Inv

LEMMA AddKeeps ==
    ASSUME Inv, Add
    PROVE  Inv'
<1>1. pc = "add" /\ out["listen"] = 0 /\ out' = out /\ pc' = "loop"
  BY DEF Add, At, printing
<1>2. Serving /\ pc \in Moving /\ Serving' /\ pc' \notin Moving /\ pc' \notin AtClient
  BY <1>1 DEF Serving, Moving, AtClient
<1>3. unix_pos \in DOMAIN client_list /\ request \in Levels /\ mutex[request] = "listen"
  BY <1>1 DEF Inv, TypeOK, ClientsListed, AtClient, Moving, LocksOk
<1>4. unix_pos <= Len(client_list)
  BY <1>3 DEF Inv, TypeOK
<1>5. PICK c \in Socks, l \in Levels : c = Client /\ c \in open /\ l = request /\ mutex[l] = "listen"
  BY <1>2, <1>3, <1>4, AtPos
<1>6. /\ open \subseteq Socks /\ fd_list \in [Levels -> Seq(Socks)] /\ clients_num \in [Levels -> 0..MaxSock]
      /\ debug_level \in [Socks -> Levels \cup {0}]
  BY DEF Inv, TypeOK
<1>7. \A k \in Levels :
        /\ clients_num[k] = Len(fd_list[k])
        /\ IsInjective(fd_list[k])
        /\ \A r \in ToSet(fd_list[k]) : debug_level[r] = k /\ r \in open
        /\ \A r \in open : debug_level[r] = k => r \in ToSet(fd_list[k]) \/ r = c
        /\ c \notin ToSet(fd_list[k])
  BY <1>2, <1>5 DEF Inv, DebugOk
<1>8. /\ fd_list' = [fd_list EXCEPT ![l] = <<c>> \o fd_list[l]]
      /\ clients_num' = [clients_num EXCEPT ![l] = clients_num[l] + 1]
      /\ debug_level' = [debug_level EXCEPT ![c] = l]
      /\ mutex' = [mutex EXCEPT ![l] = Free]
      /\ unix_pos' = unix_pos + 1
      /\ UNCHANGED <<running, crashed, open, client_list, max_sock, uid, unix_packet, request, debug_pos, reply>>
  BY <1>5 DEF Add, clients, printing
<1>9. PICK long \in Seq(Socks) :
         /\ long = <<c>> \o fd_list[l] /\ Len(long) = Len(fd_list[l]) + 1
         /\ ToSet(long) = ToSet(fd_list[l]) \cup {c} /\ IsInjective(long)
  <2>1. PICK old \in Seq(Socks) : old = fd_list[l] /\ IsInjective(old) /\ c \notin ToSet(old)
    BY <1>6, <1>7
  <2>2. /\ <<c>> \o old \in Seq(Socks) /\ Len(<<c>> \o old) = Len(old) + 1
        /\ ToSet(<<c>> \o old) = ToSet(old) \cup {c} /\ IsInjective(<<c>> \o old)
    BY <2>1, ConsNew
  <2> QED
    BY <2>1, <2>2
<1>10. clients_num[l] + 1 \in 0..MaxSock /\ clients_num[l] + 1 = Len(long)
  <2>1. Len(long) <= MaxSock
    BY <1>9, ShortList
  <2>2. clients_num[l] = Len(fd_list[l]) /\ clients_num[l] \in 0..MaxSock
    BY <1>6, <1>7
  <2> QED
    BY <1>9, <2>1, <2>2, UnixAssumption
<1>11. LocksOk' /\ mutex' \in [Levels -> Threads \cup {Free}]
  BY <1>1, <1>5, <1>8, GivesBack
<1>12. unix_pos' \in 1..(MaxSock + 1) /\ unix_pos' <= Len(client_list) + 1
  BY <1>2, <1>4, <1>8, AtPos
<1>13. TypeOK'
  <2>1. fd_list' \in [Levels -> Seq(Socks)] /\ clients_num' \in [Levels -> 0..MaxSock]
    BY <1>6, <1>8, <1>9, <1>10
  <2> QED
    BY <1>1, <1>8, <1>11, <1>12, <2>1 DEF Inv, TypeOK
<1>14. ClientsListed'
  BY <1>2, <1>8, <1>12, ListFrame
<1>15. \A k \in Levels : fd_list'[k] = IF k = l THEN long ELSE fd_list[k]
  BY <1>6, <1>8, <1>9
<1>16. \A k \in Levels : clients_num'[k] = Len(fd_list'[k])
  BY <1>6, <1>7, <1>8, <1>10, <1>15
<1>17. Counts'
  BY <1>13, <1>16 DEF Counts, TypeOK
<1>18. DebugOk'
  <2> SUFFICES ASSUME NEW k \in Levels
               PROVE  /\ IsInjective(fd_list'[k])
                      /\ \A r \in ToSet(fd_list'[k]) : debug_level'[r] = k /\ r \in open'
                      /\ \A r \in open' : debug_level'[r] = k => r \in ToSet(fd_list'[k])
    BY <1>2, <1>16 DEF DebugOk
  <2>1. \A r \in Socks : debug_level'[r] = IF r = c THEN l ELSE debug_level[r]
    BY <1>6, <1>8
  <2>2. IsInjective(fd_list'[k])
    BY <1>7, <1>9, <1>15
  <2>3. ASSUME NEW r \in ToSet(fd_list'[k]) PROVE debug_level'[r] = k /\ r \in open'
    <3>1. CASE r = c
      <4>1. k = l
        BY <1>7, <1>15, <3>1
      <4> QED
        BY <1>5, <1>8, <2>1, <3>1, <4>1
    <3>2. CASE r # c
      <4>1. r \in ToSet(fd_list[k])
        BY <1>9, <1>15, <3>2
      <4> QED
        BY <1>6, <1>7, <1>8, <2>1, <3>2, <4>1
    <3> QED
      BY <3>1, <3>2
  <2>4. ASSUME NEW r \in open', debug_level'[r] = k PROVE r \in ToSet(fd_list'[k])
    <3>1. r \in open /\ r \in Socks
      BY <1>6, <1>8
    <3>2. CASE r = c
      BY <1>9, <1>15, <2>1, <2>4, <3>2
    <3>3. CASE r # c
      <4>1. r \in ToSet(fd_list[k])
        BY <1>7, <2>1, <2>4, <3>1, <3>3
      <4> QED
        BY <1>9, <1>15, <4>1
    <3> QED
      BY <3>2, <3>3
  <2> QED
    BY <2>2, <2>3, <2>4
<1>19. SlotsOk'
  BY <1>1, <1>2, <1>8, SlotsFrame
<1> QED
  BY <1>11, <1>13, <1>14, <1>17, <1>18, <1>19 DEF Inv

\* Once the loop has ended only types, and the counters as bounds, are kept.
LEMMA CleanupKeeps ==
    ASSUME Inv, Cleanup
    PROVE  Inv'
<1>1. /\ pc = "cleanup" /\ pc' = "cleanup" /\ out["listen"] = 0 /\ out' = out
      /\ UNCHANGED <<running, crashed, open, max_sock, uid, debug_level, mutex, unix_pos, request, debug_pos, reply>>
  BY DEF Cleanup, At, loop, printing
<1>2. ~ Serving /\ ~ Serving' /\ pc' \notin AtClient
  BY <1>1 DEF Serving, AtClient, Moving
<1>3. /\ client_list \in Seq(Socks) /\ client_list # <<>>
      /\ fd_list \in [Levels -> Seq(Socks)] /\ clients_num \in [Levels -> 0..MaxSock]
      /\ unix_packet \in [Uids -> Socks \cup {NULL, Freed}]
  BY DEF Inv, TypeOK, Cleanup
<1>4. /\ client_list' \in Seq(Socks) /\ IsInjective(client_list')
      /\ ToSet(client_list') \subseteq ToSet(client_list)
  <2>1. PICK one \in 1..Len(client_list) : one = 1 /\ one + 1 = 2
    BY <1>3
  <2>2. client_list' = SubSeq(client_list, one + 1, Len(client_list))
    BY <1>3, <2>1, HeadTailProperties DEF Cleanup
  <2> QED
    BY <1>3, <2>2, SuffixFacts DEF Inv, ClientsListed
<1>5. ClientsListed'
  BY <1>1, <1>2, <1>4 DEF Inv, ClientsListed, AtClient
<1>6. unix_packet' \in [Uids -> Socks \cup {NULL, Freed}]
  BY <1>3 DEF Cleanup, Dangling
<1>7. /\ fd_list' \in [Levels -> Seq(Socks)] /\ clients_num' \in [Levels -> 0..MaxSock]
      /\ Counts'
  <2>1. ASSUME UNCHANGED <<fd_list, clients_num>>
        PROVE  fd_list' \in [Levels -> Seq(Socks)] /\ clients_num' \in [Levels -> 0..MaxSock] /\ Counts'
    BY <1>3, <2>1 DEF Inv, Counts
  <2>2. ASSUME NEW l \in Levels, NEW k \in 1..Len(fd_list[l]),
               fd_list' = [fd_list EXCEPT ![l] = SubSeq(fd_list[l], k + 1, Len(fd_list[l]))],
               clients_num' = [clients_num EXCEPT ![l] = clients_num[l] - 1]
        PROVE  fd_list' \in [Levels -> Seq(Socks)] /\ clients_num' \in [Levels -> 0..MaxSock] /\ Counts'
    <3>1. PICK rest \in Seq(Socks) :
            rest = SubSeq(fd_list[l], k + 1, Len(fd_list[l])) /\ Len(rest) = Len(fd_list[l]) - k
      <4>1. PICK old \in Seq(Socks) : old = fd_list[l] /\ k \in 1..Len(old)
        BY <1>3
      <4>2. SubSeq(old, k + 1, Len(old)) \in Seq(Socks) /\ Len(SubSeq(old, k + 1, Len(old))) = Len(old) - k
        BY <4>1, SuffixFacts
      <4> QED
        BY <4>1, <4>2
    <3>2. Len(fd_list[l]) <= clients_num[l] /\ Len(fd_list[l]) \in Nat /\ clients_num[l] \in 0..MaxSock
      BY <1>3 DEF Inv, Counts
    <3>3. clients_num[l] - 1 \in 0..MaxSock /\ Len(rest) <= clients_num[l] - 1
      BY <3>1, <3>2, UnixAssumption
    <3>4. fd_list' \in [Levels -> Seq(Socks)] /\ clients_num' \in [Levels -> 0..MaxSock]
      BY <1>3, <2>2, <3>1, <3>3
    <3>5. \A m \in Levels : Len(fd_list'[m]) <= clients_num'[m]
      BY <1>3, <2>2, <3>1, <3>3 DEF Inv, Counts
    <3> QED
      BY <3>4, <3>5 DEF Counts
  <2>3. PICK s \in Socks, l \in Levels \cup {0} : s = Head(client_list) /\ l = debug_level[s]
    <3>1. Head(client_list) \in Socks
      BY <1>3
    <3> QED
      BY <3>1 DEF Inv, TypeOK
  <2>4. \/ UNCHANGED <<fd_list, clients_num>>
        \/ \E k \in (IF l = 0 THEN {} ELSE DOMAIN fd_list[l]) :
             /\ fd_list' = [fd_list EXCEPT ![l] = SubSeq(fd_list[l], k + 1, Len(fd_list[l]))]
             /\ clients_num' = [clients_num EXCEPT ![l] = clients_num[l] - 1]
    BY <2>3 DEF Cleanup
  <2>5. l # 0 => l \in Levels /\ DOMAIN fd_list[l] = 1..Len(fd_list[l])
    BY <1>3, <2>3
  <2> QED
    BY <2>1, <2>2, <2>4, <2>5
<1>8. TypeOK'
  BY <1>1, <1>4, <1>6, <1>7 DEF Inv, TypeOK
<1>9. LocksOk'
  BY <1>1, LocksFrame
<1>10. DebugOk' /\ SlotsOk'
  BY <1>2 DEF DebugOk, SlotsOk
<1> QED
  BY <1>5, <1>7, <1>8, <1>9, <1>10 DEF Inv
-----------------------------------------------------------------------------
(* The results *)

LEMMA InitOk == Init => Inv
<1> SUFFICES ASSUME Init PROVE Inv
  OBVIOUS
<1>1. pc = "select" /\ client_list = <<>> /\ fd_list = [l \in Levels |-> <<>>] /\ open = {}
  BY DEF Init
<1>2. Len(<<>>) = 0 /\ <<>> \in Seq(Socks) /\ IsInjective(<<>>) /\ ToSet(<<>>) = {}
  BY DEF IsInjective, ToSet
<1>3. TypeOK
  <2>1. 0 \in Uids /\ 0 \in 0..MaxSock /\ 1 \in 1..(MaxSock + 1) /\ 0 \in 0..(MaxSock + 1)
    BY UnixAssumption DEF Uids
  <2>2. /\ fd_list \in [Levels -> Seq(Socks)] /\ client_list \in Seq(Socks)
        /\ clients_num \in [Levels -> 0..MaxSock] /\ mutex \in [Levels -> Threads \cup {Free}]
    BY <1>2, <2>1 DEF Init
  <2>3. /\ debug_level \in [Socks -> Levels \cup {0}] /\ uid \in [Socks -> Uids]
        /\ unix_packet \in [Uids -> Socks \cup {NULL, Freed}]
    BY <2>1 DEF Init
  <2>4. out \in [Threads -> Levels \cup {0}] /\ debug_pos \in [Threads -> 0..(MaxSock + 1)]
    BY <2>1 DEF Init
  <2> QED
    BY <2>1, <2>2, <2>3, <2>4 DEF Init, TypeOK
<1>4. ClientsListed
  BY <1>1, <1>2 DEF Init, ClientsListed, AtClient, Moving
<1>5. Counts /\ DebugOk
  BY <1>1, <1>2 DEF Init, Counts, DebugOk, Moving
<1>6. LocksOk /\ SlotsOk
  BY DEF Init, LocksOk, SlotsOk, Threads
<1> QED
  BY <1>3, <1>4, <1>5, <1>6 DEF Inv

LEMMA StepOk == Inv /\ [Next]_vars => Inv'
<1> SUFFICES ASSUME Inv, [Next]_vars PROVE Inv'
  OBVIOUS
<1>1. CASE UNCHANGED vars
  <2>1. UNCHANGED <<clients, debug, mutex, loop, printing, running, crashed, reply>>
    BY <1>1 DEF vars
  <2>2. ClientsListed' /\ Counts' /\ DebugOk' /\ SlotsOk'
    BY <2>1, Frame
  <2>3. TypeOK' /\ LocksOk'
    BY <2>1 DEF Inv, TypeOK, LocksOk, Client, clients, debug, loop, printing
  <2> QED
    BY <2>2, <2>3 DEF Inv
<1>2. ASSUME NEW t \in Threads, debug_output(t) PROVE Inv'
  BY <1>2, SilentKeeps, TryLockKeeps, WriteKeeps, UnlockKeeps DEF debug_output
<1>3. CASE Listen
  BY <1>3, AcceptKeeps, SimpleKeeps, IdleKeeps, EchoRequestKeeps, DemandKeeps, LockOldKeeps, UnlinkKeeps,
     LockNewKeeps, AddKeeps, LeaveKeeps, CloseKeeps, CleanupKeeps DEF Listen, unix_listen
<1> QED
  BY <1>1, <1>2, <1>3, MainKeeps DEF Next, MainPrints, ListenPrints, Threads

LEMMA InvAlways == Spec => []Inv
BY InitOk, StepOk, PTL DEF Spec

\* unix_listen keeps the debug lists, their counters and the clients' levels in
\* agreement through every request, departure and accepted connection, for any
\* number of sockets and levels, whatever the main thread prints meanwhile.
THEOREM DebugListsAgree == Spec => []DebugListsMatch
<1>1. Inv => DebugListsMatch
  BY DEF Inv, DebugOk, DebugListsMatch, Moving
<1> QED
  BY <1>1, InvAlways, PTL

\* unix_listen hands out uids so that a slot of unix_packet with a number other
\* than 0 and the client with that uid always name each other.
THEOREM SlotsAgree == Spec => []SlotsMatchUids
<1>1. Inv => SlotsMatchUids
  BY DEF Inv, SlotsOk, SlotsMatchUids
<1> QED
  BY <1>1, InvAlways, PTL

\* While debug_output writes to the clients of a list, in either thread,
\* unix_listen neither adds to the list nor removes from it.
THEOREM WalkersUndisturbed == Spec => WalkedListIsStable
<1> DEFINE Stable == \A t \in Threads :
                Serving /\ out[t] # 0 /\ debug_pos[t] > 0 => fd_list'[out[t]] = fd_list[out[t]]
<1>1. Inv /\ [Next]_vars => [Stable]_vars
  <2> SUFFICES ASSUME Inv, Next, NEW t \in Threads, Serving, out[t] # 0, debug_pos[t] > 0
               PROVE  fd_list'[out[t]] = fd_list[out[t]]
    BY DEF Stable
  <2>1. out[t] \in Levels /\ mutex[out[t]] = t /\ fd_list \in [Levels -> Seq(Socks)]
    BY DEF Inv, TypeOK, LocksOk
  <2>2. ASSUME NEW l \in Levels, mutex[l] = "listen", out["listen"] = 0,
               \A k \in Levels : k # l => fd_list'[k] = fd_list[k]
        PROVE  fd_list'[out[t]] = fd_list[out[t]]
    BY <2>1, <2>2 DEF Threads
  <2>3. CASE Unlink
    <3>1. pc = "unlink" /\ out["listen"] = 0 /\ mutex[debug_level[Client]] = "listen" /\ debug_level[Client] # 0
      BY <2>3 DEF Unlink, At, Inv, LocksOk, ClientsListed
    <3>2. unix_pos \in DOMAIN client_list
      BY <3>1 DEF Inv, ClientsListed, AtClient
    <3>3. debug_level[Client] \in Levels
      BY <3>1, <3>2 DEF Inv, TypeOK, Client
    <3>4. \A k \in Levels : k # debug_level[Client] => fd_list'[k] = fd_list[k]
      BY <2>1, <2>3 DEF Unlink
    <3> QED
      BY <2>2, <3>1, <3>3, <3>4
  <2>4. CASE Add
    <3>1. out["listen"] = 0 /\ mutex[request] = "listen" /\ request \in Levels
      BY <2>4 DEF Add, At, Inv, TypeOK, LocksOk, ClientsListed
    <3>2. \A k \in Levels : k # request => fd_list'[k] = fd_list[k]
      BY <2>1, <2>4 DEF Add
    <3> QED
      BY <2>2, <3>1, <3>2
  <2>5. CASE UNCHANGED fd_list
    BY <2>5
  <2>6. ~ Cleanup
    BY DEF Cleanup, At, Serving
  <2> QED
    <3>1. ASSUME NEW r \in Threads, debug_output(r) PROVE UNCHANGED fd_list
      BY <3>1 DEF debug_output, Silent, TryLock, Write, Unlock, debug
    <3>2. ASSUME unix_listen, ~ Unlink, ~ Add PROVE UNCHANGED fd_list
      BY <2>6, <3>2 DEF unix_listen, Accept, AcceptFails, StartLoop, EndLoop, Idle, EchoRequest, HangUp,
         DebugRequest, LockOld, LockNew, Leave, Close, StartCleanup, Exit, debug
    <3>3. ASSUME \/ \E l \in Levels : MainOutput(l)
                 \/ \E u \in Uids : ReplyTest(u)
                 \/ ReplyWrite \/ Abort
          PROVE  UNCHANGED fd_list
      BY <3>3 DEF MainOutput, ReplyTest, ReplyWrite, Abort, debug
    <3> QED
      BY <2>3, <2>4, <2>5, <3>1, <3>2, <3>3 DEF Next, MainPrints, ListenPrints, Listen, Threads
<1> QED
  BY <1>1, InvAlways, PTL DEF Spec, WalkedListIsStable, Stable
=============================================================================
