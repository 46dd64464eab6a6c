--------------------------- MODULE ScheduleProof ---------------------------
(***************************************************************************)
(* No interface loses its place in forw_list, for any number of interfaces *)
(* and any relayed messages, as long as the jitter is within the interval. *)
(*                                                                         *)
(* OneOwnPacketPerInterface is not inductive: list_del drops whatever lies *)
(* in front of the packet just sent.  The strengthening, WalkSafe, is that *)
(* a packet that is due is the first one of the list: a freshly scheduled  *)
(* message may get in front of the element visited next, but then that     *)
(* element is not due either and ends the walk.                            *)
(***************************************************************************)
EXTENDS Schedule, SequenceTheorems, TLAPS

\* list_del keeps exactly the packets behind the one removed.
LEMMA DelProperties ==
    ASSUME NEW S, NEW s \in Seq(S), NEW k \in 1..Len(s)
    PROVE  /\ list_del(s, k) \in Seq(S)
           /\ Len(list_del(s, k)) = Len(s) - k
           /\ \A j \in 1..(Len(s) - k) : list_del(s, k)[j] = s[j + k]
<1>1. Len(s) \in Nat
  BY LenProperties
<1>2. k \in Int /\ k >= 1 /\ k <= Len(s)
  BY <1>1
<1> QED
  BY <1>1, <1>2, SubSeqProperties DEF list_del

\* Inserting at p moves the packets from p on back by one.
LEMMA InsertProperties ==
    ASSUME NEW S, NEW s \in Seq(S), NEW p \in 1..(Len(s) + 1), NEW e \in S
    PROVE  /\ InsertAt(s, p, e) \in Seq(S)
           /\ Len(InsertAt(s, p, e)) = Len(s) + 1
           /\ \A j \in 1..(Len(s) + 1) :
                InsertAt(s, p, e)[j] = IF j < p THEN s[j] ELSE IF j = p THEN e ELSE s[j - 1]
<1>1. Len(s) \in Nat /\ p \in Int /\ 1 <= p /\ p <= Len(s) + 1
  BY LenProperties
<1> DEFINE a == SubSeq(s, 1, p - 1)
           b == SubSeq(s, p, Len(s))
<1>2. /\ a \in Seq(S) /\ Len(a) = p - 1
      /\ \A j \in 1..(p - 1) : a[j] = s[j]
  BY <1>1, SubSeqProperties
<1>3. /\ b \in Seq(S) /\ Len(b) = Len(s) + 1 - p
      /\ \A j \in 1..(Len(s) + 1 - p) : b[j] = s[p + j - 1]
  BY <1>1, SubSeqProperties
<1>4. <<e>> \in Seq(S) /\ Len(<<e>>) = 1 /\ <<e>>[1] = e
  OBVIOUS
<1> HIDE DEF a, b
<1>5. /\ a \o <<e>> \in Seq(S) /\ Len(a \o <<e>>) = p
      /\ \A j \in 1..p : (a \o <<e>>)[j] = IF j < p THEN s[j] ELSE e
  BY <1>1, <1>2, <1>4, ConcatProperties
<1>6. /\ (a \o <<e>>) \o b \in Seq(S)
      /\ Len((a \o <<e>>) \o b) = Len(s) + 1
      /\ \A j \in 1..(Len(s) + 1) : ((a \o <<e>>) \o b)[j] =
             IF j <= p THEN (a \o <<e>>)[j] ELSE b[j - p]
  BY <1>1, <1>3, <1>5, ConcatProperties
<1>7. InsertAt(s, p, e) = (a \o <<e>>) \o b
  BY DEF InsertAt, a, b
<1>8. ASSUME NEW j \in 1..(Len(s) + 1)
      PROVE  InsertAt(s, p, e)[j] = IF j < p THEN s[j] ELSE IF j = p THEN e ELSE s[j - 1]
  <2>1. CASE j <= p
    BY <1>1, <1>5, <1>6, <1>7, <2>1
  <2>2. CASE j > p
    <3>1. j - p \in 1..(Len(s) + 1 - p) /\ p + (j - p) - 1 = j - 1
      BY <1>1, <2>2
    <3>2. b[j - p] = s[j - 1]
      BY <1>3, <3>1
    <3>3. ~ (j <= p) /\ ~ (j < p) /\ j # p
      BY <1>1, <2>2
    <3>4. InsertAt(s, p, e)[j] = b[j - p]
      BY <1>6, <1>7, <3>3
    <3> QED
      BY <3>2, <3>3, <3>4
  <2> QED
    BY <1>1, <2>1, <2>2
<1> QED
  BY <1>6, <1>7, <1>8

\* new is the list s with packet e inserted at p.
IsInsertion(new, s, p, e) ==
    /\ new \in Seq(Packet)
    /\ Len(new) = Len(s) + 1
    /\ \A j \in 1..(Len(s) + 1) :
         new[j] = IF j < p THEN s[j] ELSE IF j = p THEN e ELSE s[j - 1]

\* InsertAt inserts, for packets.
LEMMA InsertPacket ==
    ASSUME NEW s \in Seq(Packet), NEW p \in 1..(Len(s) + 1), NEW e \in Packet
    PROVE  IsInsertion(InsertAt(s, p, e), s, p, e)
BY InsertProperties, SMTT(40) DEF IsInsertion

\* new is the list s without its first packet.
IsRest(new, s) ==
    /\ new \in Seq(Packet)
    /\ Len(new) = Len(s) - 1
    /\ \A j \in 1..(Len(s) - 1) : new[j] = s[j + 1]

\* list_del of the first packet leaves the rest.
LEMMA DelFirst ==
    ASSUME NEW s \in Seq(Packet), Len(s) >= 1
    PROVE  IsRest(list_del(s, 1), s)
<1>1. 1 \in 1..Len(s)
  BY LenProperties
<1> QED
  BY <1>1, DelProperties DEF IsRest

-----------------------------------------------------------------------------
(* Own packets on a list. *)

Owns(list, i) == \E k \in 1..Len(list) : list[k].own /\ list[k].if_outgoing = i

UniqueIn(list) ==
    \A j, k \in 1..Len(list) :
        list[j].own /\ list[k].own /\ list[j].if_outgoing = list[k].if_outgoing => j = k

\* Removing the first packet removes the own message it may have been.
LEMMA DelOwns ==
    ASSUME NEW s \in Seq(Packet), Len(s) >= 1, UniqueIn(s), NEW i
    PROVE  /\ UniqueIn(list_del(s, 1))
           /\ Owns(list_del(s, 1), i) <=> Owns(s, i) /\ ~ (s[1].own /\ s[1].if_outgoing = i)
<1> DEFINE L == list_del(s, 1)
<1>1. Len(s) \in Nat
  BY LenProperties
<1>2. /\ L \in Seq(Packet)
      /\ Len(L) = Len(s) - 1
      /\ \A j \in 1..(Len(s) - 1) : L[j] = s[j + 1]
  BY <1>1, DelProperties
<1> HIDE DEF L
<1>3. \A k \in 2..Len(s) : k - 1 \in 1..Len(L) /\ L[k - 1] = s[k]
  BY <1>1, <1>2
<1>4. UniqueIn(L)
  <2> SUFFICES ASSUME NEW j \in 1..Len(L), NEW k \in 1..Len(L),
                      L[j].own, L[k].own, L[j].if_outgoing = L[k].if_outgoing
               PROVE  j = k
    BY DEF UniqueIn
  <2>1. j + 1 \in 1..Len(s) /\ k + 1 \in 1..Len(s) /\ L[j] = s[j + 1] /\ L[k] = s[k + 1]
    BY <1>1, <1>2
  <2>2. j + 1 = k + 1
    BY <2>1 DEF UniqueIn
  <2> QED
    BY <1>1, <1>2, <2>2
<1>5. ASSUME Owns(L, i)
      PROVE  Owns(s, i) /\ ~ (s[1].own /\ s[1].if_outgoing = i)
  <2>1. PICK k \in 1..Len(L) : L[k].own /\ L[k].if_outgoing = i
    BY <1>5 DEF Owns
  <2>2. k + 1 \in 1..Len(s) /\ 1 \in 1..Len(s) /\ L[k] = s[k + 1] /\ k + 1 # 1
    BY <1>1, <1>2, <2>1
  <2> QED
    BY <2>1, <2>2 DEF Owns, UniqueIn
<1>6. ASSUME Owns(s, i), ~ (s[1].own /\ s[1].if_outgoing = i)
      PROVE  Owns(L, i)
  <2>1. PICK k \in 1..Len(s) : s[k].own /\ s[k].if_outgoing = i
    BY <1>6 DEF Owns
  <2>2. k \in 2..Len(s)
    BY <1>1, <1>6, <2>1
  <2> QED
    BY <1>3, <2>1, <2>2 DEF Owns
<1> QED
  BY <1>4, <1>5, <1>6 DEF L

\* Inserting an own message of an interface that has none adds just that one.
LEMMA InsertOwns ==
    ASSUME NEW s \in Seq(Packet), UniqueIn(s), NEW p \in 1..(Len(s) + 1),
           NEW e \in Packet, e.own, ~ Owns(s, e.if_outgoing), NEW i
    PROVE  /\ UniqueIn(InsertAt(s, p, e))
           /\ Owns(InsertAt(s, p, e), i) <=> Owns(s, i) \/ i = e.if_outgoing
<1> DEFINE L == InsertAt(s, p, e)
<1>1. Len(s) \in Nat
  BY LenProperties
<1>2. /\ L \in Seq(Packet)
      /\ Len(L) = Len(s) + 1
      /\ \A j \in 1..(Len(s) + 1) : L[j] = IF j < p THEN s[j] ELSE IF j = p THEN e ELSE s[j - 1]
  BY InsertProperties
<1> HIDE DEF L
<1> DEFINE old(j) == IF j < p THEN j ELSE j - 1
           new(k) == IF k < p THEN k ELSE k + 1
<1>3. \A j \in 1..Len(L) : j # p => old(j) \in 1..Len(s) /\ L[j] = s[old(j)]
  BY <1>1, <1>2
<1>4. \A k \in 1..Len(s) : new(k) \in 1..Len(L) /\ L[new(k)] = s[k]
  BY <1>1, <1>2
<1>5. p \in 1..Len(L) /\ L[p] = e
  BY <1>1, <1>2
<1>6. \A j, k \in 1..Len(L) : j # p /\ k # p /\ old(j) = old(k) => j = k
  BY <1>1, <1>2
<1>7. \A j \in 1..Len(L) : j # p => ~ (L[j].own /\ L[j].if_outgoing = e.if_outgoing)
  BY <1>3 DEF Owns
<1> HIDE DEF old, new
<1>8. UniqueIn(L)
  <2> SUFFICES ASSUME NEW j \in 1..Len(L), NEW k \in 1..Len(L),
                      L[j].own, L[k].own, L[j].if_outgoing = L[k].if_outgoing
               PROVE  j = k
    BY DEF UniqueIn
  <2>1. CASE j = p \/ k = p
    BY <2>1, <1>5, <1>7
  <2>2. CASE j # p /\ k # p
    <3>1. /\ old(j) \in 1..Len(s) /\ L[j] = s[old(j)]
          /\ old(k) \in 1..Len(s) /\ L[k] = s[old(k)]
      BY <2>2, <1>3
    <3>2. old(j) = old(k)
      BY <3>1 DEF UniqueIn
    <3> QED
      BY <2>2, <3>2, <1>6
  <2> QED
    BY <2>1, <2>2
<1>9. Owns(L, i) => Owns(s, i) \/ i = e.if_outgoing
  BY <1>3, <1>5 DEF Owns
<1>10. Owns(s, i) \/ i = e.if_outgoing => Owns(L, i)
  BY <1>4, <1>5 DEF Owns
<1> QED
  BY <1>8, <1>9, <1>10 DEF L

\* A relayed message put in front changes nothing about own messages.
LEMMA PushOwns ==
    ASSUME NEW s \in Seq(Packet), UniqueIn(s), NEW e \in Packet, e.own = FALSE, NEW i
    PROVE  /\ <<e>> \o s \in Seq(Packet)
           /\ Len(<<e>> \o s) = Len(s) + 1
           /\ UniqueIn(<<e>> \o s)
           /\ Owns(<<e>> \o s, i) <=> Owns(s, i)
<1> DEFINE L == <<e>> \o s
<1>1. Len(s) \in Nat
  BY LenProperties
<1>2. <<e>> \in Seq(Packet) /\ Len(<<e>>) = 1 /\ <<e>>[1] = e
  OBVIOUS
<1>3. /\ L \in Seq(Packet)
      /\ Len(L) = Len(s) + 1
      /\ \A j \in 1..(Len(s) + 1) : L[j] = IF j <= 1 THEN e ELSE s[j - 1]
  BY <1>1, <1>2, ConcatProperties
<1> HIDE DEF L
<1>4. \A j \in 1..Len(L) : L[j].own => j - 1 \in 1..Len(s) /\ L[j] = s[j - 1]
  BY <1>1, <1>3
<1>5. \A k \in 1..Len(s) : k + 1 \in 1..Len(L) /\ L[k + 1] = s[k]
  BY <1>1, <1>3
<1>6. UniqueIn(L)
  <2> SUFFICES ASSUME NEW j \in 1..Len(L), NEW k \in 1..Len(L),
                      L[j].own, L[k].own, L[j].if_outgoing = L[k].if_outgoing
               PROVE  j = k
    BY DEF UniqueIn
  <2>1. j - 1 = k - 1
    BY <1>4 DEF UniqueIn
  <2> QED
    BY <1>1, <1>3, <2>1
<1>7. Owns(L, i) <=> Owns(s, i)
  <2>1. ASSUME Owns(L, i) PROVE Owns(s, i)
    BY <1>4, <2>1 DEF Owns
  <2>2. ASSUME Owns(s, i) PROVE Owns(L, i)
    BY <1>5, <2>2 DEF Owns
  <2> QED
    BY <2>1, <2>2
<1> QED
  BY <1>3, <1>6, <1>7 DEF L

-----------------------------------------------------------------------------
(* The inductive invariant. *)

\* While batman() starts up, the first interfaces have their message.
Booting ==
    pc = "boot" =>
        /\ Len(forw_list) < NIfs
        /\ \A i \in Ifs : Owns(forw_list, i) <=> i < Len(forw_list)

Present == pc \notin {"boot", "exit"} => \A i \in Ifs : Owns(forw_list, i)

\* The element the walk visits next is the first one; if a new own message
\* was put in front of it, it is not due and will end the walk.
WalkSafe ==
    /\ curr_time <= now
    /\ pc \notin {"walk", "exit"} => temp = 0
    /\ temp <= 2
    /\ temp = 2 => forw_list[2].send_time > curr_time

Inv == TypeOK /\ Booting /\ UniqueIn(forw_list) /\ Present /\ WalkSafe

\* The configurations the invariant needs: a jitter no larger than the interval.
JitterWithinInterval == Jitter <= Interval

\* A new own message is due after the present time, if the jitter is within
\* the interval and the clock does not wrap.
LEMMA SendTimesInFuture ==
    ASSUME TypeOK, JitterWithinInterval, NEW t \in SendTimes
    PROVE  t \in 0..(ClockMod - 1) /\ t >= now
<1> USE ScheduleAssumption
<1>1. PICK r \in rand_num(2 * Jitter) : t = (now + Interval - Jitter + r) % ClockMod
  BY DEF SendTimes
<1>2. r \in Nat /\ r <= 2 * Jitter
  BY DEF rand_num
<1>3. now \in Nat /\ now <= MaxTime
  BY DEF TypeOK
<1> DEFINE x == now + Interval - Jitter + r
<1>4. x \in Nat /\ x < ClockMod /\ x >= now
  BY <1>2, <1>3 DEF JitterWithinInterval
<1> HIDE DEF x
<1>5. x % ClockMod = x
  BY <1>4
<1> QED
  BY <1>1, <1>4, <1>5 DEF x

\* What schedule_own_packet does to a list without an own message of i.
LEMMA ScheduleOwn ==
    ASSUME TypeOK, JitterWithinInterval, NEW i \in Ifs, NEW list \in Seq(Packet),
           UniqueIn(list), ~ Owns(list, i), NEW next \in {0, 1}, next <= Len(list),
           schedule_own_packet(i, list, next)
    PROVE  /\ forw_list' \in Seq(Packet)
           /\ Len(forw_list') = Len(list) + 1
           /\ UniqueIn(forw_list')
           /\ \A j \in Ifs : Owns(forw_list', j) <=> Owns(list, j) \/ j = i
           /\ temp' \in {next, 2}
           /\ temp' = 2 => Len(list) >= 1 /\ forw_list'[2].send_time > now
           /\ out_seqno' \in [Ifs -> SeqNos]
           /\ bcast_own' \in [Neighs -> [Ifs -> SUBSET Offsets]]
<1> USE ScheduleAssumption, WindowAssumption
<1>1. Len(list) \in Nat
  BY LenProperties
<1>2. PICK t \in SendTimes, p \in 1..(Len(list) + 1) :
         /\ IsInsertPoint(list, t, p)
         /\ forw_list' = InsertAt(list, p, OwnPacket(i, t))
         /\ temp' = IF next # 0 /\ p <= next THEN next + 1 ELSE next
  BY DEF schedule_own_packet
<1>3. t \in 0..(ClockMod - 1) /\ t >= now
  BY SendTimesInFuture
<1> DEFINE e == OwnPacket(i, t)
<1>4. e \in Packet /\ e.own /\ e.if_outgoing = i
  BY <1>3 DEF OwnPacket, Packet, TypeOK, TTL
<1> HIDE DEF e
<1>5. /\ forw_list' \in Seq(Packet)
      /\ Len(forw_list') = Len(list) + 1
      /\ \A j \in 1..(Len(list) + 1) : forw_list'[j] =
            IF j < p THEN list[j] ELSE IF j = p THEN e ELSE list[j - 1]
  <2>1. e \in Packet
    BY <1>4
  <2>2. forw_list' = InsertAt(list, p, e)
    BY <1>2 DEF e
  <2>3. IsInsertion(forw_list', list, p, e)
    BY <2>1, <2>2, InsertPacket
  <2> QED
    BY <2>3 DEF IsInsertion
<1>6. UniqueIn(forw_list') /\ \A j \in Ifs : Owns(forw_list', j) <=> Owns(list, j) \/ j = i
  <2>1. ~ Owns(list, e.if_outgoing)
    BY <1>4
  <2>2. forw_list' = InsertAt(list, p, e)
    BY <1>2 DEF e
  <2>3. \A j : /\ UniqueIn(InsertAt(list, p, e))
               /\ Owns(InsertAt(list, p, e), j) <=> Owns(list, j) \/ j = e.if_outgoing
    BY <1>4, <2>1, InsertOwns
  <2> QED
    BY <1>4, <2>2, <2>3
<1>7. temp' \in {next, 2}
  BY <1>2
<1>8. ASSUME temp' = 2
      PROVE  Len(list) >= 1 /\ forw_list'[2].send_time > now
  <2>1. p = 1 /\ next = 1 /\ Len(list) >= 1
    BY <1>1, <1>2, <1>8
  <2>2. list[1].send_time > t
    BY <1>1, <1>2, <2>1 DEF IsInsertPoint
  <2>3. forw_list'[2] = list[1]
    BY <1>1, <1>5, <2>1
  <2>4. list[1] \in Packet
    BY <1>1, <2>1, ElementOfSeq
  <2>5. list[1].send_time \in Int /\ t \in Int /\ now \in Int
    BY <1>3, <2>4 DEF TypeOK, Packet
  <2> QED
    BY <1>3, <2>1, <2>2, <2>3, <2>5
<1>9. out_seqno' \in [Ifs -> SeqNos]
  BY DEF schedule_own_packet, TypeOK, SeqNos
<1>10. bcast_own' \in [Neighs -> [Ifs -> SUBSET Offsets]]
  BY DEF schedule_own_packet, TypeOK
<1> QED
  BY <1>5, <1>6, <1>7, <1>8, <1>9, <1>10

\* The daemon starts with an empty list.
LEMMA InitInv == Init => Inv
<1> SUFFICES ASSUME Init
             PROVE  Inv
  OBVIOUS
<1> USE ScheduleAssumption, WindowAssumption
<1>1. forw_list \in Seq(Packet) /\ Len(forw_list) = 0
  BY EmptySeq DEF Init
<1>2. TypeOK
  BY <1>1 DEF Init, TypeOK, SeqNos, NoSeqno, Offsets
<1>3. Booting
  BY <1>1 DEF Init, Booting, Owns, Ifs
<1>4. UniqueIn(forw_list) /\ Present /\ WalkSafe
  BY <1>1 DEF Init, UniqueIn, Present, WalkSafe
<1> QED
  BY <1>2, <1>3, <1>4 DEF Inv

\* A due packet is always the first one of the list.
LEMMA DueIsFirst ==
    ASSUME Inv, Due
    PROVE  temp = 1 /\ Len(forw_list) >= 1 /\ forw_list[1] \in Packet
<1>1. Len(forw_list) \in Nat /\ temp \in 0..Len(forw_list) /\ forw_list \in Seq(Packet)
  BY LenProperties DEF Inv, TypeOK
<1>2. temp # 2
  <2> SUFFICES ASSUME temp = 2
               PROVE  FALSE
    OBVIOUS
  <2>1. forw_list[2] \in Packet
    BY <1>1, ElementOfSeq
  <2>2. forw_list[2].send_time \in Int /\ curr_time \in Int
    <3>1. forw_list[2].send_time \in 0..(ClockMod - 1)
      BY <2>1 DEF Packet
    <3>2. curr_time \in 0..MaxTime
      BY DEF Inv, TypeOK
    <3> QED
      BY <3>1, <3>2, ScheduleAssumption
  <2> QED
    BY <2>2 DEF Inv, WalkSafe, Due
<1>3. temp = 1 /\ Len(forw_list) >= 1
  BY <1>1, <1>2 DEF Due, Inv, WalkSafe
<1> QED
  BY <1>1, <1>3, ElementOfSeq

\* Packets become frames on our interfaces.
LEMMA FramesType ==
    ASSUME NEW p \in Packet
    PROVE  Frames(p) \subseteq Frame
<1>1. p.if_outgoing \in Ifs /\ p.directlink \in BOOLEAN
  BY DEF Packet
<1>2. ASSUME NEW f \in Frames(p)
      PROVE  f \in Frame
  <2>1. CASE p.directlink /\ p.ttl = 1
    <3>1. f = [on |-> p.if_outgoing, directlink |-> TRUE]
      BY <1>2, <2>1 DEF Frames
    <3> QED
      BY <1>1, <3>1 DEF Frame
  <2>2. CASE ~ (p.directlink /\ p.ttl = 1) /\ p.own /\ p.if_outgoing > 0
    <3>1. f = [on |-> p.if_outgoing, directlink |-> FALSE]
      BY <1>2, <2>2 DEF Frames
    <3> QED
      BY <1>1, <3>1 DEF Frame
  <2>3. CASE ~ (p.directlink /\ p.ttl = 1) /\ ~ (p.own /\ p.if_outgoing > 0)
    <3>1. PICK i \in Ifs : f = [on |-> i, directlink |-> p.directlink /\ p.if_outgoing = i]
      BY <1>2, <2>3 DEF Frames
    <3>2. (p.directlink /\ p.if_outgoing = i) \in BOOLEAN
      OBVIOUS
    <3> QED
      BY <3>1, <3>2 DEF Frame
  <2> QED
    BY <2>1, <2>2, <2>3
<1> QED
  BY <1>2

\* Every step keeps the invariant, if the jitter is within the interval.
LEMMA NextInv ==
    ASSUME Inv, JitterWithinInterval, [Next]_vars
    PROVE  Inv'
<1> USE ScheduleAssumption, WindowAssumption
<1>0. /\ TypeOK /\ forw_list \in Seq(Packet) /\ Len(forw_list) \in Nat
      /\ UniqueIn(forw_list)
  BY LenProperties DEF Inv, TypeOK
<1>1. CASE UNCHANGED vars
  BY <1>1 DEF vars, Inv, TypeOK, Booting, UniqueIn, Present, WalkSafe, Owns
<1>2. CASE StartInterface
  <2> DEFINE i == Len(forw_list)
  <2>1. i \in Ifs /\ ~ Owns(forw_list, i) /\ pc = "boot"
    BY <1>0, <1>2 DEF StartInterface, Inv, Booting, Ifs
  <2>2. /\ forw_list' \in Seq(Packet)
        /\ Len(forw_list') = Len(forw_list) + 1
        /\ UniqueIn(forw_list')
        /\ \A j \in Ifs : Owns(forw_list', j) <=> Owns(forw_list, j) \/ j = i
        /\ temp' \in {0, 2}
        /\ temp' = 2 => Len(forw_list) >= 1 /\ forw_list'[2].send_time > now
        /\ out_seqno' \in [Ifs -> SeqNos]
        /\ bcast_own' \in [Neighs -> [Ifs -> SUBSET Offsets]]
    BY <1>0, <1>2, <2>1, ScheduleOwn DEF StartInterface
  <2>3. temp' = 0
    BY <1>2 DEF StartInterface, schedule_own_packet
  <2>4. TypeOK'
    <3>1. temp' \in 0..Len(forw_list')
      BY <1>0, <2>2, <2>3
    <3> QED
      BY <1>0, <1>2, <2>2, <3>1 DEF StartInterface, TypeOK
  <2>5. Booting' /\ Present'
    BY <1>0, <1>2, <2>1, <2>2 DEF StartInterface, Inv, Booting, Present, Ifs
  <2>6. WalkSafe'
    BY <1>2, <2>3 DEF StartInterface, Inv, WalkSafe
  <2> QED
    BY <2>2, <2>4, <2>5, <2>6 DEF Inv
<1>3. CASE ReceiveNothing
  BY <1>3 DEF ReceiveNothing, Inv, TypeOK, Booting, UniqueIn, Present, WalkSafe, Owns
<1>4. ASSUME NEW i \in Ifs, NEW ttl \in RelayTtls, NEW d \in BOOLEAN,
             schedule_forward_packet(i, ttl, d)
      PROVE  Inv'
  <2> DEFINE e == [own |-> FALSE, if_outgoing |-> i, send_time |-> now,
                   seqno |-> 0, ttl |-> ttl, directlink |-> d]
  <2>1. e \in Packet /\ e.own = FALSE
    BY <1>0 DEF Packet, TypeOK, SeqNos
  <2>2. forw_list' = <<e>> \o forw_list
    BY <1>4 DEF schedule_forward_packet
  <2> HIDE DEF e
  <2>3. /\ forw_list' \in Seq(Packet)
        /\ Len(forw_list') = Len(forw_list) + 1
        /\ UniqueIn(forw_list')
        /\ \A j \in Ifs : Owns(forw_list', j) <=> Owns(forw_list, j)
    BY <1>0, <2>1, <2>2, PushOwns
  <2>4. TypeOK'
    BY <1>0, <1>4, <2>3 DEF schedule_forward_packet, TypeOK
  <2>5. Booting' /\ Present'
    BY <1>4, <2>3 DEF schedule_forward_packet, Inv, Booting, Present
  <2>6. WalkSafe'
    BY <1>4 DEF schedule_forward_packet, Inv, WalkSafe
  <2> QED
    BY <2>3, <2>4, <2>5, <2>6 DEF Inv
<1>5. ASSUME NEW n \in Neighs, NEW ec \in Echoes, NEW lag \in 0..MaxLag,
             ReceiveEcho(n, ec[1], ec[2], lag)
      PROVE  Inv'
  <2>1. ec[2] \in Ifs
    BY DEF Ifs
  <2>2. bcast_own' \in [Neighs -> [Ifs -> SUBSET Offsets]]
    BY <1>0, <1>5, <2>1 DEF ReceiveEcho, TypeOK, bit_mark
  <2>3. heard' \in [Neighs -> [Ifs -> SUBSET Offsets]]
    BY <1>0, <1>5, <2>1 DEF ReceiveEcho, TypeOK, Offsets
  <2>4. TypeOK'
    BY <1>0, <1>5, <2>2, <2>3 DEF ReceiveEcho, TypeOK
  <2> QED
    BY <1>5, <2>4 DEF ReceiveEcho, Inv, Booting, UniqueIn, Present, WalkSafe, Owns
<1>6. CASE StartWalk
  <2>1. pc = "send" /\ forw_list' = forw_list /\ now' = now
    BY <1>6 DEF StartWalk
  <2>2. temp' \in 0..1 /\ temp' <= Len(forw_list) /\ curr_time' \in 0..MaxTime /\ curr_time' <= now'
    <3>1. forw_list # <<>> => Len(forw_list) >= 1
      BY <1>0, EmptySeq
    <3> QED
      BY <1>0, <1>6, <3>1 DEF StartWalk, Inv, TypeOK, WalkSafe
  <2>3. pc' \in {"select", "walk"} /\ (pc' = "select" => temp' = 0)
    BY <1>6 DEF StartWalk, Inv, WalkSafe
  <2>4. TypeOK'
    BY <1>0, <1>6, <2>1, <2>2, <2>3 DEF StartWalk, TypeOK
  <2> QED
    BY <1>6, <2>1, <2>2, <2>3, <2>4 DEF Inv, Booting, UniqueIn, Present, WalkSafe, Owns
<1>7. CASE SendRelayed
  <2>1. /\ temp = 1 /\ Len(forw_list) >= 1 /\ forw_list[1] \in Packet
        /\ pc = "walk" /\ ~ forw_list[1].own
    BY <1>7, DueIsFirst DEF SendRelayed
  <2>2. /\ forw_list' \in Seq(Packet)
        /\ Len(forw_list') = Len(forw_list) - 1
    BY <1>0, <1>7, <2>1, DelProperties DEF SendRelayed
  <2>3. /\ UniqueIn(forw_list')
        /\ \A j \in Ifs : Owns(forw_list', j) <=> Owns(forw_list, j)
    BY <1>0, <1>7, <2>1, DelOwns DEF SendRelayed
  <2>4. temp' \in 0..1 /\ temp' <= Len(forw_list')
    BY <1>0, <1>7, <2>1, <2>2 DEF SendRelayed, Follower
  <2>5. TypeOK'
    BY <1>0, <1>7, <2>1, <2>2, <2>4, FramesType DEF SendRelayed, TypeOK
  <2> QED
    BY <1>7, <2>1, <2>3, <2>4, <2>5 DEF SendRelayed, Inv, Booting, Present, WalkSafe
<1>8. CASE SendOwn
  <2> DEFINE i == forw_list[1].if_outgoing
             L == list_del(forw_list, 1)
             next == Follower(1)
  <2>1. /\ temp = 1 /\ Len(forw_list) >= 1 /\ forw_list[1] \in Packet
        /\ pc = "walk" /\ forw_list[1].own
    BY <1>8, DueIsFirst DEF SendOwn
  <2>2. i \in Ifs
    BY <2>1 DEF Packet
  <2>3. L \in Seq(Packet) /\ Len(L) = Len(forw_list) - 1
    BY <1>0, <2>1, DelProperties
  <2>4. /\ UniqueIn(L)
        /\ ~ Owns(L, i)
        /\ \A j \in Ifs : Owns(L, j) <=> Owns(forw_list, j) /\ j # i
    BY <1>0, <2>1, DelOwns
  <2>5. next \in {0, 1} /\ next <= Len(L)
    BY <1>0, <2>1, <2>3 DEF Follower
  <2>6. schedule_own_packet(i, L, next)
    BY <1>8, <2>1 DEF SendOwn
  <2> HIDE DEF L, next
  <2>7. /\ forw_list' \in Seq(Packet)
        /\ Len(forw_list') = Len(L) + 1
        /\ UniqueIn(forw_list')
        /\ \A j \in Ifs : Owns(forw_list', j) <=> Owns(L, j) \/ j = i
        /\ temp' \in {next, 2}
        /\ temp' = 2 => Len(L) >= 1 /\ forw_list'[2].send_time > now
        /\ out_seqno' \in [Ifs -> SeqNos]
        /\ bcast_own' \in [Neighs -> [Ifs -> SUBSET Offsets]]
    BY <1>0, <2>2, <2>3, <2>4, <2>5, <2>6, ScheduleOwn
  <2>8. temp' \in 0..Len(forw_list') /\ temp' <= 2
    BY <1>0, <2>3, <2>5, <2>7
  <2>9. TypeOK'
    <3>1. tx' \subseteq Frame
      BY <1>8, <2>1, FramesType DEF SendOwn
    <3>2. aired' \in [Ifs -> [0..MaxLag -> SeqNos \cup {NoSeqno}]]
      <4>1. forw_list[1].seqno \in SeqNos
        BY <2>1 DEF Packet
      <4> DEFINE a == [lag \in 0..MaxLag |->
                         IF lag = 0 THEN forw_list[1].seqno ELSE aired[i][lag - 1]]
      <4>2. aired' = [aired EXCEPT ![i] = a]
        BY <1>8, <2>1 DEF SendOwn
      <4>3. aired[i] \in [0..MaxLag -> SeqNos \cup {NoSeqno}]
        BY <1>0, <2>2 DEF TypeOK
      <4>4. a \in [0..MaxLag -> SeqNos \cup {NoSeqno}]
        BY <4>1, <4>3
      <4> HIDE DEF a
      <4> QED
        BY <1>0, <2>2, <4>2, <4>4 DEF TypeOK
    <3>3. nsent' \in [Ifs -> Nat]
      BY <1>0, <1>8, <2>1, <2>2 DEF SendOwn, TypeOK
    <3>4. heard' \in [Neighs -> [Ifs -> SUBSET Offsets]]
      BY <1>0, <1>8, <2>1, <2>2 DEF SendOwn, TypeOK
    <3> QED
      BY <1>0, <1>8, <2>7, <2>8, <3>1, <3>2, <3>3, <3>4 DEF SendOwn, TypeOK
  <2>10. now' = now /\ pc' = pc /\ curr_time' = curr_time /\ curr_time <= now
    BY <1>8 DEF SendOwn, Inv, WalkSafe
  <2>11. WalkSafe'
    <3> SUFFICES ASSUME temp' = 2
                 PROVE  forw_list'[2].send_time > curr_time
      BY <2>1, <2>8, <2>10 DEF WalkSafe
    <3>1. Len(forw_list') >= 2
      BY <2>3, <2>7, <1>0
    <3>2. forw_list'[2] \in Packet
      BY <2>7, <3>1, <1>0, <2>3, ElementOfSeq
    <3>3. forw_list'[2].send_time \in Int /\ now \in Int /\ curr_time \in Int
      BY <1>0, <3>2 DEF Packet, TypeOK
    <3> QED
      BY <2>7, <2>10, <3>3
  <2>12. Booting' /\ Present'
    BY <2>1, <2>4, <2>7, <2>10 DEF Inv, Booting, Present
  <2> QED
    BY <2>7, <2>9, <2>11, <2>12 DEF Inv
<1>9. CASE SendFails
  <2>1. temp = 1 /\ Len(forw_list) >= 1
    BY <1>9, DueIsFirst DEF SendFails
  <2> QED
    BY <1>9, <2>1 DEF SendFails, Inv, TypeOK, Booting, UniqueIn, Present, WalkSafe, Owns
<1>10. CASE EndWalk
  <2>1. TypeOK'
    BY <1>0, <1>10 DEF EndWalk, TypeOK
  <2> QED
    BY <1>0, <1>10, <2>1 DEF EndWalk, Inv, TypeOK, Booting, UniqueIn, Present, WalkSafe, Owns
<1>11. ASSUME NEW n \in Neighs, PurgeNeighbour(n)
       PROVE  Inv'
  <2>1. TypeOK'
    BY <1>0, <1>11 DEF PurgeNeighbour, TypeOK
  <2> QED
    BY <1>11, <2>1 DEF PurgeNeighbour, Inv, Booting, UniqueIn, Present, WalkSafe, Owns
<1>12. CASE Shutdown
  <2>1. forw_list' = <<>> /\ forw_list' \in Seq(Packet) /\ Len(forw_list') = 0 /\ pc' = "exit" /\ temp' = 0
    BY <1>12, EmptySeq DEF Shutdown, Inv, WalkSafe
  <2>2. TypeOK'
    BY <1>0, <1>12, <2>1 DEF Shutdown, TypeOK
  <2> QED
    BY <1>12, <2>1, <2>2 DEF Shutdown, Inv, Booting, UniqueIn, Present, WalkSafe
<1>13. CASE Tick
  <2>1. TypeOK' /\ curr_time' <= now'
    BY <1>0, <1>13 DEF Tick, TypeOK, Inv, WalkSafe
  <2> QED
    BY <1>13, <2>1 DEF Tick, Inv, Booting, UniqueIn, Present, WalkSafe, Owns
<1> QED
  BY <1>1, <1>2, <1>3, <1>4, <1>5, <1>6, <1>7, <1>8, <1>9, <1>10, <1>11, <1>12, <1>13
     DEF Next, MainStep, Receive, Walk

\* For every number of interfaces and neighbours, and every interval that is
\* not shorter than the jitter: the variables of schedule.c keep their types;
\* in particular the walk of send_outstanding_packets never holds a pointer
\* past the end of forw_list.
THEOREM TypeCorrect ==
    ASSUME JitterWithinInterval
    PROVE  Spec => []TypeOK
<1>1. Inv /\ [Next]_vars => Inv'
  BY NextInv
<1>2. Inv => TypeOK
  BY DEF Inv
<1> QED
  BY InitInv, <1>1, <1>2, PTL DEF Spec

\* Under the same condition no interface ever loses its place in forw_list:
\* send_outstanding_packets, which unlinks with the list head as predecessor,
\* never drops a freshly scheduled own message.
THEOREM NoInterfaceLost ==
    ASSUME JitterWithinInterval
    PROVE  Spec => []OneOwnPacketPerInterface
<1>1. Inv /\ [Next]_vars => Inv'
  BY NextInv
<1>2. Inv => OneOwnPacketPerInterface
  BY DEF Inv, Present, Owns, UniqueIn, OneOwnPacketPerInterface, OwnAt
<1> QED
  BY InitInv, <1>1, <1>2, PTL DEF Spec

-----------------------------------------------------------------------------
(* The order of the list.                                                  *)

\* A relayed message is at the head, and there only between its reception
\* and its turn in the walk that follows.
RelayedFirst ==
    pc # "exit" =>
        \A k \in 1..Len(forw_list) :
            ~ forw_list[k].own =>
                /\ k = 1
                /\ forw_list[1].send_time <= now
                /\ \/ pc = "send"
                   \/ pc = "walk" /\ temp = 1 /\ forw_list[1].send_time <= curr_time

SortedIn(list) ==
    \A j, k \in 1..Len(list) :
        j < k /\ list[j].own /\ list[k].own => list[j].send_time <= list[k].send_time

\* Own messages never carry the direct-link flag.
PlainIn(list) == \A k \in 1..Len(list) : list[k].own => ~ list[k].directlink

OrderInv == RelayedFirst /\ SortedIn(forw_list) /\ PlainIn(forw_list)

\* Removing the first packet leaves a sorted list sorted.
LEMMA DelOrder ==
    ASSUME NEW s \in Seq(Packet), Len(s) >= 1, SortedIn(s), PlainIn(s)
    PROVE  /\ SortedIn(list_del(s, 1))
           /\ PlainIn(list_del(s, 1))
           /\ \A k \in 1..Len(list_del(s, 1)) : k + 1 \in 1..Len(s) /\ list_del(s, 1)[k] = s[k + 1]
<1> DEFINE L == list_del(s, 1)
<1>1. Len(s) \in Nat
  BY LenProperties
<1>2. /\ Len(L) = Len(s) - 1
      /\ \A j \in 1..(Len(s) - 1) : L[j] = s[j + 1]
  BY <1>1, DelProperties
<1> HIDE DEF L
<1>3. \A k \in 1..Len(L) : k + 1 \in 1..Len(s) /\ L[k] = s[k + 1]
  BY <1>1, <1>2
<1>4. SortedIn(L)
  <2> SUFFICES ASSUME NEW j \in 1..Len(L), NEW k \in 1..Len(L), j < k, L[j].own, L[k].own
               PROVE  L[j].send_time <= L[k].send_time
    BY DEF SortedIn
  <2>1. j + 1 < k + 1
    BY <1>1, <1>2
  <2> QED
    BY <1>3, <2>1 DEF SortedIn
<1>5. PlainIn(L)
  BY <1>3 DEF PlainIn
<1> QED
  BY <1>3, <1>4, <1>5 DEF L

\* schedule_own_packet keeps a list of own messages sorted.
LEMMA ScheduleOrder ==
    ASSUME TypeOK, JitterWithinInterval, NEW i \in Ifs, NEW list \in Seq(Packet),
           NEW next, SortedIn(list), PlainIn(list), \A k \in 1..Len(list) : list[k].own,
           schedule_own_packet(i, list, next)
    PROVE  /\ SortedIn(forw_list')
           /\ PlainIn(forw_list')
           /\ \A k \in 1..Len(forw_list') : forw_list'[k].own
<1> USE ScheduleAssumption, WindowAssumption
<1>1. Len(list) \in Nat
  BY LenProperties
<1>2. PICK t \in SendTimes, p \in 1..(Len(list) + 1) :
         /\ IsInsertPoint(list, t, p)
         /\ forw_list' = InsertAt(list, p, OwnPacket(i, t))
  BY DEF schedule_own_packet
<1>3. t \in 0..(ClockMod - 1)
  BY SendTimesInFuture
<1> DEFINE e == OwnPacket(i, t)
<1>4. e \in Packet /\ e.own /\ e.send_time = t /\ ~ e.directlink
  BY <1>3 DEF OwnPacket, Packet, TypeOK, TTL
<1> HIDE DEF e
<1> DEFINE L == forw_list'
           old(j) == IF j < p THEN j ELSE j - 1
<1>5. /\ Len(L) = Len(list) + 1
      /\ \A j \in 1..(Len(list) + 1) : L[j] =
            IF j < p THEN list[j] ELSE IF j = p THEN e ELSE list[j - 1]
  <2>1. e \in Packet
    BY <1>4
  <2>2. forw_list' = InsertAt(list, p, e)
    BY <1>2 DEF e
  <2>3. IsInsertion(forw_list', list, p, e)
    BY <2>1, <2>2, InsertPacket
  <2> QED
    BY <2>3 DEF IsInsertion
<1> HIDE DEF L
<1>6. p \in 1..Len(L) /\ L[p] = e
  BY <1>1, <1>5
<1>7. \A j \in 1..Len(L) : j # p => old(j) \in 1..Len(list) /\ L[j] = list[old(j)]
  BY <1>1, <1>5
<1>8. \A k \in 1..Len(list) : list[k].send_time \in Int /\ list[k].own
  <2> SUFFICES ASSUME NEW k \in 1..Len(list)
               PROVE  list[k].send_time \in Int
    OBVIOUS
  <2>1. list[k] \in Packet
    BY ElementOfSeq
  <2> QED
    BY <2>1 DEF Packet
<1>9. \A k \in 1..Len(list) : (k < p => list[k].send_time <= t) /\ (k >= p => list[k].send_time >= t)
  <2> SUFFICES ASSUME NEW k \in 1..Len(list)
               PROVE  (k < p => list[k].send_time <= t) /\ (k >= p => list[k].send_time >= t)
    OBVIOUS
  <2>1. CASE k < p
    BY <1>1, <1>2, <2>1 DEF IsInsertPoint
  <2>2. CASE k >= p
    <3>1. p \in 1..Len(list) /\ list[p].send_time > t
      BY <1>1, <1>2, <2>2 DEF IsInsertPoint
    <3>2. list[p].send_time <= list[k].send_time
      <4>1. CASE k = p
        BY <1>8, <4>1
      <4>2. CASE k # p
        BY <1>1, <1>8, <2>2, <3>1, <4>2 DEF SortedIn
      <4> QED BY <4>1, <4>2
    <3> QED
      BY <1>3, <1>8, <2>2, <3>1, <3>2
  <2> QED
    BY <1>1, <2>1, <2>2
<1>10. \A j \in 1..Len(L) : L[j].own /\ ~ L[j].directlink
  BY <1>4, <1>6, <1>7, <1>8 DEF PlainIn
<1>11. SortedIn(L)
  <2> SUFFICES ASSUME NEW j \in 1..Len(L), NEW k \in 1..Len(L), j < k
               PROVE  L[j].send_time <= L[k].send_time
    BY DEF SortedIn
  <2>1. CASE j = p
    <3>1. old(k) \in 1..Len(list) /\ L[k] = list[old(k)] /\ old(k) >= p
      BY <1>1, <1>5, <1>7, <2>1
    <3> QED
      BY <1>4, <1>6, <1>9, <2>1, <3>1
  <2>2. CASE k = p
    <3>1. old(j) \in 1..Len(list) /\ L[j] = list[old(j)] /\ old(j) < p
      BY <1>1, <1>5, <1>7, <2>2
    <3> QED
      BY <1>4, <1>6, <1>9, <2>2, <3>1
  <2>3. CASE j # p /\ k # p
    <3>1. /\ old(j) \in 1..Len(list) /\ L[j] = list[old(j)]
          /\ old(k) \in 1..Len(list) /\ L[k] = list[old(k)]
      BY <1>7, <2>3
    <3>2. old(j) < old(k)
      BY <1>1, <1>5, <2>3
    <3> HIDE DEF old
    <3> QED
      BY <1>8, <3>1, <3>2 DEF SortedIn
  <2> QED
    BY <2>1, <2>2, <2>3
<1> QED
  BY <1>10, <1>11 DEF L, PlainIn

\* A relayed message put in front leaves the own messages as they are.
LEMMA PushOrder ==
    ASSUME NEW s \in Seq(Packet), SortedIn(s), PlainIn(s), NEW e \in Packet, e.own = FALSE
    PROVE  /\ SortedIn(<<e>> \o s)
           /\ PlainIn(<<e>> \o s)
           /\ (<<e>> \o s)[1] = e
           /\ Len(<<e>> \o s) = Len(s) + 1
           /\ \A k \in 1..Len(<<e>> \o s) : k # 1 => k - 1 \in 1..Len(s) /\ (<<e>> \o s)[k] = s[k - 1]
<1> DEFINE L == <<e>> \o s
<1>1. Len(s) \in Nat
  BY LenProperties
<1>2. <<e>> \in Seq(Packet) /\ Len(<<e>>) = 1 /\ <<e>>[1] = e
  OBVIOUS
<1>3. /\ Len(L) = Len(s) + 1
      /\ \A j \in 1..(Len(s) + 1) : L[j] = IF j <= 1 THEN e ELSE s[j - 1]
  BY <1>1, <1>2, ConcatProperties
<1> HIDE DEF L
<1>4. \A k \in 1..Len(L) : k # 1 => k - 1 \in 1..Len(s) /\ L[k] = s[k - 1]
  BY <1>1, <1>3
<1>5. L[1] = e
  BY <1>1, <1>3
<1>6. SortedIn(L)
  <2> SUFFICES ASSUME NEW j \in 1..Len(L), NEW k \in 1..Len(L), j < k, L[j].own, L[k].own
               PROVE  L[j].send_time <= L[k].send_time
    BY DEF SortedIn
  <2>1. j # 1 /\ k # 1
    BY <1>5
  <2>2. j - 1 < k - 1
    BY <1>1, <1>3
  <2> QED
    BY <1>4, <2>1, <2>2 DEF SortedIn
<1>7. PlainIn(L)
  BY <1>4, <1>5 DEF PlainIn
<1> QED
  BY <1>3, <1>4, <1>5, <1>6, <1>7 DEF L

\* Every step keeps the order.
LEMMA NextOrder ==
    ASSUME Inv, OrderInv, JitterWithinInterval, [Next]_vars
    PROVE  OrderInv'
<1> USE ScheduleAssumption
<1>0. /\ TypeOK /\ forw_list \in Seq(Packet) /\ Len(forw_list) \in Nat
      /\ SortedIn(forw_list) /\ PlainIn(forw_list) /\ RelayedFirst
  BY LenProperties DEF Inv, TypeOK, OrderInv
<1>a. pc \in {"boot", "select"} => \A k \in 1..Len(forw_list) : forw_list[k].own
  BY <1>0 DEF RelayedFirst
<1>1. CASE UNCHANGED vars
  BY <1>0, <1>1 DEF vars, OrderInv, RelayedFirst, SortedIn, PlainIn
<1>2. CASE StartInterface
  <2>1. Len(forw_list) \in Ifs /\ \A k \in 1..Len(forw_list) : forw_list[k].own
    BY <1>0, <1>2, <1>a DEF StartInterface, Ifs
  <2>2. /\ SortedIn(forw_list') /\ PlainIn(forw_list')
        /\ \A k \in 1..Len(forw_list') : forw_list'[k].own
    BY <1>0, <1>2, <2>1, ScheduleOrder DEF StartInterface
  <2> QED
    BY <2>2 DEF OrderInv, RelayedFirst
<1>3. CASE ReceiveNothing \/ Shutdown \/ \E n \in Neighs : PurgeNeighbour(n)
  <2>1. CASE Shutdown
    BY <2>1 DEF Shutdown, OrderInv, RelayedFirst, SortedIn, PlainIn
  <2>2. CASE ~ Shutdown
    <3>1. pc = "select" /\ forw_list' = forw_list
      BY <1>3, <2>2 DEF ReceiveNothing, PurgeNeighbour
    <3> QED
      BY <1>0, <1>a, <3>1 DEF OrderInv, RelayedFirst, SortedIn, PlainIn
  <2> QED
    BY <2>1, <2>2
<1>4. ASSUME NEW i \in Ifs, NEW ttl \in RelayTtls, NEW d \in BOOLEAN,
             schedule_forward_packet(i, ttl, d)
      PROVE  OrderInv'
  <2> DEFINE e == [own |-> FALSE, if_outgoing |-> i, send_time |-> now,
                   seqno |-> 0, ttl |-> ttl, directlink |-> d]
  <2>1. e \in Packet /\ e.own = FALSE /\ e.send_time = now
    BY <1>0, WindowAssumption DEF Packet, TypeOK, SeqNos
  <2>2. forw_list' = <<e>> \o forw_list /\ pc = "select" /\ pc' = "send" /\ now' = now
    BY <1>4 DEF schedule_forward_packet
  <2> HIDE DEF e
  <2>3. /\ SortedIn(forw_list') /\ PlainIn(forw_list') /\ forw_list'[1] = e
        /\ \A k \in 1..Len(forw_list') :
              k # 1 => k - 1 \in 1..Len(forw_list) /\ forw_list'[k] = forw_list[k - 1]
    <3> DEFINE L == <<e>> \o forw_list
    <3>1. /\ SortedIn(L) /\ PlainIn(L) /\ L[1] = e
          /\ \A k \in 1..Len(L) : k # 1 => k - 1 \in 1..Len(forw_list) /\ L[k] = forw_list[k - 1]
      BY <1>0, <2>1, PushOrder, ZenonT(40)
    <3> HIDE DEF L
    <3>2. forw_list' = L
      BY <2>2 DEF L
    <3> QED
      BY <3>1, <3>2
  <2>4. \A k \in 1..Len(forw_list') : ~ forw_list'[k].own => k = 1
    BY <1>a, <2>2, <2>3
  <2>5. forw_list'[1].send_time <= now'
    BY <1>0, <2>1, <2>2, <2>3 DEF TypeOK
  <2> QED
    BY <2>2, <2>3, <2>4, <2>5 DEF OrderInv, RelayedFirst
<1>5. ASSUME NEW n \in Neighs, NEW ec \in Echoes, NEW lag \in 0..MaxLag,
             ReceiveEcho(n, ec[1], ec[2], lag)
      PROVE  OrderInv'
  <2>1. pc = "select" /\ forw_list' = forw_list
    BY <1>5 DEF ReceiveEcho
  <2> QED
    BY <1>0, <1>a, <2>1 DEF OrderInv, RelayedFirst, SortedIn, PlainIn
<1>6. CASE StartWalk
  BY <1>0, <1>6 DEF StartWalk, OrderInv, RelayedFirst, SortedIn, PlainIn
<1>7. CASE SendRelayed
  <2>1. /\ temp = 1 /\ Len(forw_list) >= 1 /\ pc = "walk" /\ pc' = "walk"
        /\ forw_list' = list_del(forw_list, 1)
    BY <1>7, DueIsFirst DEF SendRelayed
  <2>2. /\ SortedIn(forw_list') /\ PlainIn(forw_list')
        /\ \A k \in 1..Len(forw_list') : k + 1 \in 1..Len(forw_list) /\ forw_list'[k] = forw_list[k + 1]
    BY <1>0, <2>1, DelOrder
  <2>3. \A k \in 1..Len(forw_list') : forw_list'[k].own
    <3> SUFFICES ASSUME NEW k \in 1..Len(forw_list')
                 PROVE  forw_list[k + 1].own
      BY <2>2
    <3>1. k + 1 # 1 /\ k + 1 \in 1..Len(forw_list)
      BY <2>2
    <3> QED
      BY <1>0, <2>1, <3>1 DEF RelayedFirst
  <2> QED
    BY <2>2, <2>3 DEF OrderInv, RelayedFirst
<1>8. CASE SendOwn
  <2> DEFINE i == forw_list[1].if_outgoing
             L == list_del(forw_list, 1)
  <2>1. /\ temp = 1 /\ Len(forw_list) >= 1 /\ forw_list[1] \in Packet
        /\ pc = "walk" /\ forw_list[1].own
    BY <1>8, DueIsFirst DEF SendOwn
  <2>2. \A k \in 1..Len(forw_list) : forw_list[k].own
    BY <1>0, <2>1 DEF RelayedFirst
  <2>3. /\ SortedIn(L) /\ PlainIn(L)
        /\ \A k \in 1..Len(L) : k + 1 \in 1..Len(forw_list) /\ L[k] = forw_list[k + 1]
    BY <1>0, <2>1, DelOrder
  <2>4. L \in Seq(Packet) /\ i \in Ifs
    BY <1>0, <2>1, DelProperties DEF Packet
  <2>5. \A k \in 1..Len(L) : L[k].own
    BY <2>2, <2>3
  <2>6. schedule_own_packet(i, L, Follower(1))
    BY <1>8, <2>1 DEF SendOwn
  <2> HIDE DEF L
  <2>7. /\ SortedIn(forw_list') /\ PlainIn(forw_list')
        /\ \A k \in 1..Len(forw_list') : forw_list'[k].own
    BY <1>0, <2>3, <2>4, <2>5, <2>6, ScheduleOrder
  <2> QED
    BY <2>7 DEF OrderInv, RelayedFirst
<1>9. CASE SendFails
  BY <1>0, <1>9 DEF SendFails, OrderInv, RelayedFirst, SortedIn, PlainIn
<1>10. CASE EndWalk
  <2>1. \A k \in 1..Len(forw_list) : forw_list[k].own
    BY <1>0, <1>10 DEF EndWalk, Due, RelayedFirst
  <2> QED
    BY <1>0, <1>10, <2>1 DEF EndWalk, OrderInv, RelayedFirst, SortedIn, PlainIn
<1>11. CASE Tick
  <2>1. /\ now \in Int /\ now' = now + 1 /\ pc' = pc /\ forw_list' = forw_list
        /\ temp' = temp /\ curr_time' = curr_time
    BY <1>0, <1>11 DEF Tick, TypeOK
  <2>2. ASSUME NEW k \in 1..Len(forw_list), pc # "exit", ~ forw_list[k].own
        PROVE  forw_list[1].send_time <= now'
    <3>1. k = 1 /\ forw_list[1].send_time <= now /\ forw_list[1] \in Packet
      BY <1>0, <2>2, ElementOfSeq DEF RelayedFirst
    <3>2. forw_list[1].send_time \in Int
      BY <3>1 DEF Packet
    <3> QED
      BY <2>1, <3>1, <3>2
  <2> QED
    BY <1>0, <2>1, <2>2 DEF OrderInv, RelayedFirst, SortedIn, PlainIn
<1> QED
  BY <1>1, <1>2, <1>3, <1>4, <1>5, <1>6, <1>7, <1>8, <1>9, <1>10, <1>11
     DEF Next, MainStep, Receive, Walk

\* The empty list is in order.
LEMMA InitOrder == Init => OrderInv
BY DEF Init, OrderInv, RelayedFirst, SortedIn, PlainIn

\* For every number of interfaces and whatever is relayed: when the loop of
\* batman() waits in select, forw_list is sorted by send time and nothing to be
\* relayed is left on it, so the timeout computed from its first element is right.
THEOREM ListSorted ==
    ASSUME JitterWithinInterval
    PROVE  Spec => []SortedWhenWaiting
<1>1. Inv /\ OrderInv /\ [Next]_vars => Inv' /\ OrderInv'
  BY NextInv, NextOrder
<1>2. Inv /\ OrderInv => SortedWhenWaiting
  BY DEF OrderInv, RelayedFirst, SortedIn, SortedWhenWaiting
<1> QED
  BY InitInv, InitOrder, <1>1, <1>2, PTL DEF Spec

\* The interfaces on which a packet goes out with the flag set.
LEMMA FlaggedFrames ==
    ASSUME NEW p \in Packet, p.own => ~ p.directlink
    PROVE  {f.on : f \in {g \in Frames(p) : g.directlink}}
             = IF p.directlink THEN {p.if_outgoing} ELSE {}
<1>0. p.if_outgoing \in Ifs /\ p.directlink \in BOOLEAN /\ p.own \in BOOLEAN
  BY DEF Packet
<1>1. CASE p.directlink /\ p.ttl = 1
  <2> DEFINE f == [on |-> p.if_outgoing, directlink |-> TRUE]
  <2>1. Frames(p) = {f}
    BY <1>1 DEF Frames
  <2>2. f.directlink /\ f.on = p.if_outgoing
    OBVIOUS
  <2> HIDE DEF f
  <2> QED
    BY <1>1, <2>1, <2>2
<1>2. CASE ~ (p.directlink /\ p.ttl = 1) /\ p.own /\ p.if_outgoing > 0
  <2>1. Frames(p) = {[on |-> p.if_outgoing, directlink |-> FALSE]}
    BY <1>2 DEF Frames
  <2> QED
    BY <1>2, <2>1
<1>3. CASE ~ (p.directlink /\ p.ttl = 1) /\ ~ (p.own /\ p.if_outgoing > 0)
  <2>1. Frames(p) = {[on |-> i, directlink |-> p.directlink /\ p.if_outgoing = i] : i \in Ifs}
    BY <1>3 DEF Frames
  <2>2. CASE p.directlink
    <3> DEFINE f == [on |-> p.if_outgoing, directlink |-> p.directlink /\ p.if_outgoing = p.if_outgoing]
    <3>1. f \in Frames(p) /\ f.directlink /\ f.on = p.if_outgoing
      BY <1>0, <2>1, <2>2
    <3>2. ASSUME NEW g \in Frames(p), g.directlink
          PROVE  g.on = p.if_outgoing
      <4>1. PICK i \in Ifs : g = [on |-> i, directlink |-> p.directlink /\ p.if_outgoing = i]
        BY <2>1
      <4>2. g.on = i /\ g.directlink = (p.directlink /\ p.if_outgoing = i)
        BY <4>1
      <4> QED
        BY <3>2, <4>2
    <3> HIDE DEF f
    <3> QED
      BY <2>2, <3>1, <3>2
  <2>3. CASE ~ p.directlink
    <3>1. ASSUME NEW g \in Frames(p)
          PROVE  ~ g.directlink
      <4>1. PICK i \in Ifs : g = [on |-> i, directlink |-> p.directlink /\ p.if_outgoing = i]
        BY <2>1
      <4>2. g.directlink = (p.directlink /\ p.if_outgoing = i)
        BY <4>1
      <4> QED
        BY <2>3, <4>2
    <3> QED
      BY <2>3, <3>1
  <2> QED
    BY <2>2, <2>3
<1> QED
  BY <1>1, <1>2, <1>3

\* For every number of interfaces: each packet leaves with the direct-link flag
\* on exactly the interface it was heard on, or on none.
THEOREM DirectLinkExact ==
    ASSUME JitterWithinInterval
    PROVE  Spec => DirectLinkOnItsInterface
<1> DEFINE Flagged ==
      \A k \in 1..Len(forw_list) :
          pc = "walk" /\ k = temp /\ forw_list' # forw_list =>
            {f.on : f \in {g \in tx' : g.directlink}}
              = IF forw_list[k].directlink THEN {forw_list[k].if_outgoing} ELSE {}
<1>1. Inv /\ OrderInv /\ [Next]_vars => Inv' /\ OrderInv'
  BY NextInv, NextOrder
<1>2. ASSUME Inv, OrderInv, [Next]_vars
      PROVE  [Flagged]_vars
  <2> SUFFICES ASSUME NEW k \in 1..Len(forw_list), pc = "walk", k = temp, forw_list' # forw_list
               PROVE  {f.on : f \in {g \in tx' : g.directlink}}
                        = IF forw_list[k].directlink THEN {forw_list[k].if_outgoing} ELSE {}
    OBVIOUS
  <2>1. SendRelayed \/ SendOwn
    BY <1>2 DEF Next, MainStep, Receive, Walk, StartInterface, ReceiveNothing,
       schedule_forward_packet, ReceiveEcho, StartWalk, SendFails, EndWalk,
       PurgeNeighbour, Shutdown, Tick, vars
  <2>2. tx' = Frames(forw_list[k])
    BY <2>1 DEF SendRelayed, SendOwn
  <2>3. forw_list[k] \in Packet
    BY <1>2, ElementOfSeq DEF Inv, TypeOK
  <2>4. forw_list[k].own => ~ forw_list[k].directlink
    BY <1>2 DEF OrderInv, PlainIn
  <2> QED
    BY <2>2, <2>3, <2>4, FlaggedFrames
<1>3. Inv /\ OrderInv /\ [Next]_vars => [Flagged]_vars
  BY <1>2
<1> QED
  BY InitInv, InitOrder, <1>1, <1>3, PTL DEF Spec, DirectLinkOnItsInterface

-----------------------------------------------------------------------------
(* Echoes.  One own message per interface is always queued, so the message *)
(* sent last is two behind out.seqno.                                      *)

\* The echo of an interface's message is heard on that interface only.
SeparateCells == \A e \in Echoes : e[1] = e[2]

\* A shift by one message is not a shift by the whole window.
WindowOfSeveral == W > 1

\* The sequence numbers of interface i have not wrapped yet.
BeforeWrap(i) == nsent[i] + 2 < SeqSpace

\* At start-up nobody has been heard, and the interfaces scheduled so far
\* have used their first number.
EchoBoot ==
    pc = "boot" =>
        /\ \A i \in Ifs : nsent[i] = 0 /\ out_seqno[i] = IF i < Len(forw_list) THEN 2 ELSE 1
        /\ \A n \in Neighs, i \in Ifs : bcast_own[n][i] = {} /\ heard[n][i] = {}

\* The numbers of interface i: the next one to schedule, those sent, and the
\* one queued.
EchoNumbers(i) ==
    /\ pc # "boot" => out_seqno[i] = nsent[i] + 2
    /\ \A lag \in 0..MaxLag : aired[i][lag] \in {NoSeqno, nsent[i] - lag}
    /\ \A k \in 1..Len(forw_list) : OwnAt(k, i) => forw_list[k].seqno = nsent[i] + 1

EchoInv ==
    /\ EchoBoot
    /\ \A i \in Ifs : BeforeWrap(i) =>
          EchoNumbers(i) /\ \A n \in Neighs : bcast_own[n][i] = heard[n][i]

\* A window after one more message.
ShiftOne(b) == {k \in Offsets : k - 1 \in b}

\* What schedule_own_packet does to the windows, the numbers and the packets.
LEMMA ScheduleNumbers ==
    ASSUME TypeOK, JitterWithinInterval, WindowOfSeveral, NEW i \in Ifs,
           NEW list \in Seq(Packet), NEW next, schedule_own_packet(i, list, next)
    PROVE  /\ out_seqno' = [out_seqno EXCEPT ![i] = (out_seqno[i] + 1) % SeqSpace]
           /\ \A n \in Neighs, j \in Ifs : bcast_own'[n][j] =
                 IF j = i THEN ShiftOne(bcast_own[n][i]) ELSE bcast_own[n][j]
           /\ \A k \in 1..Len(forw_list') :
                 \/ \E j \in 1..Len(list) : forw_list'[k] = list[j]
                 \/ forw_list'[k].if_outgoing = i /\ forw_list'[k].seqno = out_seqno[i]
<1> USE ScheduleAssumption, WindowAssumption
<1>1. Len(list) \in Nat
  BY LenProperties
<1>2. PICK t \in SendTimes, p \in 1..(Len(list) + 1) :
         forw_list' = InsertAt(list, p, OwnPacket(i, t))
  BY DEF schedule_own_packet
<1> DEFINE e == OwnPacket(i, t)
<1>3. e \in Packet /\ e.if_outgoing = i /\ e.seqno = out_seqno[i]
  BY SendTimesInFuture DEF OwnPacket, Packet, TypeOK, TTL
<1> HIDE DEF e
<1>4. /\ Len(forw_list') = Len(list) + 1
      /\ \A j \in 1..(Len(list) + 1) : forw_list'[j] =
            IF j < p THEN list[j] ELSE IF j = p THEN e ELSE list[j - 1]
  <2>1. e \in Packet
    BY <1>3
  <2>2. forw_list' = InsertAt(list, p, e)
    BY <1>2 DEF e
  <2>3. IsInsertion(forw_list', list, p, e)
    BY <2>1, <2>2, InsertPacket
  <2> QED
    BY <2>3 DEF IsInsertion
<1>5. ASSUME NEW k \in 1..Len(forw_list')
      PROVE  \/ \E j \in 1..Len(list) : forw_list'[k] = list[j]
             \/ forw_list'[k].if_outgoing = i /\ forw_list'[k].seqno = out_seqno[i]
  <2>1. CASE k < p
    <3>1. k \in 1..Len(list) /\ forw_list'[k] = list[k]
      BY <1>1, <1>4, <2>1
    <3> QED
      BY <3>1
  <2>2. CASE k = p
    BY <1>3, <1>4, <2>2
  <2>3. CASE k > p
    <3>1. k - 1 \in 1..Len(list) /\ forw_list'[k] = list[k - 1]
      BY <1>1, <1>4, <2>3
    <3> QED
      BY <3>1
  <2> QED
    BY <1>1, <1>4, <2>1, <2>2, <2>3
<1>6. out_seqno' = [out_seqno EXCEPT ![i] = (out_seqno[i] + 1) % SeqSpace]
  BY DEF schedule_own_packet
<1>7. ASSUME NEW b, NEW r \in bit_get_packet(b, 1, FALSE)
      PROVE  r.bits = ShiftOne(b)
  <2> DEFINE c == ShiftOne(b)
  <2>1. bit_shift(b, 1) = {c}
    BY DEF bit_shift, WindowOfSeveral, ShiftOne
  <2>2. ~ (-W <= 1 /\ 1 < 0) /\ ~ (1 > W \/ 1 < -W)
    BY DEF WindowOfSeveral
  <2>3. bit_get_packet(b, 1, FALSE) = {[bits |-> x, new |-> 1] : x \in bit_shift(b, 1)}
    BY <2>2 DEF bit_get_packet
  <2> HIDE DEF c
  <2>4. r = [bits |-> c, new |-> 1]
    BY <1>7, <2>1, <2>3
  <2> QED
    BY <2>4 DEF c
<1>8. \A n \in Neighs, j \in Ifs : bcast_own'[n][j] =
         IF j = i THEN ShiftOne(bcast_own[n][i]) ELSE bcast_own[n][j]
  <2>1. PICK own \in [Neighs -> SUBSET Offsets] :
          /\ \A n \in Neighs : \E r \in bit_get_packet(bcast_own[n][i], 1, FALSE) : own[n] = r.bits
          /\ bcast_own' = [n \in Neighs |-> [bcast_own[n] EXCEPT ![i] = own[n]]]
    BY DEF schedule_own_packet
  <2>2. \A n \in Neighs : own[n] = ShiftOne(bcast_own[n][i])
    BY <1>7, <2>1
  <2>3. \A n \in Neighs : bcast_own[n] \in [Ifs -> SUBSET Offsets]
    BY DEF TypeOK
  <2> QED
    BY <2>1, <2>2, <2>3
<1> QED
  BY <1>5, <1>6, <1>8

\* A step that adds no own packet and sends none leaves the numbers alone.
LEMMA SameNumbers ==
    ASSUME EchoInv, pc # "boot", pc' # "boot",
           UNCHANGED <<out_seqno, bcast_own, aired, nsent, heard>>,
           \A k \in 1..Len(forw_list') : forw_list'[k].own =>
              \E j \in 1..Len(forw_list) : forw_list'[k] = forw_list[j]
    PROVE  EchoInv'
<1>1. EchoBoot'
  BY DEF EchoBoot
<1>2. ASSUME NEW i \in Ifs, BeforeWrap(i)'
      PROVE  EchoNumbers(i)' /\ \A n \in Neighs : bcast_own'[n][i] = heard'[n][i]
  <2>1. EchoNumbers(i) /\ \A n \in Neighs : bcast_own[n][i] = heard[n][i]
    BY <1>2 DEF EchoInv, BeforeWrap
  <2>2. \A k \in 1..Len(forw_list') : OwnAt(k, i)' => forw_list'[k].seqno = nsent'[i] + 1
    BY <2>1 DEF EchoNumbers, OwnAt
  <2> QED
    BY <2>1, <2>2 DEF EchoNumbers
<1> QED
  BY <1>1, <1>2 DEF EchoInv

\* Every step keeps the correspondence of windows and echoes.
LEMMA NextEcho ==
    ASSUME Inv, EchoInv, JitterWithinInterval, SeparateCells, WindowOfSeveral, [Next]_vars
    PROVE  EchoInv'
<1> USE ScheduleAssumption, WindowAssumption
<1>0. /\ TypeOK /\ forw_list \in Seq(Packet) /\ Len(forw_list) \in Nat
      /\ EchoBoot /\ UniqueIn(forw_list)
  BY LenProperties DEF Inv, TypeOK, EchoInv
<1>b. \A i \in Ifs : nsent[i] \in Nat /\ out_seqno[i] \in SeqNos
  BY <1>0 DEF TypeOK
<1>1. CASE UNCHANGED vars
  BY <1>1 DEF vars, EchoInv, EchoBoot, EchoNumbers, BeforeWrap, OwnAt
<1>2. CASE StartInterface
  <2> DEFINE i == Len(forw_list)
  <2>1. i \in Ifs /\ ~ Owns(forw_list, i) /\ pc = "boot"
    BY <1>0, <1>2 DEF StartInterface, Inv, Booting, Ifs
  <2>2. /\ out_seqno' = [out_seqno EXCEPT ![i] = (out_seqno[i] + 1) % SeqSpace]
        /\ \A n \in Neighs, j \in Ifs : bcast_own'[n][j] =
              IF j = i THEN ShiftOne(bcast_own[n][i]) ELSE bcast_own[n][j]
        /\ \A k \in 1..Len(forw_list') :
              \/ \E j \in 1..Len(forw_list) : forw_list'[k] = forw_list[j]
              \/ forw_list'[k].if_outgoing = i /\ forw_list'[k].seqno = out_seqno[i]
    BY <1>0, <1>2, <2>1, ScheduleNumbers DEF StartInterface
  <2>3. Len(forw_list') = Len(forw_list) + 1
    BY <1>0, <1>2, <2>1, ScheduleOwn DEF StartInterface
  <2>4. aired' = aired /\ nsent' = nsent /\ heard' = heard
    BY <1>2 DEF StartInterface
  <2>5. \A j \in Ifs : nsent[j] = 0 /\ out_seqno[j] = IF j < Len(forw_list) THEN 2 ELSE 1
    BY <1>0, <2>1 DEF EchoBoot
  <2>6. \A j \in Ifs : out_seqno'[j] = IF j < Len(forw_list') THEN 2 ELSE 1
    <3>1. (1 + 1) % SeqSpace = 2
      OBVIOUS
    <3>2. \A j \in Ifs : j < i \/ j = i \/ j > i
      BY <1>0 DEF Ifs
    <3>3. out_seqno \in [Ifs -> SeqNos]
      BY <1>0 DEF TypeOK
    <3> QED
      BY <1>0, <2>1, <2>2, <2>3, <2>5, <3>1, <3>2, <3>3 DEF Ifs
  <2>7. \A n \in Neighs, j \in Ifs : bcast_own'[n][j] = {} /\ heard'[n][j] = {}
    <3>1. \A n \in Neighs, j \in Ifs : bcast_own[n][j] = {} /\ heard[n][j] = {}
      BY <1>0, <2>1 DEF EchoBoot
    <3>2. ShiftOne({}) = {}
      BY DEF ShiftOne
    <3>3. \A n \in Neighs : ShiftOne(bcast_own[n][i]) = {}
      BY <2>1, <3>1, <3>2
    <3>4. ASSUME NEW n \in Neighs, NEW j \in Ifs
          PROVE  bcast_own'[n][j] = {} /\ heard'[n][j] = {}
      <4>1. bcast_own'[n][j] = IF j = i THEN ShiftOne(bcast_own[n][i]) ELSE bcast_own[n][j]
        BY <2>2
      <4> QED
        BY <2>4, <3>1, <3>3, <4>1
    <3> QED
      BY <3>4
  <2>8. pc' # "boot" => Len(forw_list') = NIfs
    BY <1>2, <2>3 DEF StartInterface
  <2>9. EchoBoot'
    BY <2>4, <2>5, <2>6, <2>7 DEF EchoBoot
  <2>10. ASSUME NEW j \in Ifs, BeforeWrap(j)'
         PROVE  EchoNumbers(j)' /\ \A n \in Neighs : bcast_own'[n][j] = heard'[n][j]
    <3>1. EchoNumbers(j)
      BY <2>4, <2>10 DEF EchoInv, BeforeWrap
    <3>2. pc' # "boot" => out_seqno'[j] = nsent'[j] + 2
      <4>1. j < NIfs
        BY DEF Ifs
      <4> QED
        BY <2>4, <2>5, <2>6, <2>8, <4>1
    <3>3. ASSUME NEW k \in 1..Len(forw_list'), OwnAt(k, j)'
          PROVE  forw_list'[k].seqno = nsent'[j] + 1
      <4>1. CASE \E m \in 1..Len(forw_list) : forw_list'[k] = forw_list[m]
        BY <2>4, <3>1, <3>3, <4>1 DEF EchoNumbers, OwnAt
      <4>2. CASE forw_list'[k].if_outgoing = i /\ forw_list'[k].seqno = out_seqno[i]
        <5>1. j = i
          BY <3>3, <4>2 DEF OwnAt
        <5>2. out_seqno[i] = 1
          BY <1>0, <2>1, <2>5
        <5> QED
          BY <2>1, <2>4, <2>5, <4>2, <5>1, <5>2
      <4> QED
        BY <2>2, <4>1, <4>2
    <3> QED
      BY <2>4, <2>7, <3>1, <3>2, <3>3 DEF EchoNumbers
  <2> QED
    BY <2>9, <2>10 DEF EchoInv
<1>3. CASE ReceiveNothing \/ StartWalk \/ SendFails \/ EndWalk \/ Shutdown
  <2>1. pc # "boot" /\ pc' # "boot" /\ UNCHANGED <<out_seqno, bcast_own, aired, nsent, heard>>
    BY <1>3 DEF ReceiveNothing, StartWalk, SendFails, EndWalk, Shutdown
  <2>2. forw_list' = forw_list \/ forw_list' = <<>>
    BY <1>3 DEF ReceiveNothing, StartWalk, SendFails, EndWalk, Shutdown
  <2>3. \A k \in 1..Len(forw_list') : \E j \in 1..Len(forw_list) : forw_list'[k] = forw_list[j]
    BY <1>0, <2>2
  <2> QED
    BY <2>1, <2>3, SameNumbers
<1>4. ASSUME NEW i \in Ifs, NEW ttl \in RelayTtls, NEW d \in BOOLEAN,
             schedule_forward_packet(i, ttl, d)
      PROVE  EchoInv'
  <2> DEFINE e == [own |-> FALSE, if_outgoing |-> i, send_time |-> now,
                   seqno |-> 0, ttl |-> ttl, directlink |-> d]
             L == <<e>> \o forw_list
  <2>1. e.own = FALSE
    OBVIOUS
  <2>2. <<e>> \in Seq({e}) /\ Len(<<e>>) = 1 /\ <<e>>[1] = e
    OBVIOUS
  <2>3. forw_list' = L /\ pc = "select" /\ pc' = "send"
        /\ UNCHANGED <<out_seqno, bcast_own, aired, nsent, heard>>
    BY <1>4 DEF schedule_forward_packet
  <2>4. e \in Packet
    BY <1>0 DEF Packet, TypeOK, SeqNos
  <2> HIDE DEF e
  <2>5. /\ Len(L) = Len(forw_list) + 1
        /\ \A k \in 1..(Len(forw_list) + 1) : L[k] = IF k <= 1 THEN e ELSE forw_list[k - 1]
    <3>1. <<e>> \in Seq(Packet)
      BY <2>4
    <3> QED
      BY <1>0, <2>2, <3>1, ConcatProperties
  <2> HIDE DEF L
  <2>6. ASSUME NEW k \in 1..Len(L), L[k].own
        PROVE  \E j \in 1..Len(forw_list) : L[k] = forw_list[j]
    <3>1. k > 1
      BY <1>0, <2>1, <2>5, <2>6
    <3>2. k - 1 \in 1..Len(forw_list) /\ L[k] = forw_list[k - 1]
      BY <1>0, <2>5, <3>1
    <3> QED
      BY <3>2
  <2> QED
    BY <2>3, <2>6, SameNumbers
<1>5. ASSUME NEW n \in Neighs, NEW ec \in Echoes, NEW lag \in 0..MaxLag,
             ReceiveEcho(n, ec[1], ec[2], lag)
      PROVE  EchoInv'
  <2> DEFINE i == ec[2]
  <2>1. i \in Ifs /\ ec[1] = i
    BY DEF Ifs, SeparateCells
  <2>2. /\ pc = "select" /\ pc' = "send" /\ aired[i][lag] # NoSeqno
        /\ UNCHANGED <<forw_list, out_seqno, aired, nsent>>
    BY <1>5, <2>1 DEF ReceiveEcho
  <2>3. bcast_own' = IF aired[i][lag] - out_seqno[i] + 2 = 0
                     THEN [bcast_own EXCEPT ![n][i] = bcast_own[n][i] \cup {0}]
                     ELSE bcast_own
    <3>1. bit_mark(bcast_own[n][i], 0) = bcast_own[n][i] \cup {0}
      BY DEF bit_mark, Offsets
    <3>2. bcast_own' = IF aired[i][lag] - out_seqno[i] + 2 = 0
                       THEN [bcast_own EXCEPT ![n][i] = bit_mark(bcast_own[n][i], 0)]
                       ELSE bcast_own
      BY <1>5, <2>1 DEF ReceiveEcho
    <3> QED BY <3>1, <3>2
  <2>4. heard' = IF lag = 0 THEN [heard EXCEPT ![n][i] = heard[n][i] \cup {0}] ELSE heard
    BY <1>5, <2>1 DEF ReceiveEcho
  <2> HIDE DEF i
  <2>5. ASSUME NEW j \in Ifs, BeforeWrap(j)'
        PROVE  EchoNumbers(j)' /\ \A m \in Neighs : bcast_own'[m][j] = heard'[m][j]
    <3>1. EchoNumbers(j) /\ \A m \in Neighs : bcast_own[m][j] = heard[m][j]
      BY <2>2, <2>5 DEF EchoInv, BeforeWrap
    <3>2. EchoNumbers(j)'
      BY <2>2, <3>1 DEF EchoNumbers, OwnAt
    <3>3. ASSUME NEW m \in Neighs
          PROVE  bcast_own'[m][j] = heard'[m][j]
      <4>1. CASE m = n /\ j = i
        <5>1. aired[i][lag] = nsent[i] - lag /\ out_seqno[i] = nsent[i] + 2
          BY <2>2, <3>1, <4>1 DEF EchoNumbers
        <5>2. aired[i][lag] - out_seqno[i] + 2 = 0 <=> lag = 0
          BY <1>b, <2>1, <5>1
        <5>3. bcast_own[n] \in [Ifs -> SUBSET Offsets] /\ heard[n] \in [Ifs -> SUBSET Offsets]
          BY <1>0 DEF TypeOK
        <5>4. bcast_own'[n][i] = IF lag = 0 THEN bcast_own[n][i] \cup {0} ELSE bcast_own[n][i]
          BY <1>0, <2>1, <2>3, <5>2, <5>3 DEF TypeOK
        <5>5. heard'[n][i] = IF lag = 0 THEN heard[n][i] \cup {0} ELSE heard[n][i]
          BY <1>0, <2>1, <2>4, <5>3 DEF TypeOK
        <5> QED
          BY <3>1, <4>1, <5>4, <5>5
      <4>2. CASE ~ (m = n /\ j = i)
        <5>1. bcast_own'[m][j] = bcast_own[m][j]
          BY <1>0, <2>1, <2>3, <4>2 DEF TypeOK
        <5>2. heard'[m][j] = heard[m][j]
          BY <1>0, <2>1, <2>4, <4>2 DEF TypeOK
        <5> QED
          BY <3>1, <5>1, <5>2
      <4> QED BY <4>1, <4>2
    <3> QED BY <3>2, <3>3
  <2> QED
    BY <2>2, <2>5 DEF EchoInv, EchoBoot
<1>7. CASE SendRelayed
  <2>1. temp = 1 /\ Len(forw_list) >= 1 /\ pc = "walk" /\ pc' = "walk"
    BY <1>7, DueIsFirst DEF SendRelayed
  <2>2. /\ forw_list' = list_del(forw_list, 1)
        /\ UNCHANGED <<out_seqno, bcast_own, aired, nsent, heard>>
    BY <1>7, <2>1 DEF SendRelayed
  <2>3. /\ Len(forw_list') = Len(forw_list) - 1
        /\ \A k \in 1..(Len(forw_list) - 1) : forw_list'[k] = forw_list[k + 1]
    <3>1. 1 \in 1..Len(forw_list)
      BY <1>0, <2>1
    <3> DEFINE L == list_del(forw_list, 1)
    <3>2. Len(L) = Len(forw_list) - 1 /\ \A k \in 1..(Len(forw_list) - 1) : L[k] = forw_list[k + 1]
      BY <1>0, <3>1, DelProperties
    <3> HIDE DEF L
    <3>3. forw_list' = L
      BY <2>2 DEF L
    <3> QED BY <3>2, <3>3
  <2>4. ASSUME NEW k \in 1..Len(forw_list')
        PROVE  \E j \in 1..Len(forw_list) : forw_list'[k] = forw_list[j]
    <3>1. k + 1 \in 1..Len(forw_list) /\ forw_list'[k] = forw_list[k + 1]
      BY <1>0, <2>3
    <3> QED BY <3>1
  <2> QED
    BY <2>1, <2>2, <2>4, SameNumbers
<1>8. CASE SendOwn
  <2> DEFINE L == list_del(forw_list, 1)
  <2>1. /\ temp = 1 /\ Len(forw_list) >= 1 /\ forw_list[1] \in Packet
        /\ pc = "walk" /\ pc' = "walk" /\ forw_list[1].own
    BY <1>8, DueIsFirst DEF SendOwn
  <2>2. PICK i \in Ifs : i = forw_list[1].if_outgoing
    BY <2>1 DEF Packet
  <2>3. /\ L \in Seq(Packet)
        /\ Len(L) = Len(forw_list) - 1
        /\ \A k \in 1..(Len(forw_list) - 1) : L[k] = forw_list[k + 1]
    BY <1>0, <2>1, DelProperties
  <2>4. ~ Owns(L, i)
    BY <1>0, <2>1, <2>2, DelOwns
  <2>5. schedule_own_packet(i, L, Follower(1))
    BY <1>8, <2>1, <2>2 DEF SendOwn
  <2>6. /\ aired' = [aired EXCEPT ![i] = [lag \in 0..MaxLag |->
                         IF lag = 0 THEN forw_list[1].seqno ELSE aired[i][lag - 1]]]
        /\ nsent' = [nsent EXCEPT ![i] = nsent[i] + 1]
        /\ heard' = [n \in Neighs |->
                       [heard[n] EXCEPT ![i] = ShiftOne(heard[n][i])]]
    BY <1>8, <2>1, <2>2 DEF SendOwn, ShiftOne
  <2> HIDE DEF L
  <2>7. /\ out_seqno' = [out_seqno EXCEPT ![i] = (out_seqno[i] + 1) % SeqSpace]
        /\ \A n \in Neighs, j \in Ifs : bcast_own'[n][j] =
              IF j = i THEN ShiftOne(bcast_own[n][i]) ELSE bcast_own[n][j]
        /\ \A k \in 1..Len(forw_list') :
              \/ \E j \in 1..Len(L) : forw_list'[k] = L[j]
              \/ forw_list'[k].if_outgoing = i /\ forw_list'[k].seqno = out_seqno[i]
    BY <1>0, <2>2, <2>3, <2>5, ScheduleNumbers
  <2>8. \A n \in Neighs, j \in Ifs : heard'[n][j] =
           IF j = i THEN ShiftOne(heard[n][i]) ELSE heard[n][j]
    <3>1. \A n \in Neighs : heard[n] \in [Ifs -> SUBSET Offsets]
      BY <1>0 DEF TypeOK
    <3> QED BY <2>2, <2>6, <3>1
  <2>9. ASSUME NEW k \in 1..Len(L)
        PROVE  \E j \in 1..Len(forw_list) : L[k] = forw_list[j]
    <3>1. k + 1 \in 1..Len(forw_list) /\ L[k] = forw_list[k + 1]
      BY <1>0, <2>3
    <3> QED BY <3>1
  <2>10. ASSUME NEW j \in Ifs, j # i, BeforeWrap(j)'
         PROVE  EchoNumbers(j)' /\ \A n \in Neighs : bcast_own'[n][j] = heard'[n][j]
    <3>1. nsent'[j] = nsent[j] /\ out_seqno'[j] = out_seqno[j] /\ aired'[j] = aired[j]
      BY <1>0, <2>2, <2>6, <2>7, <2>10 DEF TypeOK
    <3>2. EchoNumbers(j) /\ \A n \in Neighs : bcast_own[n][j] = heard[n][j]
      BY <2>10, <3>1 DEF EchoInv, BeforeWrap
    <3>3. ASSUME NEW k \in 1..Len(forw_list'), OwnAt(k, j)'
          PROVE  forw_list'[k].seqno = nsent[j] + 1
      <4>1. PICK m \in 1..Len(L) : forw_list'[k] = L[m]
        BY <2>7, <2>10, <3>3 DEF OwnAt
      <4>2. PICK q \in 1..Len(forw_list) : L[m] = forw_list[q]
        BY <2>9
      <4>3. OwnAt(q, j)
        BY <3>3, <4>1, <4>2 DEF OwnAt
      <4> QED
        BY <3>2, <4>1, <4>2, <4>3 DEF EchoNumbers
    <3>4. \A n \in Neighs : bcast_own'[n][j] = heard'[n][j]
      BY <2>7, <2>8, <2>10, <3>2
    <3> QED
      BY <2>1, <3>1, <3>2, <3>3, <3>4 DEF EchoNumbers
  <2>11. ASSUME BeforeWrap(i)'
         PROVE  EchoNumbers(i)' /\ \A n \in Neighs : bcast_own'[n][i] = heard'[n][i]
    <3>1. nsent'[i] = nsent[i] + 1 /\ nsent[i] \in Nat
      BY <1>0, <2>2, <2>6 DEF TypeOK
    <3>2. BeforeWrap(i) /\ nsent[i] + 3 < SeqSpace
      BY <2>11, <3>1 DEF BeforeWrap
    <3>3. EchoNumbers(i) /\ \A n \in Neighs : bcast_own[n][i] = heard[n][i]
      BY <2>2, <3>2 DEF EchoInv
    <3>4. out_seqno[i] = nsent[i] + 2
      BY <2>1, <3>3 DEF EchoNumbers
    <3>5. out_seqno'[i] = nsent'[i] + 2
      <4>1. (nsent[i] + 2 + 1) % SeqSpace = nsent[i] + 3
        BY <3>1, <3>2
      <4>2. out_seqno'[i] = (out_seqno[i] + 1) % SeqSpace
        BY <1>0, <2>2, <2>7 DEF TypeOK
      <4> QED
        BY <3>1, <3>4, <4>1, <4>2
    <3>6. ASSUME NEW lag \in 0..MaxLag
          PROVE  aired'[i][lag] \in {NoSeqno, nsent'[i] - lag}
      <4>1. aired'[i][lag] = IF lag = 0 THEN forw_list[1].seqno ELSE aired[i][lag - 1]
        BY <1>0, <2>2, <2>6 DEF TypeOK
      <4>2. CASE lag = 0
        <5>1. 1 \in 1..Len(forw_list) /\ OwnAt(1, i)
          BY <1>0, <2>1, <2>2 DEF OwnAt
        <5>2. forw_list[1].seqno = nsent[i] + 1
          BY <3>3, <5>1 DEF EchoNumbers
        <5> QED
          BY <3>1, <4>1, <4>2, <5>2
      <4>3. CASE lag # 0
        <5>1. lag - 1 \in 0..MaxLag
          BY <4>3
        <5>2. aired[i][lag - 1] \in {NoSeqno, nsent[i] - (lag - 1)}
          BY <3>3, <5>1 DEF EchoNumbers
        <5> QED
          BY <3>1, <4>1, <4>3, <5>2
      <4> QED BY <4>2, <4>3
    <3>7. ASSUME NEW k \in 1..Len(forw_list'), OwnAt(k, i)'
          PROVE  forw_list'[k].seqno = nsent'[i] + 1
      <4>1. ~ \E m \in 1..Len(L) : forw_list'[k] = L[m]
        BY <2>4, <3>7 DEF Owns, OwnAt
      <4> QED
        BY <2>7, <3>1, <3>4, <4>1
    <3>8. \A n \in Neighs : bcast_own'[n][i] = heard'[n][i]
      BY <2>2, <2>7, <2>8, <3>3
    <3> QED
      BY <3>5, <3>6, <3>7, <3>8 DEF EchoNumbers
  <2>12. EchoBoot'
    BY <2>1 DEF EchoBoot
  <2> QED
    BY <2>2, <2>10, <2>11, <2>12 DEF EchoInv
<1>11. ASSUME NEW n \in Neighs, PurgeNeighbour(n)
       PROVE  EchoInv'
  <2>1. /\ pc = "select" /\ pc' = pc /\ UNCHANGED <<forw_list, out_seqno, aired, nsent>>
        /\ bcast_own' = [bcast_own EXCEPT ![n] = [i \in Ifs |-> {}]]
        /\ heard' = [heard EXCEPT ![n] = [i \in Ifs |-> {}]]
    BY <1>11 DEF PurgeNeighbour
  <2>2. ASSUME NEW j \in Ifs, BeforeWrap(j)'
        PROVE  EchoNumbers(j)' /\ \A m \in Neighs : bcast_own'[m][j] = heard'[m][j]
    <3>1. EchoNumbers(j) /\ \A m \in Neighs : bcast_own[m][j] = heard[m][j]
      BY <2>1, <2>2 DEF EchoInv, BeforeWrap
    <3>2. EchoNumbers(j)'
      BY <2>1, <3>1 DEF EchoNumbers, OwnAt
    <3>3. \A m \in Neighs : bcast_own'[m][j] = heard'[m][j]
      BY <1>0, <2>1, <3>1 DEF TypeOK
    <3> QED BY <3>2, <3>3
  <2> QED
    BY <2>1, <2>2 DEF EchoInv, EchoBoot
<1>13. CASE Tick
  BY <1>13 DEF Tick, EchoInv, EchoBoot, EchoNumbers, BeforeWrap, OwnAt
<1> QED
  BY <1>1, <1>2, <1>3, <1>4, <1>5, <1>7, <1>8, <1>11, <1>13
     DEF Next, MainStep, Receive, Walk

\* Nothing is sent or heard yet.
LEMMA InitEcho == Init => EchoInv
<1> SUFFICES ASSUME Init
             PROVE  EchoInv
  OBVIOUS
<1>1. Len(forw_list) = 0
  BY DEF Init
<1> QED
  BY <1>1, ScheduleAssumption DEF Init, EchoInv, EchoBoot, EchoNumbers, Ifs

\* For every number of interfaces and neighbours: as long as the sequence
\* numbers have not wrapped, bcast_own holds exactly the own messages whose
\* echo came back, although one message is always queued and the number in
\* out.seqno is two ahead of the one that is echoed.
THEOREM EchoesCounted ==
    ASSUME JitterWithinInterval, SeparateCells, WindowOfSeveral
    PROVE  Spec => []((\A i \in Ifs : BeforeWrap(i)) => EchoWindow)
<1> DEFINE P == (\A i \in Ifs : BeforeWrap(i)) => EchoWindow
<1>1. Inv /\ EchoInv /\ [Next]_vars => Inv' /\ EchoInv'
  BY NextInv, NextEcho
<1>2. Inv /\ EchoInv => P
  <2> SUFFICES ASSUME Inv, EchoInv, \A i \in Ifs : BeforeWrap(i)
               PROVE  bcast_own = heard
    BY DEF EchoWindow
  <2>1. /\ bcast_own \in [Neighs -> [Ifs -> SUBSET Offsets]]
        /\ heard \in [Neighs -> [Ifs -> SUBSET Offsets]]
    BY DEF Inv, TypeOK
  <2>2. \A n \in Neighs, i \in Ifs : bcast_own[n][i] = heard[n][i]
    BY DEF EchoInv
  <2>3. \A n \in Neighs : bcast_own[n] = heard[n]
    BY <2>1, <2>2
  <2> QED
    BY <2>1, <2>3
<1> HIDE DEF P
<1>3. Spec => []P
  BY InitInv, InitEcho, <1>1, <1>2, PTL DEF Spec
<1> QED
  BY <1>3 DEF P

-----------------------------------------------------------------------------
(* The list implements one timer per interface (module OgmTimer): every    *)
(* step is a step of the timers or leaves them alone.                      *)

\* When the own message of interface i on a list is due.
TimeOf(list, i) ==
    list[CHOOSE k \in 1..Len(list) : list[k].own /\ list[k].if_outgoing = i].send_time

\* The timers, the armed ones and the state of the daemon that the list stands for.
TimerBar ==
    [i \in Ifs |-> IF pc # "exit" /\ Owns(forw_list, i) THEN TimeOf(forw_list, i) ELSE 0]

ArmedBar ==
    IF pc = "exit" THEN {}
    ELSE IF pc = "boot" THEN 0..(Len(forw_list) - 1) ELSE Ifs

\* An interface has one own message at most, so any it has is the one chosen.
LEMMA TimeOfIs ==
    ASSUME NEW list, UniqueIn(list), NEW i, NEW k \in 1..Len(list),
           list[k].own, list[k].if_outgoing = i
    PROVE  TimeOf(list, i) = list[k].send_time
<1> DEFINE c == CHOOSE j \in 1..Len(list) : list[j].own /\ list[j].if_outgoing = i
<1>1. c \in 1..Len(list) /\ list[c].own /\ list[c].if_outgoing = i
  OBVIOUS
<1>2. TimeOf(list, i) = list[c].send_time
  BY DEF TimeOf
<1> HIDE DEF c
<1>3. c = k
  BY <1>1 DEF UniqueIn
<1> QED
  BY <1>2, <1>3

\* A packet that is on both lists is due at the same time on both.
LEMMA SameTime ==
    ASSUME NEW list, NEW other, UniqueIn(list), UniqueIn(other), NEW i,
           Owns(list, i),
           \A k \in 1..Len(list) : list[k].own /\ list[k].if_outgoing = i =>
              \E j \in 1..Len(other) : list[k] = other[j]
    PROVE  TimeOf(list, i) = TimeOf(other, i)
<1>1. PICK k \in 1..Len(list) : list[k].own /\ list[k].if_outgoing = i
  BY DEF Owns
<1>2. PICK j \in 1..Len(other) : list[k] = other[j]
  BY <1>1
<1>3. TimeOf(list, i) = list[k].send_time
  BY <1>1, TimeOfIs
<1>4. TimeOf(other, i) = other[j].send_time
  BY <1>1, <1>2, TimeOfIs
<1> QED
  BY <1>2, <1>3, <1>4

\* A new own message is due one interval from now, give or take the jitter.
LEMMA ExpiryRange ==
    ASSUME TypeOK, JitterWithinInterval, NEW t \in SendTimes
    PROVE  t \in Timers!Expiries
<1> USE ScheduleAssumption
<1>1. PICK r \in rand_num(2 * Jitter) : t = (now + Interval - Jitter + r) % ClockMod
  BY DEF SendTimes
<1>2. r \in Nat /\ r <= 2 * Jitter
  BY DEF rand_num
<1>3. now \in Nat /\ now <= MaxTime
  BY DEF TypeOK
<1> DEFINE x == now + Interval - Jitter + r
<1>4. x \in Nat /\ x < ClockMod
  BY <1>2, <1>3 DEF JitterWithinInterval
<1> HIDE DEF x
<1>5. x % ClockMod = x
  BY <1>4
<1> QED
  BY <1>1, <1>2, <1>3, <1>4, <1>5 DEF x, Timers!Expiries

\* schedule_own_packet sets the timer of i and no other one.
LEMMA ScheduleTimer ==
    ASSUME TypeOK, JitterWithinInterval, NEW i \in Ifs, NEW list \in Seq(Packet),
           UniqueIn(list), ~ Owns(list, i), NEW next \in {0, 1}, next <= Len(list),
           schedule_own_packet(i, list, next)
    PROVE  /\ TimeOf(forw_list', i) \in Timers!Expiries
           /\ \A j \in Ifs : Owns(list, j) => TimeOf(forw_list', j) = TimeOf(list, j)
<1> USE ScheduleAssumption, WindowAssumption
<1>1. Len(list) \in Nat
  BY LenProperties
<1>2. PICK t \in SendTimes, p \in 1..(Len(list) + 1) :
         forw_list' = InsertAt(list, p, OwnPacket(i, t))
  BY DEF schedule_own_packet
<1> DEFINE e == OwnPacket(i, t)
<1>3. e \in Packet /\ e.own /\ e.if_outgoing = i /\ e.send_time = t
  BY SendTimesInFuture DEF OwnPacket, Packet, TypeOK, TTL
<1> HIDE DEF e
<1>4. /\ Len(forw_list') = Len(list) + 1
      /\ \A j \in 1..(Len(list) + 1) : forw_list'[j] =
            IF j < p THEN list[j] ELSE IF j = p THEN e ELSE list[j - 1]
  <2>1. e \in Packet
    BY <1>3
  <2>2. forw_list' = InsertAt(list, p, e)
    BY <1>2 DEF e
  <2>3. IsInsertion(forw_list', list, p, e)
    BY <2>1, <2>2, InsertPacket
  <2> QED
    BY <2>3 DEF IsInsertion
<1>5. UniqueIn(forw_list')
  BY ScheduleOwn
<1>6. p \in 1..Len(forw_list') /\ forw_list'[p] = e
  BY <1>1, <1>4
<1>7. TimeOf(forw_list', i) = t
  BY <1>3, <1>5, <1>6, TimeOfIs
<1>8. ASSUME NEW j \in Ifs, Owns(list, j)
      PROVE  TimeOf(list, j) = TimeOf(forw_list', j)
  <2>1. ASSUME NEW k \in 1..Len(list)
        PROVE  \E m \in 1..Len(forw_list') : list[k] = forw_list'[m]
    <3>1. CASE k < p
      <4>1. k \in 1..Len(forw_list') /\ list[k] = forw_list'[k]
        BY <1>1, <1>4, <3>1
      <4> QED BY <4>1
    <3>2. CASE k >= p
      <4>1. k + 1 \in 1..Len(forw_list') /\ list[k] = forw_list'[k + 1]
        BY <1>1, <1>4, <3>2
      <4> QED BY <4>1
    <3> QED BY <1>1, <3>1, <3>2
  <2> QED
    BY <1>5, <1>8, <2>1, SameTime
<1> QED
  BY <1>7, <1>8, ExpiryRange

\* A step that changes neither the daemon's own packets nor its clock leaves
\* every timer as it is.
LEMMA TimersUntouched ==
    ASSUME Inv, Inv', pc # "boot", pc' # "boot", pc # "exit", pc' # "exit",
           UNCHANGED <<now, nsent>>,
           \A k \in 1..Len(forw_list') : forw_list'[k].own =>
              \E j \in 1..Len(forw_list) : forw_list'[k] = forw_list[j]
    PROVE  TimerBar' = TimerBar /\ ArmedBar' = ArmedBar
<1>1. UniqueIn(forw_list) /\ UniqueIn(forw_list')
  BY DEF Inv
<1>2. \A i \in Ifs : Owns(forw_list, i) /\ Owns(forw_list', i)
  BY DEF Inv, Present
<1>3. \A i \in Ifs : TimeOf(forw_list', i) = TimeOf(forw_list, i)
  BY <1>1, <1>2, SameTime
<1>4. TimerBar = [i \in Ifs |-> TimeOf(forw_list, i)]
  BY <1>2 DEF TimerBar
<1>5. TimerBar' = [i \in Ifs |-> TimeOf(forw_list', i)]
  BY <1>2 DEF TimerBar
<1> QED
  BY <1>3, <1>4, <1>5 DEF ArmedBar

\* The substitution of Timers, in terms of the lists.
LEMMA BarIs ==
    /\ Timers!tvars = <<now, ArmedBar, TimerBar, nsent, pc # "exit">>
    /\ Timers!tvars' = <<now', ArmedBar', TimerBar', nsent', pc' # "exit">>
BY DEF Timers!tvars, ArmedBar, TimerBar, TimeOf, Owns, OwnAt

\* The actions of the timers, in the same terms.
LEMMA TimerSteps ==
    /\ \A i \in Ifs : Timers!Arm(i) <=>
          /\ pc # "exit" /\ i \notin ArmedBar /\ ArmedBar' = ArmedBar \cup {i}
          /\ \E t \in Timers!Expiries : TimerBar' = [TimerBar EXCEPT ![i] = t]
          /\ now' = now /\ nsent' = nsent /\ (pc' # "exit") = (pc # "exit")
    /\ \A i \in Ifs : Timers!Fire(i) <=>
          /\ pc # "exit" /\ i \in ArmedBar /\ TimerBar[i] <= now
          /\ nsent' = [nsent EXCEPT ![i] = nsent[i] + 1]
          /\ \E t \in Timers!Expiries : TimerBar' = [TimerBar EXCEPT ![i] = t]
          /\ now' = now /\ ArmedBar' = ArmedBar /\ (pc' # "exit") = (pc # "exit")
    /\ Timers!Advance <=>
          /\ pc # "exit" /\ now' = now + 1
          /\ ArmedBar' = ArmedBar /\ TimerBar' = TimerBar /\ nsent' = nsent
          /\ (pc' # "exit") = (pc # "exit")
    /\ Timers!Stop <=>
          /\ pc # "exit" /\ (pc' # "exit") = FALSE
          /\ ArmedBar' = {} /\ TimerBar' = [i \in Ifs |-> 0]
          /\ now' = now /\ nsent' = nsent
BY DEF Timers!Arm, Timers!Fire, Timers!Advance, Timers!Stop,
       ArmedBar, TimerBar, TimeOf, Owns, OwnAt

\* Scheduling the first message of an interface arms its timer.
LEMMA StartArms ==
    ASSUME Inv, JitterWithinInterval, StartInterface
    PROVE  Timers!Arm(Len(forw_list)) /\ Len(forw_list) \in Ifs
<1> USE ScheduleAssumption, WindowAssumption
<1>0. /\ TypeOK /\ forw_list \in Seq(Packet) /\ Len(forw_list) \in Nat /\ UniqueIn(forw_list)
  BY LenProperties DEF Inv, TypeOK
<1>1. PICK i \in Ifs : i = Len(forw_list)
  BY <1>0 DEF StartInterface, Ifs
<1>2. ~ Owns(forw_list, i) /\ pc = "boot"
  BY <1>0, <1>1 DEF StartInterface, Inv, Booting
<1>3. schedule_own_packet(i, forw_list, 0)
  BY <1>1 DEF StartInterface
<1>4. /\ Len(forw_list') = Len(forw_list) + 1
      /\ \A j \in Ifs : Owns(forw_list', j) <=> Owns(forw_list, j) \/ j = i
  BY <1>0, <1>2, <1>3, ScheduleOwn
<1>5. /\ TimeOf(forw_list', i) \in Timers!Expiries
      /\ \A j \in Ifs : Owns(forw_list, j) => TimeOf(forw_list', j) = TimeOf(forw_list, j)
  BY <1>0, <1>2, <1>3, ScheduleTimer
<1>6. pc' # "exit" /\ now' = now /\ nsent' = nsent
      /\ pc' = IF Len(forw_list) + 1 = NIfs THEN "select" ELSE "boot"
  BY DEF StartInterface
<1>7. TimerBar' = [TimerBar EXCEPT ![i] = TimeOf(forw_list', i)]
  BY <1>2, <1>4, <1>5, <1>6 DEF TimerBar
<1>8. ArmedBar = 0..(i - 1) /\ i \notin ArmedBar
  BY <1>0, <1>1, <1>2 DEF ArmedBar
<1>9. ArmedBar' = 0..i
  BY <1>0, <1>1, <1>4, <1>6 DEF ArmedBar, Ifs
<1>10. 0..i = 0..(i - 1) \cup {i}
  BY <1>0, <1>1
<1> QED
  BY <1>1, <1>2, <1>5, <1>6, <1>7, <1>8, <1>9, <1>10, TimerSteps

\* Sending an own message is the expiry of its interface's timer.
LEMMA SendFires ==
    ASSUME Inv, JitterWithinInterval, SendOwn
    PROVE  \E i \in Ifs : Timers!Fire(i)
<1> USE ScheduleAssumption, WindowAssumption
<1>0. /\ TypeOK /\ forw_list \in Seq(Packet) /\ Len(forw_list) \in Nat /\ UniqueIn(forw_list)
  BY LenProperties DEF Inv, TypeOK
<1> DEFINE L == list_del(forw_list, 1)
           next == Follower(1)
<1>1. /\ temp = 1 /\ Len(forw_list) >= 1 /\ forw_list[1] \in Packet
      /\ pc = "walk" /\ forw_list[1].own /\ 1 \in 1..Len(forw_list)
  BY <1>0, DueIsFirst DEF SendOwn
<1>2. PICK i \in Ifs : i = forw_list[1].if_outgoing
  BY <1>1 DEF Packet
<1>3. /\ L \in Seq(Packet) /\ Len(L) = Len(forw_list) - 1
      /\ \A j \in 1..(Len(forw_list) - 1) : L[j] = forw_list[j + 1]
  <2>1. IsRest(L, forw_list)
    BY <1>0, <1>1, DelFirst
  <2> QED BY <2>1 DEF IsRest
<1>4. /\ UniqueIn(L)
      /\ ~ Owns(L, i)
      /\ \A j \in Ifs : Owns(L, j) <=> Owns(forw_list, j) /\ j # i
  BY <1>0, <1>1, <1>2, DelOwns
<1>5. next \in {0, 1} /\ next <= Len(L)
  BY <1>0, <1>1, <1>3 DEF Follower
<1>6. schedule_own_packet(i, L, next)
  BY <1>1, <1>2 DEF SendOwn
<1> HIDE DEF L, next
<1>7. \A j \in Ifs : Owns(forw_list', j) <=> Owns(L, j) \/ j = i
  BY <1>0, <1>3, <1>4, <1>5, <1>6, ScheduleOwn
<1>8. /\ TimeOf(forw_list', i) \in Timers!Expiries
      /\ \A j \in Ifs : Owns(L, j) => TimeOf(forw_list', j) = TimeOf(L, j)
  BY <1>0, <1>3, <1>4, <1>5, <1>6, ScheduleTimer
<1>9. \A j \in Ifs : Owns(L, j) => TimeOf(L, j) = TimeOf(forw_list, j)
  <2>1. ASSUME NEW k \in 1..Len(L)
        PROVE  \E m \in 1..Len(forw_list) : L[k] = forw_list[m]
    <3>1. k + 1 \in 1..Len(forw_list) /\ L[k] = forw_list[k + 1]
      BY <1>0, <1>3
    <3> QED BY <3>1
  <2> QED
    BY <1>0, <1>4, <2>1, SameTime
<1>10. now' = now /\ pc' = pc /\ nsent' = [nsent EXCEPT ![i] = nsent[i] + 1]
  BY <1>1, <1>2 DEF SendOwn
<1>11. \A j \in Ifs : Owns(forw_list, j)
  BY <1>1 DEF Inv, Present
<1>12. TimerBar' = [TimerBar EXCEPT ![i] = TimeOf(forw_list', i)]
  BY <1>1, <1>4, <1>7, <1>8, <1>9, <1>10, <1>11 DEF TimerBar
<1>13. TimerBar[i] <= now
  <2>1. TimerBar[i] = forw_list[1].send_time
    <3>1. TimeOf(forw_list, i) = forw_list[1].send_time
      BY <1>0, <1>1, <1>2, TimeOfIs
    <3> QED
      BY <1>1, <1>11, <3>1 DEF TimerBar
  <2>2. forw_list[1].send_time <= curr_time /\ curr_time <= now
    BY <1>1 DEF SendOwn, Due, Inv, WalkSafe
  <2>3. forw_list[1].send_time \in Int /\ curr_time \in Int /\ now \in Int
    BY <1>0, <1>1 DEF Packet, TypeOK
  <2> QED
    BY <2>1, <2>2, <2>3
<1>14. i \in ArmedBar /\ ArmedBar' = ArmedBar
  BY <1>1, <1>10 DEF ArmedBar
<1> QED
  BY <1>1, <1>8, <1>10, <1>12, <1>13, <1>14, TimerSteps

\* Every step of the daemon is a step of the timers or leaves them alone.
LEMMA NextTimers ==
    ASSUME Inv, Inv', JitterWithinInterval, [Next]_vars
    PROVE  [Timers!TNext]_(Timers!tvars)
<1> USE ScheduleAssumption
<1>0. /\ TypeOK /\ forw_list \in Seq(Packet) /\ Len(forw_list) \in Nat
  BY LenProperties DEF Inv, TypeOK
<1>1. CASE UNCHANGED vars
  <2>1. UNCHANGED Timers!tvars
    BY <1>1, BarIs DEF vars, ArmedBar, TimerBar, TimeOf, Owns
  <2> QED BY <2>1
<1>2. CASE StartInterface
  BY <1>2, StartArms DEF Timers!TNext
<1>3. CASE SendOwn
  BY <1>3, SendFires DEF Timers!TNext
<1>4. CASE Shutdown \/ SendFails
  <2>1. pc # "exit" /\ pc' = "exit" /\ now' = now /\ nsent' = nsent
    BY <1>4 DEF Shutdown, SendFails
  <2>2. Timers!Stop
    BY <2>1, TimerSteps DEF ArmedBar, TimerBar
  <2> QED BY <2>2 DEF Timers!TNext
<1>5. CASE Tick
  <2>1. pc # "exit" /\ pc' = pc /\ now' = now + 1 /\ nsent' = nsent /\ forw_list' = forw_list
    BY <1>5 DEF Tick
  <2>2. Timers!Advance
    BY <2>1, TimerSteps DEF ArmedBar, TimerBar, TimeOf, Owns
  <2> QED BY <2>2 DEF Timers!TNext
<1>6. ASSUME pc \notin {"boot", "exit"}, pc' \notin {"boot", "exit"}, UNCHANGED <<now, nsent>>,
             \A k \in 1..Len(forw_list') : forw_list'[k].own =>
                \E j \in 1..Len(forw_list) : forw_list'[k] = forw_list[j]
      PROVE  UNCHANGED Timers!tvars
  <2>1. TimerBar' = TimerBar /\ ArmedBar' = ArmedBar
    BY <1>6, TimersUntouched
  <2>2. (pc' # "exit") = (pc # "exit")
    BY <1>6
  <2> QED
    BY <1>6, <2>1, <2>2, BarIs
<1>7. CASE SendRelayed
  <2>1. temp = 1 /\ Len(forw_list) >= 1 /\ pc = "walk" /\ pc' = "walk" /\ UNCHANGED <<now, nsent>>
    BY <1>7, DueIsFirst DEF SendRelayed
  <2> DEFINE L == list_del(forw_list, 1)
  <2>2. Len(L) = Len(forw_list) - 1 /\ \A k \in 1..(Len(forw_list) - 1) : L[k] = forw_list[k + 1]
    <3>1. IsRest(L, forw_list)
      BY <1>0, <2>1, DelFirst
    <3> QED BY <3>1 DEF IsRest
  <2> HIDE DEF L
  <2>3. forw_list' = L
    BY <1>7, <2>1 DEF SendRelayed, L
  <2>4. ASSUME NEW k \in 1..Len(L)
        PROVE  \E j \in 1..Len(forw_list) : L[k] = forw_list[j]
    <3>1. k + 1 \in 1..Len(forw_list) /\ L[k] = forw_list[k + 1]
      BY <1>0, <2>2
    <3> QED BY <3>1
  <2> QED
    BY <1>6, <2>1, <2>3, <2>4
<1>8. ASSUME NEW i \in Ifs, NEW ttl \in RelayTtls, NEW d \in BOOLEAN,
             schedule_forward_packet(i, ttl, d)
      PROVE  UNCHANGED Timers!tvars
  <2> DEFINE e == [own |-> FALSE, if_outgoing |-> i, send_time |-> now,
                   seqno |-> 0, ttl |-> ttl, directlink |-> d]
             L == <<e>> \o forw_list
  <2>1. e \in Packet /\ e.own = FALSE
    BY <1>0, WindowAssumption DEF Packet, TypeOK, SeqNos
  <2>2. forw_list' = L /\ pc = "select" /\ pc' = "send" /\ UNCHANGED <<now, nsent>>
    BY <1>8 DEF schedule_forward_packet
  <2> HIDE DEF e
  <2>3. /\ Len(L) = Len(forw_list) + 1
        /\ \A k \in 1..(Len(forw_list) + 1) : L[k] = IF k <= 1 THEN e ELSE forw_list[k - 1]
    <3>1. <<e>> \in Seq(Packet) /\ Len(<<e>>) = 1 /\ <<e>>[1] = e
      BY <2>1
    <3> QED
      BY <1>0, <3>1, ConcatProperties
  <2> HIDE DEF L
  <2>4. ASSUME NEW k \in 1..Len(L), L[k].own
        PROVE  \E j \in 1..Len(forw_list) : L[k] = forw_list[j]
    <3>1. k > 1
      BY <1>0, <2>1, <2>3, <2>4
    <3>2. k - 1 \in 1..Len(forw_list) /\ L[k] = forw_list[k - 1]
      BY <1>0, <2>3, <3>1
    <3> QED BY <3>2
  <2> QED
    BY <1>6, <2>2, <2>4
<1>9. ASSUME NEW n \in Neighs, NEW ec \in Echoes, NEW lag \in 0..MaxLag,
             ReceiveEcho(n, ec[1], ec[2], lag)
      PROVE  UNCHANGED Timers!tvars
  <2>1. pc = "select" /\ pc' = "send" /\ UNCHANGED <<now, nsent, forw_list>>
    BY <1>9 DEF ReceiveEcho
  <2> QED
    BY <1>6, <2>1
<1>10. CASE ReceiveNothing \/ StartWalk \/ EndWalk \/ \E n \in Neighs : PurgeNeighbour(n)
  <2>1. /\ pc \notin {"boot", "exit"} /\ pc' \notin {"boot", "exit"}
        /\ UNCHANGED <<now, nsent, forw_list>>
    BY <1>10 DEF ReceiveNothing, StartWalk, EndWalk, PurgeNeighbour
  <2> QED
    BY <1>6, <2>1
<1> QED
  BY <1>1, <1>2, <1>3, <1>4, <1>5, <1>7, <1>8, <1>9, <1>10
     DEF Next, MainStep, Receive, Walk

\* At start-up no timer is armed.
LEMMA InitTimers == Init => Timers!TInit
<1> SUFFICES ASSUME Init
             PROVE  Timers!TInit
  OBVIOUS
<1>1. Len(forw_list) = 0
  BY DEF Init
<1>2. ~ \E k \in 1..Len(forw_list) : TRUE
  BY <1>1
<1> QED
  BY <1>1, <1>2 DEF Init, Timers!TInit

\* The safety part of ImplementsTimers, for every number of interfaces and
\* whatever is relayed: the packet list of schedule.c behaves like one timer
\* per interface that is armed once, fires only when it has expired, and is
\* then set again one jittered interval ahead.
THEOREM ListImplementsTimers ==
    ASSUME JitterWithinInterval
    PROVE  Spec => Timers!TInit /\ [][Timers!TNext]_(Timers!tvars)
<1>1. Inv /\ [Next]_vars => Inv'
  BY NextInv
<1>2. Inv /\ Inv' /\ [Next]_vars => [Timers!TNext]_(Timers!tvars)
  BY NextTimers
<1> QED
  BY InitInv, InitTimers, <1>1, <1>2, PTL DEF Spec
=============================================================================
