--------------------------- MODULE DataPlaneProof ---------------------------
(***************************************************************************)
(* Proofs about DataPlane, for every mesh, every choice of routes and any  *)
(* loss, reordering, crash and restart.                                    *)
(***************************************************************************)
EXTENDS DataPlane, SequenceTheorems, TLAPS

-----------------------------------------------------------------------------
(* What bit_get_packet does to the window of an originator *)

\* Whatever the distance, bit_get_packet keeps the window inside the array.
LEMMA GetPacketTyped ==
    ASSUME NEW b, b \subseteq Offsets, NEW d \in Int, NEW set_mark \in BOOLEAN,
           NEW r \in bit_get_packet(b, d, set_mark)
    PROVE  r.bits \subseteq Offsets
<1> USE WindowAssumption
<1> DEFINE mark(c, k) == IF set_mark THEN bit_mark(c, k) ELSE c
<1>1. \A c, k : c \subseteq Offsets => mark(c, k) \subseteq Offsets
  BY DEF bit_mark
<1>2. CASE -W <= d /\ d < 0
  <2>1. bit_get_packet(b, d, set_mark) = { [bits |-> mark(b, -d), new |-> 0] }
    BY <1>2 DEF bit_get_packet
  <2>2. r = [bits |-> mark(b, -d), new |-> 0]
    BY <2>1
  <2>3. r.bits = mark(b, -d)
    BY <2>2
  <2> QED
    BY <1>1, <2>3
<1>3. CASE ~ (-W <= d /\ d < 0)
  <2> DEFINE C == IF d > W \/ d < -W THEN {{}} ELSE bit_shift(b, d)
  <2>1. bit_get_packet(b, d, set_mark) = { [bits |-> mark(c, 0), new |-> 1] : c \in C }
    BY <1>3 DEF bit_get_packet
  <2>2. PICK c \in C : r = [bits |-> mark(c, 0), new |-> 1]
    BY <2>1
  <2>3. c \subseteq Offsets
    <3>1. CASE d > W \/ d < -W
      BY <3>1
    <3>2. CASE d = 0
      BY <3>2 DEF bit_shift
    <3>3. CASE 0 < d /\ d < W
      <4>1. C = { {k \in Offsets : k - d \in b} }
        BY <3>3 DEF bit_shift
      <4> QED
        BY <4>1
    <3>4. CASE d = W
      <4>1. C = SUBSET ((W - TopWord)..(W - 1))
        BY <3>4 DEF bit_shift
      <4> QED
        BY <4>1 DEF Offsets
    <3> QED
      BY <1>3, <3>1, <3>2, <3>3, <3>4
  <2> QED
    BY <1>1, <2>2, <2>3
<1> QED
  BY <1>2, <1>3

\* bit_get_packet keeps the window inside the array, sets the bit of the
\* packet it counts, and moves every other bit by the distance travelled.
LEMMA GetPacketKeeps ==
    ASSUME NEW b, b \subseteq Offsets, NEW d \in Int, -W < d,
           NEW r \in bit_get_packet(b, d, TRUE)
    PROVE  /\ r.bits \subseteq Offsets
           /\ d >= 0 => r.new = 1 /\ 0 \in r.bits
           /\ d < 0 => r.new = 0 /\ r.bits = b \cup {-d}
           /\ \A k \in b : d >= 0 /\ k + d < W => k + d \in r.bits
<1>1. CASE d < 0
  <2>1. bit_mark(b, -d) = b \cup {-d} /\ -d \in Offsets
    BY <1>1, WindowAssumption DEF bit_mark, Offsets
  <2>2. bit_get_packet(b, d, TRUE) = { [bits |-> bit_mark(b, -d), new |-> 0] }
    BY <1>1, WindowAssumption DEF bit_get_packet
  <2>3. r = [bits |-> bit_mark(b, -d), new |-> 0]
    BY <2>2
  <2>4. r.bits = b \cup {-d} /\ r.new = 0
    BY <2>1, <2>3
  <2> QED
    BY <1>1, <2>1, <2>4
<1>2. CASE d >= 0
  <2> DEFINE C == IF d > W \/ d < -W THEN {{}} ELSE bit_shift(b, d)
  <2>1. bit_get_packet(b, d, TRUE) = { [bits |-> bit_mark(c, 0), new |-> 1] : c \in C }
    BY <1>2, WindowAssumption DEF bit_get_packet
  <2>2. PICK c \in C : r = [bits |-> bit_mark(c, 0), new |-> 1]
    BY <2>1
  <2>3. r.bits = c \cup {0} /\ r.new = 1
    BY <2>2, WindowAssumption DEF bit_mark, Offsets
  <2>4. c \subseteq Offsets /\ \A k \in b : k + d < W => k + d \in c
    <3>1. CASE d = 0
      <4>1. C = {b}
        BY <3>1, WindowAssumption DEF bit_shift
      <4>2. c = b
        BY <4>1
      <4> QED
        BY <3>1, <4>2 DEF Offsets
    <3>2. CASE 0 < d /\ d < W
      <4>1. C = { {k \in Offsets : k - d \in b} }
        BY <3>2, WindowAssumption DEF bit_shift
      <4>2. c = {k \in Offsets : k - d \in b}
        BY <4>1
      <4> QED
        BY <3>2, <4>2, WindowAssumption DEF Offsets
    <3>3. CASE d >= W
      BY <3>3, WindowAssumption DEF bit_shift, Offsets
    <3> QED
      BY <1>2, <3>1, <3>2, <3>3, WindowAssumption
  <2> QED
    BY <1>2, <2>3, <2>4, WindowAssumption DEF Offsets
<1>3. d < 0 \/ d >= 0
  OBVIOUS
<1> QED
  BY <1>1, <1>2, <1>3, Zenon


-----------------------------------------------------------------------------
(* What a frame under way has to do with the message it carries. *)

GoodUnicast(g) ==
    /\ g \in UnicastFrame
    /\ g.id \in Sent("unicast")
    /\ g.dest = msgs[g.id].dst
    /\ g.ttl + g.hops = TTL + 1

\* A request knows the way back to the node that asked; an answer is on it.
GoodIcmp(g) ==
    /\ g \in IcmpFrame
    /\ g.id \in Sent("icmp")
    /\ g.msg_type = "request" =>
          is_my_mac(msgs[g.id].from, g.orig) /\ g.ttl + g.hops = msgs[g.id].ttl + 1
    /\ g.msg_type # "request" =>
          is_my_mac(msgs[g.id].from, g.dst) /\ g.hops <= msgs[g.id].ttl
    /\ g.msg_type = "exceeded" => g.hops = msgs[g.id].ttl

GoodBcast(g) ==
    /\ g \in BcastFrame
    /\ g.id \in Sent("bcast")
    /\ g.orig = Primary(msgs[g.id].from)
    /\ g.seqno = msgs[g.id].seqno

Good(g) == GoodUnicast(g) \/ GoodIcmp(g) \/ GoodBcast(g)

\* A unicast, and an echo request with its answers, is one frame at a time.
AloneIn(frames) ==
    \A f, g \in frames :
        f.kind # "bcast" /\ g.kind # "bcast" /\ f.id = g.id => f = g

\* What is still under way has not been delivered or answered, nor has
\* what was never sent.
Pending ==
    /\ \A f \in air : f.kind = "icmp" => answers[f.id] = <<>>
    /\ \A f \in air : f.kind = "unicast" => \A n \in Nodes : tap[n][f.id] = 0
    /\ \A m \in Ids \ DOMAIN msgs : answers[m] = <<>> /\ \A n \in Nodes : tap[n][m] = 0

\* A unicast is delivered once, and only at its destination.
UnicastOnce ==
    \A n \in Nodes, m \in Sent("unicast") :
        tap[n][m] <= (IF is_my_mac(n, msgs[m].dst) THEN 1 ELSE 0)

\* There are only so many messages.
Bounded == Len(msgs) + purges <= MaxEvents /\ DOMAIN msgs \subseteq Ids

Inv ==
    /\ TypeOK
    /\ Bounded
    /\ \A g \in air : Good(g)
    /\ AloneIn(air)
    /\ Pending
    /\ UnicastOnce
    /\ AnswerReachesAsker

-----------------------------------------------------------------------------
(* The inductive invariant behind the broadcast half of DeliveredOnce. *)

\* A node keeps no entry for an address of its own.
OwnUnknown == \A n \in Nodes, a \in Addrs : is_my_mac(n, a) => orig_hash[n][a] = NULL

\* The numbers in use: below the window size if there are few broadcasts.
Numbers ==
    /\ \A n \in Nodes : 1 <= bcast_seqno[n] /\ bcast_seqno[n] <= Len(msgs) + 1
    /\ \A m \in Sent("bcast") : 1 <= msgs[m].seqno /\ msgs[m].seqno <= Len(msgs)
    /\ \A n \in Nodes, a \in Addrs : orig_hash[n][a] # NULL => orig_hash[n][a].last <= Len(msgs)

\* Number s is in the flood history e.
Seen(e, s) == s <= e.last /\ e.last - s \in e.bits

\* What was delivered is in the flood history.
Marked ==
    \A n \in Nodes, m \in Sent("bcast") :
        tap[n][m] > 0 =>
            /\ tap[n][m] = 1
            /\ orig_hash[n][Primary(msgs[m].from)] # NULL
            /\ Seen(orig_hash[n][Primary(msgs[m].from)], msgs[m].seqno)

FloodInv == OwnUnknown /\ Numbers /\ Marked

-----------------------------------------------------------------------------
(* Addresses and nodes. *)

\* The primary address of a node is one of its addresses.
LEMMA PrimaryIsMine ==
    ASSUME NEW n \in Nodes
    PROVE  is_my_mac(n, Primary(n)) /\ Primary(n) \in Addrs
<1>1. if_list[n] \in Seq(ToSet(if_list[n])) /\ if_list[n] # <<>>
  BY MeshAssumption
<1>2. 1 \in 1..Len(if_list[n]) /\ DOMAIN if_list[n] = 1..Len(if_list[n])
  BY <1>1, EmptySeq, LenProperties
<1>3. Primary(n) \in ToSet(if_list[n])
  BY <1>2 DEF Primary, ToSet
<1> QED
  BY <1>3 DEF is_my_mac, Addrs

\* Every address belongs to exactly one node.
LEMMA OneOwner ==
    /\ \A m, n \in Nodes : \A a : is_my_mac(m, a) /\ is_my_mac(n, a) => m = n
    /\ \A a \in Addrs : NodeOf(a) \in Nodes /\ is_my_mac(NodeOf(a), a)
<1>1. \A m, n \in Nodes : \A a : is_my_mac(m, a) /\ is_my_mac(n, a) => m = n
  BY MeshAssumption DEF is_my_mac
<1>2. ASSUME NEW a \in Addrs
      PROVE  NodeOf(a) \in Nodes /\ is_my_mac(NodeOf(a), a)
  <2>1. \E n \in Nodes : is_my_mac(n, a)
    BY DEF Addrs, is_my_mac
  <2> QED
    BY <2>1 DEF NodeOf
<1> QED
  BY <1>1, <1>2

\* The two ends of a link.
LEMMA LinkEnds ==
    ASSUME NEW l \in Links
    PROVE  l[1] \in Addrs /\ l[2] \in Addrs /\ l # NULL
BY LinkAssumption

-----------------------------------------------------------------------------
(* Messages. *)

\* msgs' continues msgs.
Extends ==
    /\ msgs' \in Seq(Message)
    /\ DOMAIN msgs \subseteq DOMAIN msgs'
    /\ \A m \in DOMAIN msgs : msgs'[m] = msgs[m]

\* The messages are numbered from 1 on.
LEMMA MsgsDomain ==
    ASSUME TypeOK
    PROVE  Len(msgs) \in Nat /\ DOMAIN msgs = 1..Len(msgs) /\ \A m \in DOMAIN msgs : msgs[m] \in Message
BY LenProperties, ElementOfSeq DEF TypeOK

\* What a new message is.
LEMMA LogExtends ==
    ASSUME Inv, NEW kind \in Kinds, NEW n \in Nodes, NEW dst \in Addrs \cup {NULL},
           NEW ttl \in 0..MaxTtl, Log(kind, n, dst, ttl)
    PROVE  /\ Extends
           /\ DOMAIN msgs' = DOMAIN msgs \cup {NextId}
           /\ NextId \in Ids /\ NextId \notin DOMAIN msgs
           /\ Len(msgs') = Len(msgs) + 1 /\ Len(msgs') + purges <= MaxEvents
           /\ msgs'[NextId] = [kind |-> kind, from |-> n, dst |-> dst, ttl |-> ttl,
                               seqno |-> IF kind = "bcast" THEN bcast_seqno[n] ELSE 0]
<1> DEFINE r == [kind |-> kind, from |-> n, dst |-> dst, ttl |-> ttl,
                 seqno |-> IF kind = "bcast" THEN bcast_seqno[n] ELSE 0]
<1>1. r \in Message
  BY WindowAssumption DEF Message, Inv, TypeOK, SeqNos
<1>2. msgs' = Append(msgs, r) /\ Len(msgs) + purges < MaxEvents
  BY DEF Log
<1> HIDE DEF r
<1>3. msgs \in Seq(Message) /\ Len(msgs) \in Nat /\ DOMAIN msgs = 1..Len(msgs) /\ purges \in Nat
  BY LenProperties, MeshAssumption DEF Inv, TypeOK
<1>4. /\ msgs' \in Seq(Message)
      /\ Len(msgs') = Len(msgs) + 1
      /\ \A i \in 1..Len(msgs) : msgs'[i] = msgs[i]
      /\ msgs'[Len(msgs) + 1] = r
  BY <1>1, <1>2, <1>3, AppendProperties
<1>5. DOMAIN msgs' = 1..(Len(msgs) + 1)
  BY <1>4, LenProperties
<1>6. NextId \in Ids
  <2>1. PICK t \in Traffic : Len(msgs) < Len(t)
    BY DEF Log
  <2>2. t \in Seq(Kinds \X Nodes)
    BY MeshAssumption
  <2>3. Len(t) \in Nat /\ DOMAIN t = 1..Len(t)
    BY <2>2, LenProperties
  <2>4. NextId \in DOMAIN t
    BY <1>3, <2>1, <2>3 DEF NextId
  <2> QED
    BY <2>4 DEF Ids
<1> QED
  BY <1>2, <1>3, <1>4, <1>5, <1>6, MeshAssumption DEF Extends, NextId, r

\* A frame stays good when messages are added.
LEMMA GoodExtends ==
    ASSUME Extends, NEW g, Good(g)
    PROVE  Good(g)'
<1>1. \A k : Sent(k) \subseteq Sent(k)'
  BY DEF Sent, Extends
<1>2. \A k : \A m \in Sent(k) : msgs'[m] = msgs[m]
  BY DEF Sent, Extends
<1>3. GoodUnicast(g) => GoodUnicast(g)'
  BY <1>1, <1>2 DEF GoodUnicast
<1>4. GoodIcmp(g) => GoodIcmp(g)'
  BY <1>1, <1>2 DEF GoodIcmp
<1>5. GoodBcast(g) => GoodBcast(g)'
  BY <1>1, <1>2 DEF GoodBcast
<1> QED
  BY <1>3, <1>4, <1>5 DEF Good

\* The kind, the message and the place of a good frame.
LEMMA GoodType ==
    ASSUME NEW g, Good(g)
    PROVE  /\ g \in UnicastFrame \cup IcmpFrame \cup BcastFrame
           /\ g.at \in Addrs /\ g.id \in Ids /\ g.id \in Sent(g.kind)
           /\ g.kind \in Kinds
           /\ g.kind = "unicast" => GoodUnicast(g)
           /\ g.kind = "icmp" => GoodIcmp(g)
           /\ g.kind = "bcast" => GoodBcast(g)
<1>1. CASE GoodUnicast(g)
  BY <1>1 DEF GoodUnicast, UnicastFrame, Kinds
<1>2. CASE GoodIcmp(g)
  BY <1>2 DEF GoodIcmp, IcmpFrame, Kinds
<1>3. CASE GoodBcast(g)
  BY <1>3 DEF GoodBcast, BcastFrame, Kinds
<1> QED
  BY <1>1, <1>2, <1>3 DEF Good

-----------------------------------------------------------------------------
(* Sending one frame in place of another. *)

\* SendTowards removes f and puts at most one frame in its place.
LEMMA SendTowardsEffect ==
    ASSUME NEW n, NEW f, NEW a, NEW p, SendTowards(n, f, a, p), up \subseteq Nodes
    PROVE  /\ up' \subseteq Nodes
           /\ \/ air' = air \ {f}
              \/ \E x \in Addrs : air' = (air \ {f}) \cup {[p EXCEPT !.at = x]}
<1>1. CASE \E r \in Routes(n, a) :
              /\ air' = (air \ {f}) \cup (IF r = NULL THEN {} ELSE {[p EXCEPT !.at = r[2]]})
              /\ UNCHANGED up
  <2>1. PICK r \in Routes(n, a) :
           /\ air' = (air \ {f}) \cup (IF r = NULL THEN {} ELSE {[p EXCEPT !.at = r[2]]})
           /\ UNCHANGED up
    BY <1>1
  <2>2. CASE r = NULL
    BY <2>1, <2>2
  <2>3. CASE r # NULL
    <3>1. r \in Links
      BY <2>1, <2>3 DEF Routes
    <3>2. r[2] \in Addrs
      BY <3>1, LinkEnds
    <3> QED
      BY <2>1, <2>3, <3>2
  <2> QED
    BY <2>2, <2>3
<1>2. CASE air' = air \ {f} /\ up' = up \ {n}
  BY <1>2
<1> QED
  BY <1>1, <1>2 DEF SendTowards

\* A unicast that is sent on with a smaller ttl is good.
LEMMA MoveUnicast ==
    ASSUME NEW f, GoodUnicast(f), f.ttl >= 2, NEW x \in Addrs,
           NEW g, g = [[f EXCEPT !.ttl = @ - 1, !.hops = @ + 1] EXCEPT !.at = x]
    PROVE  GoodUnicast(g) /\ g.id = f.id /\ g.kind = f.kind
<1> USE MeshAssumption
<1>1. /\ f.kind = "unicast" /\ f.at \in Addrs /\ f.id \in Ids /\ f.dest \in Addrs
      /\ f.ttl \in 1..TTL /\ f.hops \in 1..TTL
      /\ f = [kind |-> f.kind, at |-> f.at, id |-> f.id, dest |-> f.dest, ttl |-> f.ttl, hops |-> f.hops]
  BY DEF GoodUnicast, UnicastFrame
<1>2. g = [kind |-> f.kind, at |-> x, id |-> f.id, dest |-> f.dest, ttl |-> f.ttl - 1, hops |-> f.hops + 1]
  BY <1>1
<1>3. f.ttl - 1 \in 1..TTL /\ f.hops + 1 \in 1..TTL /\ f.ttl - 1 + (f.hops + 1) = TTL + 1
  BY <1>1 DEF GoodUnicast
<1>4. g \in UnicastFrame
  BY <1>1, <1>2, <1>3 DEF UnicastFrame
<1> QED
  BY <1>2, <1>3, <1>4 DEF GoodUnicast

\* An icmp frame from its fields.
Icmp(at, id, type, dst, orig, ttl, hops) ==
    [kind |-> "icmp", at |-> at, id |-> id, msg_type |-> type, dst |-> dst, orig |-> orig,
     ttl |-> ttl, hops |-> hops]

\* The frame has those fields.
LEMMA IcmpFields ==
    ASSUME NEW at, NEW id, NEW type, NEW dst, NEW orig, NEW ttl, NEW hops,
           NEW g, g = Icmp(at, id, type, dst, orig, ttl, hops)
    PROVE  /\ g.kind = "icmp" /\ g.at = at /\ g.id = id /\ g.msg_type = type /\ g.dst = dst
           /\ g.orig = orig /\ g.ttl = ttl /\ g.hops = hops
BY DEF Icmp

\* It is a frame if they have their types.
LEMMA IcmpTyped ==
    ASSUME NEW at \in Addrs, NEW id \in Ids, NEW type \in MsgTypes, NEW dst \in Addrs, NEW orig \in Addrs,
           NEW ttl \in 1..MaxTtl, NEW hops \in 1..MaxTtl
    PROVE  Icmp(at, id, type, dst, orig, ttl, hops) \in IcmpFrame
BY DEF Icmp, IcmpFrame

\* Every icmp frame is made from its fields.
LEMMA IcmpFrameIs ==
    ASSUME NEW f \in IcmpFrame
    PROVE  \E at \in Addrs, id \in Ids, type \in MsgTypes, dst \in Addrs, orig \in Addrs,
              ttl \in 1..MaxTtl, hops \in 1..MaxTtl : f = Icmp(at, id, type, dst, orig, ttl, hops)
<1>1. /\ f.at \in Addrs /\ f.id \in Ids /\ f.msg_type \in MsgTypes
      /\ f.dst \in Addrs /\ f.orig \in Addrs /\ f.ttl \in 1..MaxTtl /\ f.hops \in 1..MaxTtl
  BY DEF IcmpFrame
<1>2. f = Icmp(f.at, f.id, f.msg_type, f.dst, f.orig, f.ttl, f.hops)
  BY DEF IcmpFrame, Icmp
<1> QED
  BY <1>1, <1>2

\* The frame in which RouteIcmp sends f on, and the one in which it, or
\* IcmpForMe, answers f.
MovedIcmp(f, x) ==
    [[f EXCEPT !.ttl = @ - 1, !.hops = IF f.msg_type = "request" THEN @ + 1 ELSE @] EXCEPT !.at = x]

AnswerTo(f, type, x) == [Reply(f, type) EXCEPT !.at = x]

\* An icmp packet that is sent on with a smaller ttl is good; only requests
\* count the hop.
LEMMA MoveIcmp ==
    ASSUME TypeOK, NEW f, GoodIcmp(f), f.ttl >= 2, NEW x \in Addrs
    PROVE  /\ GoodIcmp(MovedIcmp(f, x))
           /\ MovedIcmp(f, x).id = f.id /\ MovedIcmp(f, x).kind = f.kind
<1> USE MeshAssumption
<1> DEFINE g == MovedIcmp(f, x)
<1>1. PICK at \in Addrs, id \in Ids, type \in MsgTypes, dst \in Addrs, orig \in Addrs,
           ttl \in 1..MaxTtl, hops \in 1..MaxTtl : f = Icmp(at, id, type, dst, orig, ttl, hops)
  BY IcmpFrameIs DEF GoodIcmp
<1>2. /\ f.kind = "icmp" /\ f.at = at /\ f.id = id /\ f.msg_type = type /\ f.dst = dst
      /\ f.orig = orig /\ f.ttl = ttl /\ f.hops = hops
  BY <1>1, IcmpFields
<1> DEFINE h == IF type = "request" THEN hops + 1 ELSE hops
<1>3. g = Icmp(x, id, type, dst, orig, ttl - 1, h)
  <2>1. g = [[f EXCEPT !.ttl = ttl - 1, !.hops = h] EXCEPT !.at = x]
    BY <1>2 DEF MovedIcmp
  <2> HIDE DEF h, g
  <2> QED
    BY <1>1, <2>1 DEF Icmp
<1>4. msgs[id].ttl \in 0..MaxTtl
  BY <1>2, MsgsDomain DEF GoodIcmp, Sent, Message
<1>5. ttl - 1 \in 1..MaxTtl /\ h \in 1..MaxTtl
  <2>1. type = "request" => ttl + hops = msgs[id].ttl + 1
    BY <1>2 DEF GoodIcmp
  <2> QED
    BY <1>2, <1>4, <2>1
<1> HIDE DEF h, g
<1>6. g \in IcmpFrame
  BY <1>3, <1>5, IcmpTyped
<1>7. /\ g.kind = "icmp" /\ g.id = id /\ g.msg_type = type /\ g.dst = dst /\ g.orig = orig
      /\ g.ttl = ttl - 1 /\ g.hops = h
  BY <1>3, IcmpFields
<1>8. type = "request" => ttl - 1 + h = msgs[id].ttl + 1
  BY <1>2, <1>4 DEF GoodIcmp, h
<1>9. type # "request" => h = hops
  BY DEF h
<1>10. type = "exceeded" => h = msgs[id].ttl
  BY <1>2, <1>9 DEF GoodIcmp
<1>11. GoodIcmp(g) /\ g.id = f.id /\ g.kind = f.kind
  BY <1>2, <1>6, <1>7, <1>8, <1>9, <1>10 DEF GoodIcmp
<1> QED
  BY <1>11 DEF g

\* The answer to a request is good: it is on its way to the node that asked.
LEMMA AnswerIcmp ==
    ASSUME TypeOK, NEW f, GoodIcmp(f), f.msg_type = "request", NEW x \in Addrs,
           NEW type \in {"reply", "exceeded"}, type = "exceeded" => f.ttl < 2
    PROVE  /\ GoodIcmp(AnswerTo(f, type, x))
           /\ AnswerTo(f, type, x).id = f.id /\ AnswerTo(f, type, x).kind = f.kind
<1> USE MeshAssumption
<1> DEFINE g == AnswerTo(f, type, x)
<1>1. PICK at \in Addrs, id \in Ids, dst \in Addrs, orig \in Addrs,
           ttl \in 1..MaxTtl, hops \in 1..MaxTtl : f = Icmp(at, id, "request", dst, orig, ttl, hops)
  <2>1. PICK at \in Addrs, id \in Ids, t \in MsgTypes, dst \in Addrs, orig \in Addrs,
             ttl \in 1..MaxTtl, hops \in 1..MaxTtl : f = Icmp(at, id, t, dst, orig, ttl, hops)
    BY IcmpFrameIs DEF GoodIcmp
  <2>2. t = "request"
    BY <2>1, IcmpFields
  <2> QED
    BY <2>1, <2>2
<1>2. /\ f.kind = "icmp" /\ f.at = at /\ f.id = id /\ f.orig = orig /\ f.ttl = ttl /\ f.hops = hops
  BY <1>1, IcmpFields
<1>3. g = Icmp(x, id, type, orig, at, TTL, hops)
  <2>1. g = [[f EXCEPT !.dst = orig, !.orig = at, !.msg_type = type, !.ttl = TTL] EXCEPT !.at = x]
    BY <1>2 DEF Reply, AnswerTo
  <2> HIDE DEF g
  <2> QED
    BY <1>1, <2>1 DEF Icmp
<1> HIDE DEF g
<1>4. msgs[id].ttl \in 0..MaxTtl
  BY <1>2, MsgsDomain DEF GoodIcmp, Sent, Message
<1>5. TTL \in 1..MaxTtl /\ type \in MsgTypes
  BY DEF MsgTypes
<1>6. g \in IcmpFrame
  BY <1>3, <1>5, IcmpTyped
<1>7. /\ g.kind = "icmp" /\ g.id = id /\ g.msg_type = type /\ g.dst = orig /\ g.hops = hops
  BY <1>3, IcmpFields
<1>8. is_my_mac(msgs[id].from, orig) /\ ttl + hops = msgs[id].ttl + 1 /\ id \in Sent("icmp")
  BY <1>2 DEF GoodIcmp
<1>9. hops <= msgs[id].ttl /\ (type = "exceeded" => hops = msgs[id].ttl)
  BY <1>2, <1>4, <1>8
<1>10. GoodIcmp(g) /\ g.id = f.id /\ g.kind = f.kind
  BY <1>2, <1>6, <1>7, <1>8, <1>9 DEF GoodIcmp
<1> QED
  BY <1>10 DEF g

\* The frames of a broadcast are good, on whatever interfaces it is sent.
LEMMA FloodGood ==
    ASSUME NEW n \in Nodes, NEW p, NEW k, NEW g \in Flooded(n, p, k),
           \E at, shost : p = [kind |-> "bcast", at |-> at, id |-> p.id, shost |-> shost,
                              orig |-> p.orig, seqno |-> p.seqno],
           p.id \in Ids, p.orig \in Addrs, p.seqno \in SeqNos
    PROVE  g \in BcastFrame /\ g.kind = "bcast" /\ g.id = p.id /\ g.orig = p.orig /\ g.seqno = p.seqno
<1>1. PICK at, shost : p = [kind |-> "bcast", at |-> at, id |-> p.id, shost |-> shost,
                            orig |-> p.orig, seqno |-> p.seqno]
  OBVIOUS
<1>2. PICK l \in Links : g = [p EXCEPT !.at = l[2], !.shost = l[1]]
  BY DEF Flooded
<1>3. g = [kind |-> "bcast", at |-> l[2], id |-> p.id, shost |-> l[1], orig |-> p.orig, seqno |-> p.seqno]
  <2> DEFINE i == p.id
             o == p.orig
             s == p.seqno
  <2>1. p = [kind |-> "bcast", at |-> at, id |-> i, shost |-> shost, orig |-> o, seqno |-> s]
    BY <1>1
  <2> HIDE DEF i, o, s
  <2>2. g = [kind |-> "bcast", at |-> l[2], id |-> i, shost |-> l[1], orig |-> o, seqno |-> s]
    BY <1>2, <2>1
  <2> QED
    BY <2>2 DEF i, o, s
<1>4. l[1] \in Addrs /\ l[2] \in Addrs
  BY LinkEnds
<1> QED
  BY <1>3, <1>4 DEF BcastFrame

-----------------------------------------------------------------------------
(* What keeps the invariant, whatever action it is a part of. *)

\* Frames are taken away and good ones added, each the only one of its
\* message unless it is a broadcast.
LEMMA AirKeeps ==
    ASSUME Inv, Extends, NEW A \in SUBSET air, NEW N, air' \subseteq A \cup N,
           \A g \in N : Good(g)', AloneIn(N),
           \A g \in N, h \in A : g.kind # "bcast" /\ h.kind # "bcast" => g.id # h.id
    PROVE  /\ \A g \in air' : Good(g)'
           /\ AloneIn(air)'
           /\ air' \subseteq UnicastFrame \cup IcmpFrame \cup BcastFrame
<1>1. \A g \in air' : Good(g)'
  <2> SUFFICES ASSUME NEW g \in air' PROVE Good(g)'
    OBVIOUS
  <2>1. CASE g \in N
    BY <2>1
  <2>2. CASE g \in air
    <3>1. Good(g)
      BY <2>2 DEF Inv
    <3> QED
      BY <3>1, GoodExtends
  <2> QED
    BY <2>1, <2>2
<1>2. AloneIn(air)'
  <2> SUFFICES ASSUME NEW g \in air', NEW h \in air', g.kind # "bcast", h.kind # "bcast", g.id = h.id
               PROVE  g = h
    BY DEF AloneIn
  <2>1. CASE g \in N /\ h \in N
    BY <2>1 DEF AloneIn
  <2>2. CASE g \in A /\ h \in A
    BY <2>2 DEF Inv, AloneIn
  <2> QED
    BY <2>1, <2>2
<1>3. \A g : Good(g)' => g \in UnicastFrame \cup IcmpFrame \cup BcastFrame
  BY DEF Good, GoodUnicast, GoodIcmp, GoodBcast
<1> QED
  BY <1>1, <1>2, <1>3

\* The variables that only have their types to keep.
LooseTypes ==
    /\ up \subseteq Nodes
    /\ orig_hash \in [Nodes -> [Addrs -> History \cup {NULL}]]
    /\ bcast_seqno \in [Nodes -> SeqNos]
    /\ lost \subseteq Ids

\* Nothing is sent, delivered or answered: frame f is taken from the air and
\* N put in its place.
LEMMA QuietKeeps ==
    ASSUME Inv, UNCHANGED <<msgs, tap, answers, purges>>, LooseTypes',
           NEW f, NEW N, air' \subseteq (air \ {f}) \cup N,
           \A g \in N : Good(g)', AloneIn(N),
           \A g \in N : g.kind # "bcast" => f \in air /\ f.kind = g.kind /\ f.id = g.id
    PROVE  Inv'
<1>1. Extends
  BY DEF Inv, TypeOK, Extends
<1>2. \A g \in N, h \in air \ {f} : g.kind # "bcast" /\ h.kind # "bcast" => g.id # h.id
  BY DEF Inv, AloneIn
<1>3. /\ \A g \in air' : Good(g)'
      /\ AloneIn(air)'
      /\ air' \subseteq UnicastFrame \cup IcmpFrame \cup BcastFrame
  <2>1. PICK A \in SUBSET air : A = air \ {f}
    OBVIOUS
  <2> QED
    BY <1>1, <1>2, <2>1, AirKeeps
<1>4. TypeOK'
  BY <1>3 DEF Inv, TypeOK, LooseTypes
<1>5. \A g \in air' : g.kind # "bcast" => \E h \in air : h.kind = g.kind /\ h.id = g.id
  OBVIOUS
<1>6. Pending'
  BY <1>5 DEF Inv, Pending
<1>7. UnicastOnce' /\ AnswerReachesAsker' /\ Bounded'
  BY DEF Inv, UnicastOnce, AnswerReachesAsker, Bounded, Sent
<1> QED
  BY <1>3, <1>4, <1>6, <1>7 DEF Inv

\* Node n sends a frame on, or answers it: g(x) is the frame that leaves by
\* a link to address x.
LEMMA SendTowardsKeeps ==
    ASSUME Inv, NEW n, NEW f \in air, NEW a, NEW p, SendTowards(n, f, a, p),
           UNCHANGED <<orig_hash, bcast_seqno, msgs, tap, answers, lost, purges>>,
           f.kind # "bcast",
           \A x \in Addrs : /\ Good([p EXCEPT !.at = x])
                            /\ [p EXCEPT !.at = x].id = f.id /\ [p EXCEPT !.at = x].kind = f.kind
    PROVE  Inv'
<1>1. up' \subseteq Nodes
  BY SendTowardsEffect DEF Inv, TypeOK
<1>2. LooseTypes'
  BY <1>1 DEF Inv, TypeOK, LooseTypes
<1>3. Extends
  BY DEF Inv, TypeOK, Extends
<1>4. CASE air' = air \ {f}
  <2>1. AloneIn({})
    BY DEF AloneIn
  <2> QED
    BY <1>2, <1>4, <2>1, QuietKeeps
<1>5. CASE \E x \in Addrs : air' = (air \ {f}) \cup {[p EXCEPT !.at = x]}
  <2>1. PICK g : /\ air' = (air \ {f}) \cup {g}
                 /\ Good(g) /\ g.id = f.id /\ g.kind = f.kind
    BY <1>5
  <2>2. Good(g)'
    BY <1>3, <2>1, GoodExtends
  <2>3. AloneIn({g})
    BY DEF AloneIn
  <2> QED
    BY <1>2, <2>1, <2>2, <2>3, QuietKeeps
<1>6. air' = air \ {f} \/ \E x \in Addrs : air' = (air \ {f}) \cup {[p EXCEPT !.at = x]}
  <2>1. up \subseteq Nodes
    BY DEF Inv, TypeOK
  <2> QED
    BY <2>1, SendTowardsEffect
<1> QED
  BY <1>4, <1>5, <1>6

\* A frame that is only taken from the air.
LEMMA DropKeeps ==
    ASSUME Inv, NEW f, air' = air \ {f}, LooseTypes', UNCHANGED <<msgs, tap, answers, purges>>
    PROVE  Inv'
<1>1. PICK N : N = {}
  OBVIOUS
<1>2. air' \subseteq (air \ {f}) \cup N
  BY <1>1
<1>3. /\ AloneIn(N) /\ \A g \in N : Good(g)'
      /\ \A g \in N : g.kind # "bcast" => f \in air /\ f.kind = g.kind /\ f.id = g.id
  BY <1>1 DEF AloneIn
<1> QED
  BY <1>2, <1>3, QuietKeeps

-----------------------------------------------------------------------------
(* Each action keeps the invariant. *)

\* A tap write is one more at one node for one message.
LEMMA TapOneMore ==
    ASSUME TypeOK, NEW n \in Nodes, NEW m \in Ids, tap' = [tap EXCEPT ![n][m] = @ + 1]
    PROVE  /\ tap' \in [Nodes -> [Ids -> Nat]]
           /\ tap'[n][m] = tap[n][m] + 1
           /\ \A k \in Nodes, j \in Ids : k # n \/ j # m => tap'[k][j] = tap[k][j]
BY DEF TypeOK

LEMMA DeliverUnicastKeeps ==
    ASSUME Inv, NEW n \in Nodes, NEW f \in air, f.kind = "unicast", is_my_mac(n, f.dest),
           tap' = [tap EXCEPT ![n][f.id] = @ + 1], air' = air \ {f},
           UNCHANGED <<up, orig_hash, bcast_seqno, msgs, answers, lost, purges>>
    PROVE  Inv'
<1>1. /\ GoodUnicast(f) /\ f.id \in Ids /\ f.id \in Sent("unicast") /\ f.id \in DOMAIN msgs
      /\ f.dest = msgs[f.id].dst
  BY GoodType DEF Inv, GoodUnicast, Sent
<1>2. /\ tap' \in [Nodes -> [Ids -> Nat]]
      /\ tap'[n][f.id] = tap[n][f.id] + 1
      /\ \A k \in Nodes, j \in Ids : k # n \/ j # f.id => tap'[k][j] = tap[k][j]
  <2>1. TypeOK
    BY DEF Inv
  <2> QED
    BY <1>1, <2>1, TapOneMore, ZenonT(40)
<1>3. tap[n][f.id] = 0
  BY DEF Inv, Pending
<1>4. /\ \A g \in air' : Good(g)'
      /\ AloneIn(air)'
      /\ air' \subseteq UnicastFrame \cup IcmpFrame \cup BcastFrame
  <2>1. Extends
    BY DEF Inv, TypeOK, Extends
  <2>2. PICK N : N = {}
    OBVIOUS
  <2>3. AloneIn(N) /\ air' \subseteq air \cup N
    BY <2>2 DEF AloneIn
  <2> QED
    BY <2>1, <2>2, <2>3, AirKeeps
<1>5. TypeOK'
  BY <1>2, <1>4 DEF Inv, TypeOK
<1>6. \A g \in air' : g.kind = "unicast" => g.id \in Ids /\ g.id # f.id
  BY GoodType DEF Inv, AloneIn
<1>7. Pending'
  <2>1. \A g \in air' : g.kind = "unicast" => \A k \in Nodes : tap'[k][g.id] = 0
    BY <1>2, <1>6 DEF Inv, Pending
  <2>2. \A m \in Ids \ DOMAIN msgs : \A k \in Nodes : tap'[k][m] = 0
    BY <1>1, <1>2 DEF Inv, Pending
  <2> QED
    BY <2>1, <2>2 DEF Inv, Pending
<1>8. UnicastOnce'
  <2> SUFFICES ASSUME NEW k \in Nodes, NEW m \in Sent("unicast")
               PROVE  tap'[k][m] <= (IF is_my_mac(k, msgs[m].dst) THEN 1 ELSE 0)
    BY DEF UnicastOnce, Sent
  <2>1. CASE k = n /\ m = f.id
    BY <1>1, <1>2, <1>3, <2>1
  <2>2. CASE ~ (k = n /\ m = f.id)
    <3>1. m \in Ids
      BY DEF Inv, Bounded, Sent
    <3>2. tap'[k][m] = tap[k][m]
      BY <1>2, <2>2, <3>1
    <3> QED
      BY <3>2 DEF Inv, UnicastOnce
  <2> QED
    BY <2>1, <2>2
<1>9. AnswerReachesAsker' /\ Bounded'
  BY DEF Inv, AnswerReachesAsker, Bounded, Sent
<1> QED
  BY <1>4, <1>5, <1>7, <1>8, <1>9 DEF Inv

LEMMA ReceiveUnicastKeeps ==
    ASSUME Inv, NEW n \in Nodes, NEW f \in air, f.kind = "unicast", ReceiveUnicast(n, f)
    PROVE  Inv'
<1>1. GoodUnicast(f)
  BY GoodType DEF Inv
<1>2. CASE is_my_mac(n, f.dest)
  BY <1>2, DeliverUnicastKeeps DEF ReceiveUnicast
<1>3. CASE ~ is_my_mac(n, f.dest) /\ f.ttl < 2
  <2>1. LooseTypes'
    BY <1>3 DEF ReceiveUnicast, Inv, TypeOK, LooseTypes
  <2> QED
    BY <1>3, <2>1, DropKeeps DEF ReceiveUnicast
<1>4. CASE ~ is_my_mac(n, f.dest) /\ ~ f.ttl < 2
  <2>1. PICK p : p = [f EXCEPT !.ttl = @ - 1, !.hops = @ + 1]
    OBVIOUS
  <2>2. SendTowards(n, f, f.dest, p) /\ UNCHANGED <<orig_hash, bcast_seqno, msgs, tap, answers, lost, purges>>
    BY <1>4, <2>1 DEF ReceiveUnicast
  <2>3. f.ttl >= 2
    BY <1>1, <1>4, MeshAssumption DEF GoodUnicast, UnicastFrame
  <2>4. \A x \in Addrs : /\ GoodUnicast([p EXCEPT !.at = x])
                         /\ [p EXCEPT !.at = x].id = f.id /\ [p EXCEPT !.at = x].kind = f.kind
    BY <1>1, <2>1, <2>3, MoveUnicast
  <2>5. \A x \in Addrs : /\ Good([p EXCEPT !.at = x])
                         /\ [p EXCEPT !.at = x].id = f.id /\ [p EXCEPT !.at = x].kind = f.kind
    BY <2>4 DEF Good
  <2> QED
    BY <2>2, <2>5, SendTowardsKeeps
<1> QED
  BY <1>2, <1>3, <1>4

\* A client is told once: of its own request.
LEMMA TellKeeps ==
    ASSUME Inv, NEW n \in Nodes, NEW f \in air, f.kind = "icmp", f.msg_type # "request",
           is_my_mac(n, f.dst), Tell(n, f.id, f.msg_type, f.hops), air' = air \ {f},
           UNCHANGED <<up, orig_hash, bcast_seqno, msgs, tap, lost, purges>>
    PROVE  Inv'
<1>1. /\ GoodIcmp(f) /\ f.id \in Ids /\ f.id \in Sent("icmp") /\ f.id \in DOMAIN msgs
      /\ f.msg_type \in MsgTypes /\ f.hops \in 0..MaxTtl
  BY GoodType, MeshAssumption DEF Inv, GoodIcmp, Sent, IcmpFrame
<1> DEFINE r == [node |-> n, msg_type |-> f.msg_type, hops |-> f.hops]
<1>2. r \in Answer
  BY <1>1 DEF Answer
<1>3. answers[f.id] = <<>>
  BY DEF Inv, Pending
<1>4. answers' = [answers EXCEPT ![f.id] = <<r>>]
  BY <1>3 DEF Tell
<1>5. n = msgs[f.id].from
  <2>1. msgs[f.id].from \in Nodes
    BY <1>1, MsgsDomain DEF Inv, Message
  <2> QED
    BY <1>1, <2>1, OneOwner DEF GoodIcmp
<1>6. /\ r.node = msgs[f.id].from
      /\ r.msg_type = "exceeded" => r.hops = msgs[f.id].ttl
      /\ r.msg_type = "reply" => r.hops <= msgs[f.id].ttl
  BY <1>1, <1>5 DEF GoodIcmp
<1> HIDE DEF r
<1>7. /\ answers' \in [Ids -> Seq(Answer)]
      /\ \A m \in Ids : m # f.id => answers'[m] = answers[m]
      /\ answers'[f.id] = <<r>>
  BY <1>1, <1>2, <1>4 DEF Inv, TypeOK
<1>8. /\ \A g \in air' : Good(g)'
      /\ AloneIn(air)'
      /\ air' \subseteq UnicastFrame \cup IcmpFrame \cup BcastFrame
  <2>1. Extends
    BY DEF Inv, TypeOK, Extends
  <2>2. PICK N : N = {}
    OBVIOUS
  <2>3. AloneIn(N) /\ air' \subseteq air \cup N
    BY <2>2 DEF AloneIn
  <2> QED
    BY <2>1, <2>2, <2>3, AirKeeps
<1>9. TypeOK'
  BY <1>7, <1>8 DEF Inv, TypeOK
<1>10. Pending'
  <2>1. \A g \in air' : g.kind = "icmp" => g.id \in Ids /\ g.id # f.id
    BY GoodType DEF Inv, AloneIn
  <2>2. \A g \in air' : g.kind = "icmp" => answers'[g.id] = <<>>
    BY <1>7, <2>1 DEF Inv, Pending
  <2>3. \A m \in Ids \ DOMAIN msgs : answers'[m] = <<>>
    BY <1>1, <1>7 DEF Inv, Pending
  <2> QED
    BY <2>2, <2>3 DEF Inv, Pending
<1>11. AnswerReachesAsker'
  <2> SUFFICES ASSUME NEW m \in Sent("icmp")
               PROVE  /\ Len(answers'[m]) <= 1
                      /\ \A k \in DOMAIN answers'[m] :
                            /\ answers'[m][k].node = msgs[m].from
                            /\ answers'[m][k].msg_type = "exceeded" => answers'[m][k].hops = msgs[m].ttl
                            /\ answers'[m][k].msg_type = "reply" => answers'[m][k].hops <= msgs[m].ttl
    BY DEF AnswerReachesAsker, Sent
  <2>1. CASE m = f.id
    <3>1. PICK a : a = <<r>>
      OBVIOUS
    <3>2. Len(a) = 1 /\ \A k \in DOMAIN a : a[k] = r
      BY <3>1
    <3>3. answers'[m] = a
      BY <1>7, <2>1, <3>1
    <3>4. Len(answers'[m]) <= 1
      <4>1. Len(a) <= 1
        BY <3>2
      <4> QED
        BY <3>3, <4>1, Zenon
    <3>5. \A k \in DOMAIN answers'[m] : answers'[m][k] = r
      BY <3>2, <3>3
    <3> QED
      BY <1>6, <2>1, <3>4, <3>5
  <2>2. CASE m # f.id
    <3>1. m \in Ids
      BY DEF Inv, Bounded, Sent
    <3>2. answers'[m] = answers[m]
      BY <1>7, <2>2, <3>1
    <3> QED
      BY <3>2 DEF Inv, AnswerReachesAsker
  <2> QED
    BY <2>1, <2>2
<1>12. UnicastOnce' /\ Bounded'
  BY DEF Inv, UnicastOnce, Bounded, Sent
<1> QED
  BY <1>8, <1>9, <1>10, <1>11, <1>12 DEF Inv

LEMMA ReceiveIcmpKeeps ==
    ASSUME Inv, NEW n \in Nodes, NEW f \in air, f.kind = "icmp", ReceiveIcmp(n, f)
    PROVE  Inv'
<1>1. GoodIcmp(f)
  BY GoodType DEF Inv
<1>2. UNCHANGED <<orig_hash, bcast_seqno, msgs, tap, lost, purges>>
  BY DEF ReceiveIcmp
<1>3. ASSUME NEW type \in {"reply", "exceeded"}, f.msg_type = "request", type = "exceeded" => f.ttl < 2,
             SendTowards(n, f, f.orig, Reply(f, type)), UNCHANGED answers
      PROVE  Inv'
  <2>1. PICK p : p = Reply(f, type)
    OBVIOUS
  <2>2. \A x \in Addrs : /\ GoodIcmp([p EXCEPT !.at = x])
                         /\ [p EXCEPT !.at = x].id = f.id /\ [p EXCEPT !.at = x].kind = f.kind
    <3>1. \A x \in Addrs : [p EXCEPT !.at = x] = AnswerTo(f, type, x)
      BY <2>1 DEF AnswerTo
    <3>2. TypeOK /\ f.msg_type = "request" /\ (type = "exceeded" => f.ttl < 2)
      BY <1>3 DEF Inv
    <3>3. \A x \in Addrs : /\ GoodIcmp(AnswerTo(f, type, x))
                           /\ AnswerTo(f, type, x).id = f.id /\ AnswerTo(f, type, x).kind = f.kind
      BY <1>1, <3>2, AnswerIcmp
    <3> QED
      BY <3>1, <3>3
  <2>3. \A x \in Addrs : /\ Good([p EXCEPT !.at = x])
                         /\ [p EXCEPT !.at = x].id = f.id /\ [p EXCEPT !.at = x].kind = f.kind
    BY <2>2 DEF Good
  <2>4. SendTowards(n, f, f.orig, p)
    BY <1>3, <2>1
  <2> QED
    BY <1>2, <1>3, <2>3, <2>4, SendTowardsKeeps
<1>4. ASSUME UNCHANGED <<up, answers>>, air' = air \ {f}
      PROVE  Inv'
  <2>1. LooseTypes'
    BY <1>2, <1>4 DEF Inv, TypeOK, LooseTypes
  <2> QED
    BY <1>2, <1>4, <2>1, DropKeeps
<1>5. CASE is_my_mac(n, f.dst)
  <2>1. IcmpForMe(n, f)
    BY <1>5 DEF ReceiveIcmp
  <2>2. CASE f.msg_type = "request"
    BY <2>1, <2>2, <1>3 DEF IcmpForMe
  <2>3. CASE f.msg_type # "request"
    BY <1>2, <1>4, <1>5, <2>1, <2>3, TellKeeps DEF IcmpForMe
  <2> QED
    BY <2>2, <2>3
<1>6. CASE ~ is_my_mac(n, f.dst)
  <2>1. RouteIcmp(n, f) /\ UNCHANGED answers
    BY <1>6 DEF ReceiveIcmp
  <2>2. CASE f.ttl < 2 /\ f.msg_type = "request"
    BY <1>3, <2>1, <2>2 DEF RouteIcmp
  <2>3. CASE f.ttl < 2 /\ f.msg_type # "request"
    BY <1>4, <2>1, <2>3 DEF RouteIcmp
  <2>4. CASE ~ f.ttl < 2
    <3>1. PICK p : p = [f EXCEPT !.ttl = @ - 1, !.hops = IF f.msg_type = "request" THEN @ + 1 ELSE @]
      OBVIOUS
    <3>2. SendTowards(n, f, f.dst, p)
      BY <2>1, <2>4, <3>1 DEF RouteIcmp
    <3>3. f.ttl >= 2
      BY <1>1, <2>4, MeshAssumption DEF GoodIcmp, IcmpFrame
    <3>4. \A x \in Addrs : [p EXCEPT !.at = x] = MovedIcmp(f, x)
      BY <3>1 DEF MovedIcmp
    <3>5. \A x \in Addrs : /\ GoodIcmp([p EXCEPT !.at = x])
                           /\ [p EXCEPT !.at = x].id = f.id /\ [p EXCEPT !.at = x].kind = f.kind
      BY <1>1, <3>3, <3>4, MoveIcmp, ZenonT(40) DEF Inv
    <3>6. \A x \in Addrs : /\ Good([p EXCEPT !.at = x])
                           /\ [p EXCEPT !.at = x].id = f.id /\ [p EXCEPT !.at = x].kind = f.kind
      BY <3>5 DEF Good
    <3> QED
      BY <1>2, <2>1, <3>2, <3>6, SendTowardsKeeps
  <2> QED
    BY <2>2, <2>3, <2>4
<1> QED
  BY <1>5, <1>6

LEMMA VanishKeeps ==
    ASSUME Inv, NEW f \in air, Vanish(f)
    PROVE  Inv'
<1>1. f.id \in Ids
  BY GoodType DEF Inv
<1>2. LooseTypes'
  BY <1>1 DEF Vanish, Inv, TypeOK, LooseTypes
<1> QED
  BY <1>2, DropKeeps DEF Vanish

LEMMA IgnoreBcastKeeps ==
    ASSUME Inv, NEW n \in Nodes, NEW f \in air, IgnoreBcast(n, f)
    PROVE  Inv'
<1>1. f.id \in Ids
  BY GoodType DEF Inv
<1>2. LooseTypes'
  BY <1>1 DEF IgnoreBcast, Inv, TypeOK, LooseTypes
<1> QED
  BY <1>2, DropKeeps DEF IgnoreBcast

\* Broadcasts are delivered, sent on or forgotten.
LEMMA BroadcastKeeps ==
    ASSUME Inv, UNCHANGED <<msgs, answers>>, LooseTypes',
           purges' \in Nat, Len(msgs) + purges' <= MaxEvents,
           tap' \in [Nodes -> [Ids -> Nat]],
           \A k \in Nodes, m \in Ids : m \notin Sent("bcast") => tap'[k][m] = tap[k][m],
           NEW N, air' \subseteq air \cup N, \A g \in N : GoodBcast(g)
    PROVE  Inv'
<1>1. Extends
  BY DEF Inv, TypeOK, Extends
<1>2. \A g \in N : g.kind = "bcast"
  BY DEF GoodBcast, BcastFrame
<1>3. \A g \in N : Good(g)'
  BY <1>1, GoodExtends DEF Good
<1>4. AloneIn(N)
  BY <1>2 DEF AloneIn
<1>5. /\ \A g \in air' : Good(g)'
      /\ AloneIn(air)'
      /\ air' \subseteq UnicastFrame \cup IcmpFrame \cup BcastFrame
  BY <1>1, <1>2, <1>3, <1>4, AirKeeps
<1>6. TypeOK' /\ Bounded'
  <2>1. Len(msgs) \in Nat
    BY MsgsDomain DEF Inv
  <2>2. purges' \in 0..MaxEvents
    BY <2>1, MeshAssumption
  <2> QED
    BY <1>5, <2>2 DEF Inv, TypeOK, LooseTypes, Bounded
<1>7. \A g \in air' : g.kind = "icmp" \/ g.kind = "unicast" => g \in air
  BY <1>2
<1>8. Pending'
  <2>1. \A g \in air' : g.kind = "unicast" => \A k \in Nodes : tap'[k][g.id] = 0
    <3> SUFFICES ASSUME NEW g \in air', g.kind = "unicast", NEW k \in Nodes
                 PROVE  tap'[k][g.id] = 0
      OBVIOUS
    <3>1. g \in air /\ g.id \in Ids /\ g.id \in Sent("unicast")
      BY <1>7, GoodType DEF Inv
    <3>2. g.id \notin Sent("bcast")
      BY <3>1 DEF Sent
    <3> QED
      BY <3>1, <3>2 DEF Inv, Pending
  <2>2. \A m \in Ids \ DOMAIN msgs : \A k \in Nodes : tap'[k][m] = 0
    BY DEF Inv, Pending, Sent
  <2> QED
    BY <1>7, <2>1, <2>2 DEF Inv, Pending
<1>9. UnicastOnce'
  <2>1. \A m \in Sent("unicast") : m \in Ids /\ m \notin Sent("bcast")
    BY DEF Inv, Bounded, Sent
  <2> QED
    BY <2>1 DEF Inv, UnicastOnce, Sent
<1>10. AnswerReachesAsker'
  BY DEF Inv, AnswerReachesAsker, Sent
<1> QED
  BY <1>5, <1>6, <1>8, <1>9, <1>10 DEF Inv

\* The entry that FloodBcast writes.
LEMMA FloodedEntry ==
    ASSUME NEW h \in History, NEW s \in SeqNos, NEW r \in bit_get_packet(h.bits, Int16(s - h.last), TRUE)
    PROVE  [bits |-> r.bits, last |-> IF r.new = 1 THEN s ELSE h.last] \in History
<1>1. h.bits \subseteq Offsets /\ h.last \in SeqNos
  BY DEF History
<1>2. Int16(s - h.last) \in Int
  BY <1>1, WindowAssumption DEF Int16, SeqNos
<1>3. r.bits \subseteq Offsets
  BY <1>1, <1>2, GetPacketTyped
<1> QED
  BY <1>1, <1>3 DEF History

LEMMA FloodBcastKeeps ==
    ASSUME Inv, NEW n \in Nodes, NEW f \in air, f.kind = "bcast", FloodBcast(n, f)
    PROVE  Inv'
<1>1. /\ GoodBcast(f) /\ f.id \in Ids /\ f.id \in Sent("bcast") /\ f \in BcastFrame
      /\ f.orig \in Addrs /\ f.seqno \in SeqNos
  BY GoodType DEF Inv, GoodBcast, BcastFrame
<1>2. PICK k \in 0..Len(if_list[n]) :
         /\ air' = (air \ {f}) \cup Flooded(n, f, k)
         /\ up' = IF k = Len(if_list[n]) THEN up ELSE up \ {n}
         /\ lost' = IF k < Len(if_list[n]) THEN lost \cup {f.id} ELSE lost
  BY DEF FloodBcast, SendEverywhere
<1>3. \A g \in Flooded(n, f, k) : GoodBcast(g)
  <2>1. f = [kind |-> "bcast", at |-> f.at, id |-> f.id, shost |-> f.shost, orig |-> f.orig, seqno |-> f.seqno]
    BY <1>1 DEF BcastFrame
  <2>2. \A g \in Flooded(n, f, k) :
           g \in BcastFrame /\ g.kind = "bcast" /\ g.id = f.id /\ g.orig = f.orig /\ g.seqno = f.seqno
    BY <1>1, <2>1, FloodGood
  <2> QED
    BY <1>1, <2>2 DEF GoodBcast
<1>4. orig_hash' \in [Nodes -> [Addrs -> History \cup {NULL}]]
  <2>1. PICK h \in History : h = orig_hash[n][f.orig]
    BY <1>1 DEF FloodBcast, Inv, TypeOK
  <2>2. PICK s \in SeqNos : s = f.seqno
    BY <1>1
  <2>3. PICK r \in bit_get_packet(h.bits, Int16(s - h.last), TRUE) :
           orig_hash' = [orig_hash EXCEPT ![n][f.orig] =
                            [bits |-> r.bits, last |-> IF r.new = 1 THEN s ELSE h.last]]
    BY <2>1, <2>2 DEF FloodBcast
  <2>4. PICK e \in History : orig_hash' = [orig_hash EXCEPT ![n][f.orig] = e]
    BY <2>3, FloodedEntry
  <2> QED
    BY <1>1, <2>3, <2>4 DEF Inv, TypeOK
<1>5. LooseTypes'
  BY <1>1, <1>2, <1>4 DEF FloodBcast, Inv, TypeOK, LooseTypes
<1>6. /\ tap' \in [Nodes -> [Ids -> Nat]]
      /\ \A j \in Nodes, m \in Ids : m \notin Sent("bcast") => tap'[j][m] = tap[j][m]
  <2>1. TypeOK /\ tap' = [tap EXCEPT ![n][f.id] = @ + 1]
    BY DEF FloodBcast, Inv
  <2>2. PICK i \in Ids : i = f.id
    BY <1>1
  <2>3. /\ tap' \in [Nodes -> [Ids -> Nat]]
        /\ \A j \in Nodes, m \in Ids : j # n \/ m # i => tap'[j][m] = tap[j][m]
    <3>1. tap' = [tap EXCEPT ![n][i] = @ + 1]
      BY <2>1, <2>2
    <3> QED
      BY <2>1, <3>1 DEF TypeOK
  <2> QED
    BY <1>1, <2>2, <2>3
<1>7. UNCHANGED <<msgs, answers>> /\ purges' \in Nat /\ Len(msgs) + purges' <= MaxEvents
  BY MeshAssumption DEF FloodBcast, Inv, TypeOK, Bounded
<1> QED
  BY <1>2, <1>3, <1>5, <1>6, <1>7, BroadcastKeeps

LEMMA ForgetKeeps ==
    ASSUME Inv, NEW n \in Nodes, NEW F \in SUBSET Sent("bcast"), Forget(n, F),
           up' \subseteq Nodes, bcast_seqno' \in [Nodes -> SeqNos],
           orig_hash' \in [Nodes -> [Addrs -> History \cup {NULL}]]
    PROVE  Inv'
<1>1. F \subseteq Ids
  BY DEF Inv, Bounded, Sent
<1>2. LooseTypes'
  BY <1>1 DEF Forget, LooseTypes, Inv, TypeOK
<1>3. tap' = [tap EXCEPT ![n] = [m \in Ids |-> IF m \in F THEN 0 ELSE tap[n][m]]]
  BY DEF Forget
<1>4. PICK t : t = [m \in Ids |-> IF m \in F THEN 0 ELSE tap[n][m]]
  OBVIOUS
<1>5. t \in [Ids -> Nat] /\ \A m \in Ids : m \notin F => t[m] = tap[n][m]
  BY <1>4 DEF Inv, TypeOK
<1>6. tap' = [tap EXCEPT ![n] = t]
  BY <1>3, <1>4
<1>7. /\ tap' \in [Nodes -> [Ids -> Nat]]
      /\ \A k \in Nodes, m \in Ids : m \notin F => tap'[k][m] = tap[k][m]
  BY <1>5, <1>6 DEF Inv, TypeOK
<1>8. \A k \in Nodes, m \in Ids : m \notin Sent("bcast") => tap'[k][m] = tap[k][m]
  BY <1>7
<1>9. UNCHANGED <<air, msgs, answers>> /\ purges' \in Nat /\ Len(msgs) + purges' <= MaxEvents
  <2>1. Len(msgs) \in Nat /\ purges \in Nat /\ MaxEvents \in Nat
    BY MsgsDomain, MeshAssumption DEF Inv, TypeOK
  <2> QED
    BY <2>1 DEF Forget
<1>10. PICK N : N = {}
  OBVIOUS
<1>11. air' \subseteq air \cup N /\ \A g \in N : GoodBcast(g)
  BY <1>9, <1>10
<1> QED
  BY <1>2, <1>7, <1>8, <1>9, <1>11, BroadcastKeeps

LEMMA purge_origKeeps ==
    ASSUME Inv, NEW n \in Nodes, NEW a \in Addrs, purge_orig(n, a)
    PROVE  Inv'
<1>1. PICK F \in SUBSET Sent("bcast") : F = {m \in Sent("bcast") : is_my_mac(msgs[m].from, a)}
  OBVIOUS
<1>2. Forget(n, F)
  BY <1>1 DEF purge_orig
<1>3. /\ up' \subseteq Nodes /\ bcast_seqno' \in [Nodes -> SeqNos]
      /\ orig_hash' \in [Nodes -> [Addrs -> History \cup {NULL}]]
  BY DEF purge_orig, Inv, TypeOK
<1> QED
  BY <1>2, <1>3, ForgetKeeps

LEMMA RestartKeeps ==
    ASSUME Inv, NEW n \in Nodes, Restart(n)
    PROVE  Inv'
<1>1. PICK F \in SUBSET Sent("bcast") : F = Sent("bcast")
  OBVIOUS
<1>2. Forget(n, F)
  BY <1>1 DEF Restart
<1>3. 1 \in SeqNos
  BY WindowAssumption DEF SeqNos
<1>4. /\ up' \subseteq Nodes /\ bcast_seqno' \in [Nodes -> SeqNos]
      /\ orig_hash' \in [Nodes -> [Addrs -> History \cup {NULL}]]
  BY <1>3 DEF Restart, Inv, TypeOK
<1> QED
  BY <1>2, <1>4, ForgetKeeps

LEMMA get_orig_nodeKeeps ==
    ASSUME Inv, NEW n \in Nodes, NEW a \in Addrs, get_orig_node(n, a)
    PROVE  Inv'
<1>1. NewEntry \in History
  BY WindowAssumption DEF NewEntry, History, SeqNos
<1>2. LooseTypes'
  BY <1>1 DEF get_orig_node, ghosts, Inv, TypeOK, LooseTypes
<1>3. UNCHANGED <<air, msgs, tap, answers, purges>>
  BY DEF get_orig_node, ghosts
<1>4. purges' \in Nat /\ Len(msgs) + purges' <= MaxEvents /\ tap' \in [Nodes -> [Ids -> Nat]]
  BY <1>3, MeshAssumption DEF Inv, TypeOK, Bounded
<1>5. PICK N : N = {}
  OBVIOUS
<1>6. air' \subseteq air \cup N /\ \A g \in N : GoodBcast(g)
  BY <1>3, <1>5
<1> QED
  BY <1>2, <1>3, <1>4, <1>6, BroadcastKeeps

\* What AnswerReachesAsker says of one message.
RightlyAnswered(m) ==
    /\ Len(answers[m]) <= 1
    /\ \A k \in DOMAIN answers[m] :
          /\ answers[m][k].node = msgs[m].from
          /\ answers[m][k].msg_type = "exceeded" => answers[m][k].hops = msgs[m].ttl
          /\ answers[m][k].msg_type = "reply" => answers[m][k].hops <= msgs[m].ttl

\* A new message, with the frames that carry it and perhaps an answer.
LEMMA NewMessageKeeps ==
    ASSUME Inv, Extends, NEW id \in Ids, id \notin DOMAIN msgs, DOMAIN msgs' = DOMAIN msgs \cup {id},
           Len(msgs') + purges <= MaxEvents, UNCHANGED <<tap, purges>>, LooseTypes',
           NEW N, air' \subseteq air \cup N, \A g \in N : Good(g)' /\ g.id = id, AloneIn(N),
           answers' \in [Ids -> Seq(Answer)], \A m \in Ids \ {id} : answers'[m] = answers[m],
           RightlyAnswered(id)', \A g \in N : g.kind = "icmp" => answers'[id] = <<>>
    PROVE  Inv'
<1>1. \A h \in air : h.id \in DOMAIN msgs /\ h.id \in Ids
  BY GoodType DEF Inv, Sent
<1>2. \A g \in N, h \in air : g.id # h.id
  BY <1>1
<1>3. /\ \A g \in air' : Good(g)'
      /\ AloneIn(air)'
      /\ air' \subseteq UnicastFrame \cup IcmpFrame \cup BcastFrame
  BY <1>2, AirKeeps
<1>4. TypeOK' /\ Bounded'
  BY <1>3 DEF Inv, TypeOK, LooseTypes, Bounded, Extends
<1>5. \A k \in Nodes : tap[k][id] = 0
  BY DEF Inv, Pending
<1>6. Pending'
  <2>1. \A g \in air' : g.kind = "icmp" => answers'[g.id] = <<>>
    <3>1. \A g \in air : g.kind = "icmp" => answers'[g.id] = answers[g.id] /\ answers[g.id] = <<>>
      BY <1>1 DEF Inv, Pending
    <3> QED
      BY <3>1
  <2>2. \A g \in air' : g.kind = "unicast" => \A k \in Nodes : tap'[k][g.id] = 0
    BY <1>5 DEF Inv, Pending
  <2>3. \A m \in Ids \ DOMAIN msgs' : answers'[m] = <<>> /\ \A k \in Nodes : tap'[k][m] = 0
    BY DEF Inv, Pending
  <2> QED
    BY <2>1, <2>2, <2>3 DEF Pending
<1>7. UnicastOnce'
  <2> SUFFICES ASSUME NEW k \in Nodes, NEW m \in Sent("unicast")'
               PROVE  tap[k][m] <= (IF is_my_mac(k, msgs'[m].dst) THEN 1 ELSE 0)
    BY DEF UnicastOnce
  <2>1. CASE m = id
    BY <1>5, <2>1
  <2>2. CASE m # id
    <3>1. m \in Sent("unicast") /\ msgs'[m] = msgs[m]
      BY <2>2 DEF Sent, Extends
    <3> QED
      BY <3>1 DEF Inv, UnicastOnce
  <2> QED
    BY <2>1, <2>2
<1>8. AnswerReachesAsker'
  <2> SUFFICES ASSUME NEW m \in Sent("icmp")'
               PROVE  RightlyAnswered(m)'
    BY DEF AnswerReachesAsker, RightlyAnswered
  <2>1. CASE m # id
    <3>1. m \in Sent("icmp") /\ msgs'[m] = msgs[m] /\ m \in Ids
      BY <2>1 DEF Sent, Extends, Inv, Bounded
    <3>2. answers'[m] = answers[m]
      BY <2>1, <3>1
    <3>3. RightlyAnswered(m)
      BY <3>1 DEF Inv, AnswerReachesAsker, RightlyAnswered
    <3> QED
      BY <3>1, <3>2, <3>3 DEF RightlyAnswered
  <2> QED
    BY <2>1
<1> QED
  BY <1>3, <1>4, <1>6, <1>7, <1>8 DEF Inv

\* The answers to a message that has not been sent.
LEMMA Unanswered ==
    ASSUME Inv, NEW id \in Ids, id \notin DOMAIN msgs, UNCHANGED answers
    PROVE  /\ RightlyAnswered(id)' /\ answers'[id] = <<>>
           /\ answers' \in [Ids -> Seq(Answer)] /\ \A m \in Ids \ {id} : answers'[m] = answers[m]
<1>1. answers'[id] = <<>>
  BY DEF Inv, Pending
<1>2. Len(<<>>) <= 1 /\ DOMAIN <<>> = {}
  OBVIOUS
<1>3. RightlyAnswered(id)'
  BY <1>1, <1>2 DEF RightlyAnswered
<1> QED
  BY <1>1, <1>3 DEF Inv, TypeOK

\* The frame in which a unicast leaves its first node.
FirstUnicast(x, id, a) == [kind |-> "unicast", at |-> x, id |-> id, dest |-> a, ttl |-> TTL, hops |-> 1]

LEMMA TapUnicastKeeps ==
    ASSUME Inv, NEW n \in Nodes, NEW a \in Addrs, TapUnicast(n, a)
    PROVE  Inv'
<1> USE MeshAssumption
<1>1. Log("unicast", n, a, TTL) /\ UNCHANGED <<orig_hash, bcast_seqno, tap, answers, lost, purges>>
  BY DEF TapUnicast
<1>2. PICK id : id = NextId
  OBVIOUS
<1>3. /\ Extends /\ DOMAIN msgs' = DOMAIN msgs \cup {id} /\ id \in Ids /\ id \notin DOMAIN msgs
      /\ Len(msgs') + purges <= MaxEvents
      /\ msgs'[id] = [kind |-> "unicast", from |-> n, dst |-> a, ttl |-> TTL, seqno |-> 0]
  <2>1. "unicast" \in Kinds /\ TTL \in 0..MaxTtl /\ a \in Addrs \cup {NULL}
    BY DEF Kinds
  <2>2. /\ Extends /\ DOMAIN msgs' = DOMAIN msgs \cup {NextId} /\ NextId \in Ids /\ NextId \notin DOMAIN msgs
        /\ Len(msgs') + purges <= MaxEvents
        /\ msgs'[NextId] = [kind |-> "unicast", from |-> n, dst |-> a, ttl |-> TTL,
                            seqno |-> IF "unicast" = "bcast" THEN bcast_seqno[n] ELSE 0]
    BY <1>1, <2>1, LogExtends
  <2> QED
    BY <1>2, <2>2
<1>4. /\ RightlyAnswered(id)' /\ answers'[id] = <<>>
      /\ answers' \in [Ids -> Seq(Answer)] /\ \A m \in Ids \ {id} : answers'[m] = answers[m]
  BY <1>1, <1>3, Unanswered
<1>5. PICK p : p = [kind |-> "unicast", at |-> a, id |-> id, dest |-> a, ttl |-> TTL, hops |-> 1]
  OBVIOUS
<1>6. SendTowards(n, NULL, a, p)
  BY <1>2, <1>5 DEF TapUnicast
<1>7. \A x \in Addrs : GoodUnicast([p EXCEPT !.at = x])' /\ [p EXCEPT !.at = x].id = id
  <2>1. \A x \in Addrs : [p EXCEPT !.at = x] = FirstUnicast(x, id, a)
    BY <1>5 DEF FirstUnicast
  <2>2. id \in Sent("unicast")' /\ msgs'[id].dst = a
    BY <1>3 DEF Sent
  <2>3. \A x \in Addrs : /\ FirstUnicast(x, id, a) \in UnicastFrame
                         /\ FirstUnicast(x, id, a).id = id /\ FirstUnicast(x, id, a).dest = a
                         /\ FirstUnicast(x, id, a).ttl = TTL /\ FirstUnicast(x, id, a).hops = 1
    BY <1>3 DEF FirstUnicast, UnicastFrame
  <2>4. \A x \in Addrs : GoodUnicast(FirstUnicast(x, id, a))'
    BY <2>2, <2>3 DEF GoodUnicast
  <2> QED
    BY <2>1, <2>3, <2>4
<1>8. up' \subseteq Nodes
  BY <1>6, SendTowardsEffect DEF Inv, TypeOK
<1>9. LooseTypes'
  BY <1>1, <1>8 DEF Inv, TypeOK, LooseTypes
<1>10. PICK N : /\ air' \subseteq air \cup N
                /\ AloneIn(N)
                /\ \A g \in N : GoodUnicast(g)' /\ g.id = id
  <2>1. up \subseteq Nodes
    BY DEF Inv, TypeOK
  <2>2. air' = air \ {NULL} \/ \E x \in Addrs : air' = (air \ {NULL}) \cup {[p EXCEPT !.at = x]}
    BY <1>6, <2>1, SendTowardsEffect
  <2>3. CASE air' = air \ {NULL}
    <3>1. AloneIn({})
      BY DEF AloneIn
    <3> QED
      BY <2>3, <3>1
  <2>4. CASE \E x \in Addrs : air' = (air \ {NULL}) \cup {[p EXCEPT !.at = x]}
    <3>1. PICK g : air' = (air \ {NULL}) \cup {g} /\ GoodUnicast(g)' /\ g.id = id
      BY <1>7, <2>4
    <3>2. AloneIn({g})
      BY DEF AloneIn
    <3> QED
      BY <3>1, <3>2
  <2> QED
    BY <2>2, <2>3, <2>4
<1>11. \A g \in N : Good(g)' /\ g.id = id
  BY <1>10 DEF Good
<1> QED
  BY <1>1, <1>3, <1>4, <1>9, <1>10, <1>11, NewMessageKeeps

LEMMA TapBroadcastKeeps ==
    ASSUME Inv, NEW n \in Nodes, TapBroadcast(n)
    PROVE  Inv'
<1>1. Log("bcast", n, NULL, 0) /\ UNCHANGED <<orig_hash, tap, answers, purges>>
  BY DEF TapBroadcast
<1>2. PICK id : id = NextId
  OBVIOUS
<1>3. PICK o, s : o = Primary(n) /\ s = bcast_seqno[n]
  OBVIOUS
<1>4. o \in Addrs /\ s \in SeqNos
  BY <1>3, PrimaryIsMine DEF Inv, TypeOK
<1>5. /\ Extends /\ DOMAIN msgs' = DOMAIN msgs \cup {id} /\ id \in Ids /\ id \notin DOMAIN msgs
      /\ Len(msgs') + purges <= MaxEvents
      /\ msgs'[id] = [kind |-> "bcast", from |-> n, dst |-> NULL, ttl |-> 0, seqno |-> s]
  <2>1. "bcast" \in Kinds /\ 0 \in 0..MaxTtl /\ NULL \in Addrs \cup {NULL}
    BY MeshAssumption DEF Kinds
  <2>2. /\ Extends /\ DOMAIN msgs' = DOMAIN msgs \cup {NextId} /\ NextId \in Ids /\ NextId \notin DOMAIN msgs
        /\ Len(msgs') + purges <= MaxEvents
        /\ msgs'[NextId] = [kind |-> "bcast", from |-> n, dst |-> NULL, ttl |-> 0,
                            seqno |-> IF "bcast" = "bcast" THEN bcast_seqno[n] ELSE 0]
    BY <1>1, <2>1, LogExtends
  <2> QED
    BY <1>2, <1>3, <2>2
<1>6. /\ RightlyAnswered(id)' /\ answers'[id] = <<>>
      /\ answers' \in [Ids -> Seq(Answer)] /\ \A m \in Ids \ {id} : answers'[m] = answers[m]
  BY <1>1, <1>5, Unanswered
<1>7. PICK p : p = [kind |-> "bcast", at |-> NULL, id |-> id, shost |-> NULL, orig |-> o, seqno |-> s]
  OBVIOUS
<1>8. PICK k \in 0..Len(if_list[n]) :
         /\ air' = (air \ {NULL}) \cup Flooded(n, p, k)
         /\ up' = IF k = Len(if_list[n]) THEN up ELSE up \ {n}
         /\ lost' = IF k < Len(if_list[n]) THEN lost \cup {p.id} ELSE lost
  <2>1. SendEverywhere(n, NULL, p)
    BY <1>2, <1>3, <1>7 DEF TapBroadcast
  <2> QED
    BY <2>1 DEF SendEverywhere
<1>9. p.id = id /\ p.orig = o /\ p.seqno = s
  BY <1>7
<1>10. \A g \in Flooded(n, p, k) : /\ g \in BcastFrame /\ g.kind = "bcast" /\ g.id = id
                                   /\ g.orig = o /\ g.seqno = s
  <2>1. p = [kind |-> "bcast", at |-> NULL, id |-> p.id, shost |-> NULL, orig |-> p.orig, seqno |-> p.seqno]
    BY <1>7, <1>9
  <2>2. \E at, shost : p = [kind |-> "bcast", at |-> at, id |-> p.id, shost |-> shost,
                            orig |-> p.orig, seqno |-> p.seqno]
    BY <2>1
  <2> QED
    BY <1>4, <1>5, <1>9, <2>2, FloodGood
<1>11. id \in Sent("bcast")' /\ msgs'[id].from = n /\ msgs'[id].seqno = s
  BY <1>5 DEF Sent
<1>12. \A g \in Flooded(n, p, k) : Good(g)' /\ g.id = id
  <2>1. \A g \in Flooded(n, p, k) : GoodBcast(g)'
    BY <1>3, <1>10, <1>11 DEF GoodBcast
  <2> QED
    BY <1>10, <2>1 DEF Good
<1>13. bcast_seqno' \in [Nodes -> SeqNos]
  <2>1. (s + 1) % SeqSpace \in SeqNos
    BY <1>4, WindowAssumption DEF SeqNos
  <2>2. bcast_seqno' = [bcast_seqno EXCEPT ![n] = (s + 1) % SeqSpace]
    BY <1>3 DEF TapBroadcast
  <2> QED
    BY <2>1, <2>2 DEF Inv, TypeOK
<1>14. LooseTypes'
  BY <1>1, <1>5, <1>8, <1>9, <1>13 DEF Inv, TypeOK, LooseTypes
<1>15. PICK N : N = Flooded(n, p, k)
  OBVIOUS
<1>16. AloneIn(N)
  BY <1>10, <1>15 DEF AloneIn
<1>17. \A g \in N : Good(g)' /\ g.id = id
  BY <1>12, <1>15
<1>18. air' \subseteq air \cup N
  BY <1>8, <1>15
<1> QED
  BY <1>1, <1>5, <1>6, <1>14, <1>16, <1>17, <1>18, NewMessageKeeps

LEMMA handle_packetKeeps ==
    ASSUME Inv, NEW n \in Nodes, NEW a \in Addrs, NEW ttl \in 0..MaxTtl, handle_packet(n, a, ttl)
    PROVE  Inv'
<1>1. Log("icmp", n, a, ttl) /\ UNCHANGED <<up, orig_hash, bcast_seqno, tap, lost, purges>>
  BY DEF handle_packet
<1>2. PICK id : id = NextId
  OBVIOUS
<1>3. /\ Extends /\ DOMAIN msgs' = DOMAIN msgs \cup {id} /\ id \in Ids /\ id \notin DOMAIN msgs
      /\ Len(msgs') + purges <= MaxEvents
      /\ msgs'[id] = [kind |-> "icmp", from |-> n, dst |-> a, ttl |-> ttl, seqno |-> 0]
  <2>1. "icmp" \in Kinds /\ a \in Addrs \cup {NULL}
    BY DEF Kinds
  <2>2. /\ Extends /\ DOMAIN msgs' = DOMAIN msgs \cup {NextId} /\ NextId \in Ids /\ NextId \notin DOMAIN msgs
        /\ Len(msgs') + purges <= MaxEvents
        /\ msgs'[NextId] = [kind |-> "icmp", from |-> n, dst |-> a, ttl |-> ttl,
                            seqno |-> IF "icmp" = "bcast" THEN bcast_seqno[n] ELSE 0]
    BY <1>1, <2>1, LogExtends
  <2> QED
    BY <1>2, <2>2
<1>4. LooseTypes'
  BY <1>1 DEF Inv, TypeOK, LooseTypes
<1>5. ASSUME UNCHANGED answers, NEW N, AloneIn(N), air' \subseteq air \cup N, \A g \in N : Good(g)' /\ g.id = id
      PROVE  Inv'
  <2>1. /\ RightlyAnswered(id)' /\ answers'[id] = <<>>
        /\ answers' \in [Ids -> Seq(Answer)] /\ \A m \in Ids \ {id} : answers'[m] = answers[m]
    BY <1>3, <1>5, Unanswered
  <2> QED
    BY <1>1, <1>3, <1>4, <1>5, <2>1, NewMessageKeeps
<1>6. ASSUME UNCHANGED <<air, answers>>
      PROVE  Inv'
  <2>1. PICK N : N = {}
    OBVIOUS
  <2>2. AloneIn(N) /\ air' \subseteq air \cup N /\ \A g \in N : Good(g)' /\ g.id = id
    BY <1>6, <2>1 DEF AloneIn
  <2> QED
    BY <1>5, <1>6, <2>2
<1>7. ASSUME NEW l \in Links, is_my_mac(n, l[1]), ttl > 0, UNCHANGED answers,
             air' = air \cup {Icmp(l[2], id, "request", a, l[1], ttl, 1)}
      PROVE  Inv'
  <2>1. PICK g : g = Icmp(l[2], id, "request", a, l[1], ttl, 1)
    OBVIOUS
  <2>2. g \in IcmpFrame
    BY <1>3, <1>7, <2>1, IcmpTyped, LinkEnds, MeshAssumption DEF MsgTypes
  <2>3. /\ g.kind = "icmp" /\ g.id = id /\ g.msg_type = "request" /\ g.orig = l[1] /\ g.ttl = ttl /\ g.hops = 1
    BY <2>1, IcmpFields
  <2>4. id \in Sent("icmp")' /\ msgs'[id].from = n /\ msgs'[id].ttl = ttl
    BY <1>3 DEF Sent
  <2>5. GoodIcmp(g)'
    BY <1>7, <2>2, <2>3, <2>4 DEF GoodIcmp
  <2>6. PICK N : N = {g}
    OBVIOUS
  <2>7. AloneIn(N) /\ air' \subseteq air \cup N /\ \A h \in N : Good(h)' /\ h.id = id
    BY <1>7, <2>1, <2>3, <2>5, <2>6 DEF AloneIn, Good
  <2> QED
    BY <1>5, <1>7, <2>7
<1>8. ASSUME Tell(n, id, "unreachable", 0), UNCHANGED air
      PROVE  Inv'
  <2>1. PICK r : r = [node |-> n, msg_type |-> "unreachable", hops |-> 0]
    OBVIOUS
  <2>2. r \in Answer /\ r.node = n /\ r.msg_type = "unreachable"
    BY <2>1, MeshAssumption DEF Answer, MsgTypes
  <2>3. answers[id] = <<>>
    BY <1>3 DEF Inv, Pending
  <2>4. answers' = [answers EXCEPT ![id] = <<r>>]
    BY <1>8, <2>1, <2>3 DEF Tell
  <2>5. /\ answers' \in [Ids -> Seq(Answer)]
        /\ \A m \in Ids \ {id} : answers'[m] = answers[m]
        /\ answers'[id] = <<r>>
    BY <1>3, <2>2, <2>4 DEF Inv, TypeOK
  <2>6. RightlyAnswered(id)'
    <3>1. PICK w : w = <<r>>
      OBVIOUS
    <3>2. Len(w) <= 1 /\ \A k \in DOMAIN w : w[k] = r
      BY <3>1
    <3>3. answers'[id] = w
      BY <2>5, <3>1
    <3>4. Len(answers'[id]) <= 1
      BY <3>2, <3>3, Zenon
    <3>5. \A k \in DOMAIN answers'[id] : answers'[id][k] = r
      BY <3>2, <3>3
    <3>6. msgs'[id].from = n
      BY <1>3
    <3> QED
      BY <2>2, <3>4, <3>5, <3>6 DEF RightlyAnswered
  <2>7. PICK N : N = {}
    OBVIOUS
  <2>8. /\ AloneIn(N) /\ air' \subseteq air \cup N /\ \A g \in N : Good(g)' /\ g.id = id
        /\ \A g \in N : g.kind = "icmp" => answers'[id] = <<>>
    BY <1>8, <2>7 DEF AloneIn
  <2> QED
    BY <1>1, <1>3, <1>4, <2>5, <2>6, <2>8, NewMessageKeeps
<1>9. PICK r \in Routes(n, a) :
         IF r # NULL /\ ttl > 0
         THEN /\ air' \in {air, air \cup {Icmp(r[2], id, "request", a, r[1], ttl, 1)}}
              /\ UNCHANGED answers
         ELSE Tell(n, id, "unreachable", 0) /\ UNCHANGED air
  BY <1>2 DEF handle_packet, Icmp
<1>10. r # NULL => r \in Links /\ is_my_mac(n, r[1])
  BY DEF Routes
<1> QED
  BY <1>6, <1>7, <1>8, <1>9, <1>10

-----------------------------------------------------------------------------
(* The theorems. *)

LEMMA InitInv ==
    ASSUME Init
    PROVE  Inv
<1> USE MeshAssumption, WindowAssumption
<1>1. NewEntry \in History /\ 1 \in SeqNos
  BY DEF NewEntry, History, SeqNos
<1>2. /\ msgs \in Seq(Message) /\ Len(msgs) = 0 /\ DOMAIN msgs = {}
      /\ <<>> \in Seq(Answer)
  BY DEF Init
<1>3. TypeOK
  BY <1>1, <1>2 DEF Init, TypeOK
<1>4. Bounded
  BY <1>2 DEF Init, Bounded
<1>5. (\A g \in air : Good(g)) /\ AloneIn(air)
  BY DEF Init, AloneIn
<1>6. Pending
  BY DEF Init, Pending
<1>7. UnicastOnce /\ AnswerReachesAsker
  BY <1>2 DEF UnicastOnce, AnswerReachesAsker, Sent
<1> QED
  BY <1>3, <1>4, <1>5, <1>6, <1>7 DEF Inv

LEMMA NextInv ==
    ASSUME Inv, [Next]_vars
    PROVE  Inv'
<1>1. CASE Arrive
  <2>1. PICK f \in air :
           IF NodeOf(f.at) \in up THEN receive_packet_batiface(NodeOf(f.at), f) ELSE Vanish(f)
    BY <1>1 DEF Arrive
  <2>2. CASE NodeOf(f.at) \in up
    <3>1. NodeOf(f.at) \in Nodes
      BY <2>2 DEF Inv, TypeOK
    <3>2. receive_packet_batiface(NodeOf(f.at), f)
      BY <2>1, <2>2
    <3> QED
      BY <3>1, <3>2, ReceiveUnicastKeeps, ReceiveIcmpKeeps, IgnoreBcastKeeps, FloodBcastKeeps
         DEF receive_packet_batiface
  <2>3. CASE NodeOf(f.at) \notin up
    BY <2>1, <2>3, VanishKeeps
  <2> QED
    BY <2>2, <2>3
<1>2. CASE \E f \in air : Vanish(f)
  BY <1>2, VanishKeeps
<1>3. CASE \E n \in Nodes : Send(n)
  BY <1>3, TapBroadcastKeeps, TapUnicastKeeps, handle_packetKeeps DEF Send
<1>4. CASE \E n \in Restarting : Restart(n)
  BY <1>4, RestartKeeps, MeshAssumption
<1>5. CASE \E n \in Nodes, a \in Addrs : purge_orig(n, a) \/ get_orig_node(n, a)
  BY <1>5, purge_origKeeps, get_orig_nodeKeeps
<1>6. CASE UNCHANGED vars
  <2>1. UNCHANGED <<up, air, orig_hash, bcast_seqno, msgs, tap, answers, lost, purges>>
    BY <1>6 DEF vars, ghosts
  <2>2. PICK N : N = {}
    OBVIOUS
  <2>3. air' \subseteq air \cup N /\ \A g \in N : GoodBcast(g)
    BY <2>1, <2>2
  <2>4. LooseTypes'
    BY <2>1 DEF Inv, TypeOK, LooseTypes
  <2>5. purges' \in Nat /\ Len(msgs) + purges' <= MaxEvents /\ tap' \in [Nodes -> [Ids -> Nat]]
    BY <2>1, MeshAssumption DEF Inv, TypeOK, Bounded
  <2> QED
    BY <2>1, <2>3, <2>4, <2>5, BroadcastKeeps
<1> QED
  BY <1>1, <1>2, <1>3, <1>4, <1>5, <1>6 DEF Next

\* The frames, histories and answers of the mesh keep their types: no ttl
\* reaches 0 on the air, however a packet is routed.
THEOREM MeshTypes == Spec => []TypeOK
<1>1. Inv => TypeOK
  BY DEF Inv
<1> QED
  BY <1>1, InitInv, NextInv, PTL DEF Spec

\* An echo request is answered at most once, to the node that asked, and
\* "exceeded" comes from exactly as many hops away as the request had ttl.
THEOREM EchoAnswered == Spec => []AnswerReachesAsker
<1>1. Inv => AnswerReachesAsker
  BY DEF Inv
<1> QED
  BY <1>1, InitInv, NextInv, PTL DEF Spec

-----------------------------------------------------------------------------
(* Broadcasts.  A node that gets a copy of a broadcast after a whole       *)
(* window of later ones has forgotten it and delivers it again; there are  *)
(* fewer events than that.                                                 *)

FewEvents == MaxEvents < W

\* Number s was not in a history with window b and newest number l, is in
\* the one with window c and newest number last, and what was in it stays.
Entered(b, l, s, c, last) ==
    /\ ~ (s <= l /\ l - s \in b)
    /\ last \in {s, l}
    /\ s <= last /\ last - s \in c
    /\ \A q \in 1..(W - 1) : q <= l /\ l - q \in b => q <= last /\ last - q \in c

\* That is what FloodBcast does to the history of the originator.
LEMMA FloodedWindow ==
    ASSUME NEW b \in SUBSET Offsets, NEW l \in 0..(W - 1), NEW s \in 1..(W - 1),
           0 \in get_bit_status(b, l, s), NEW r \in bit_get_packet(b, Int16(s - l), TRUE),
           NEW last, last = IF r.new = 1 THEN s ELSE l
    PROVE  Entered(b, l, s, r.bits, last)
<1> USE WindowAssumption
<1>1. Int16(s - l) = s - l /\ Int16(l - s) = l - s
  BY DEF Int16
<1>2. ~ (s <= l /\ l - s \in b)
  <2> SUFFICES ASSUME s <= l, l - s \in b
               PROVE  FALSE
    OBVIOUS
  <2>1. get_bit_status(b, l, s) = {1}
    BY <1>1 DEF get_bit_status, Offsets
  <2> QED
    BY <2>1
<1>3. PICK d \in Int : d = s - l /\ -W < d
  OBVIOUS
<1>4. /\ d >= 0 => r.new = 1 /\ 0 \in r.bits
      /\ d < 0 => r.new = 0 /\ r.bits = b \cup {-d}
      /\ \A k \in b : d >= 0 /\ k + d < W => k + d \in r.bits
  <2>1. b \subseteq Offsets /\ r \in bit_get_packet(b, d, TRUE)
    BY <1>1, <1>3
  <2> QED
    BY <1>3, <2>1, GetPacketKeeps, ZenonT(40)
<1>5. CASE d >= 0
  <2>1. last = s /\ 0 \in r.bits /\ l <= s
    BY <1>3, <1>4, <1>5
  <2>2. ASSUME NEW q \in 1..(W - 1), q <= l, l - q \in b
        PROVE  q <= last /\ last - q \in r.bits
    <3>1. (l - q) + d < W /\ (l - q) + d = s - q
      BY <1>3, <2>2
    <3> QED
      BY <1>4, <1>5, <2>1, <2>2, <3>1
  <2> QED
    BY <1>2, <2>1, <2>2 DEF Entered
<1>6. CASE d < 0
  <2>1. last = l /\ s <= l /\ l - s \in r.bits /\ b \subseteq r.bits
    BY <1>3, <1>4, <1>6
  <2> QED
    BY <1>2, <2>1 DEF Entered
<1> QED
  BY <1>5, <1>6

\* Nothing that broadcasts need changes.
LEMMA QuietFlood ==
    ASSUME Inv, FloodInv, UNCHANGED <<orig_hash, bcast_seqno, msgs>>,
           \A k \in Nodes, m \in Sent("bcast") : tap'[k][m] = tap[k][m]
    PROVE  FloodInv'
<1>1. OwnUnknown'
  BY DEF FloodInv, OwnUnknown
<1>2. Numbers'
  BY DEF FloodInv, Numbers, Sent
<1>3. Marked'
  BY DEF FloodInv, Marked, Sent
<1> QED
  BY <1>1, <1>2, <1>3 DEF FloodInv

\* The numbers in use are smaller than the window.
LEMMA SmallNumbers ==
    ASSUME Inv, Numbers, FewEvents
    PROVE  /\ Len(msgs) \in Nat /\ Len(msgs) < W
           /\ \A m \in Sent("bcast") : msgs[m].seqno \in 1..(W - 1)
           /\ \A n \in Nodes, a \in Addrs : orig_hash[n][a] # NULL =>
                 orig_hash[n][a].last \in 0..(W - 1) /\ orig_hash[n][a].bits \in SUBSET Offsets
<1> USE WindowAssumption, MeshAssumption
<1>1. Len(msgs) \in Nat /\ Len(msgs) < W
  BY MsgsDomain DEF Inv, TypeOK, Bounded, FewEvents
<1>2. \A m \in Sent("bcast") : msgs[m].seqno \in 1..(W - 1)
  <2>1. \A m \in Sent("bcast") : msgs[m].seqno \in SeqNos
    BY MsgsDomain DEF Inv, Sent, Message
  <2> QED
    BY <1>1, <2>1 DEF Numbers, SeqNos
<1>3. ASSUME NEW n \in Nodes, NEW a \in Addrs, orig_hash[n][a] # NULL
      PROVE  orig_hash[n][a].last \in 0..(W - 1) /\ orig_hash[n][a].bits \in SUBSET Offsets
  <2>1. orig_hash[n][a] \in History
    BY <1>3 DEF Inv, TypeOK
  <2>2. orig_hash[n][a].last <= Len(msgs)
    BY <1>3 DEF Numbers
  <2>3. orig_hash[n][a].last \in SeqNos /\ orig_hash[n][a].bits \in SUBSET Offsets
    BY <2>1 DEF History
  <2> QED
    BY <1>1, <2>2, <2>3 DEF SeqNos
<1> QED
  BY <1>1, <1>2, <1>3

\* One entry is written.
LEMMA EntryWritten ==
    ASSUME TypeOK, NEW n \in Nodes, NEW a \in Addrs, NEW e, orig_hash' = [orig_hash EXCEPT ![n][a] = e]
    PROVE  /\ orig_hash'[n][a] = e
           /\ \A k \in Nodes, c \in Addrs : k # n \/ c # a => orig_hash'[k][c] = orig_hash[k][c]
BY DEF TypeOK

LEMMA FloodBcastMarks ==
    ASSUME Inv, FloodInv, FewEvents, NEW n \in Nodes, NEW f \in air, f.kind = "bcast", FloodBcast(n, f)
    PROVE  FloodInv'
<1>1. /\ f.id \in Ids /\ f.id \in Sent("bcast") /\ f.orig \in Addrs
      /\ f.orig = Primary(msgs[f.id].from) /\ f.seqno = msgs[f.id].seqno
  BY GoodType DEF Inv, GoodBcast, BcastFrame
<1>a. PICK id \in Ids, a \in Addrs : id = f.id /\ a = f.orig
  BY <1>1
<1>2. PICK s, e, b, l :
         /\ id = f.id /\ a = f.orig /\ s = f.seqno /\ e = orig_hash[n][a] /\ b = e.bits /\ l = e.last
  BY <1>a
<1>3. e # NULL /\ 0 \in get_bit_status(b, l, s)
  BY <1>2 DEF FloodBcast
<1>4. PICK r, last :
         /\ r \in bit_get_packet(b, Int16(s - l), TRUE)
         /\ last = IF r.new = 1 THEN s ELSE l
         /\ orig_hash' = [orig_hash EXCEPT ![n][a] = [bits |-> r.bits, last |-> last]]
  BY <1>2 DEF FloodBcast
<1>5. /\ Len(msgs) \in Nat /\ Len(msgs) < W
      /\ \A m \in Sent("bcast") : msgs[m].seqno \in 1..(W - 1)
      /\ b \in SUBSET Offsets /\ l \in 0..(W - 1) /\ s \in 1..(W - 1)
  BY <1>1, <1>2, <1>3, SmallNumbers DEF FloodInv
<1>6. /\ ~ (s <= l /\ l - s \in b)
      /\ last \in {s, l}
      /\ s <= last /\ last - s \in r.bits
      /\ \A q \in 1..(W - 1) : q <= l /\ l - q \in b => q <= last /\ last - q \in r.bits
  <2>1. b \in SUBSET Offsets /\ l \in 0..(W - 1) /\ s \in 1..(W - 1) /\ 0 \in get_bit_status(b, l, s)
    BY <1>3, <1>5
  <2>2. r \in bit_get_packet(b, Int16(s - l), TRUE) /\ last = IF r.new = 1 THEN s ELSE l
    BY <1>4
  <2> QED
    <3>1. Entered(b, l, s, r.bits, last)
      BY <2>1, <2>2, FloodedWindow
    <3> QED
      BY <3>1 DEF Entered
<1>7. PICK w : w = [bits |-> r.bits, last |-> last]
  OBVIOUS
<1>8. w.bits = r.bits /\ w.last = last
  BY <1>7
<1>9. w # NULL
  <2>1. r.bits \subseteq Offsets
    <3>1. Int16(s - l) \in Int
      BY <1>5, WindowAssumption DEF Int16
    <3> QED
      BY <1>4, <1>5, <3>1, GetPacketTyped
  <2>2. last \in SeqNos
    BY <1>5, <1>6, WindowAssumption DEF SeqNos
  <2>3. w \in History
    BY <1>7, <2>1, <2>2 DEF History
  <2> QED
    BY <2>3, LinkAssumption
<1>10. /\ orig_hash'[n][a] = w
       /\ \A k \in Nodes, c \in Addrs : k # n \/ c # a => orig_hash'[k][c] = orig_hash[k][c]
  <2>1. orig_hash' = [orig_hash EXCEPT ![n][a] = w]
    BY <1>4, <1>7
  <2> QED
    BY <2>1 DEF Inv, TypeOK
<1>11. /\ tap'[n][id] = tap[n][id] + 1
       /\ \A k \in Nodes, j \in Ids : k # n \/ j # id => tap'[k][j] = tap[k][j]
  <2>1. tap' = [tap EXCEPT ![n][id] = @ + 1]
    BY <1>2 DEF FloodBcast
  <2>2. TypeOK
    BY DEF Inv
  <2> QED
    BY <2>1, <2>2, TapOneMore, ZenonT(40)
<1>12. UNCHANGED <<msgs, bcast_seqno>>
  BY DEF FloodBcast
<1>13. OwnUnknown'
  BY <1>2, <1>3, <1>10 DEF FloodInv, OwnUnknown
<1>14. Numbers'
  <2>1. s <= Len(msgs) /\ l <= Len(msgs)
    BY <1>1, <1>2, <1>3 DEF FloodInv, Numbers
  <2>2. last <= Len(msgs)
    BY <1>6, <2>1
  <2>3. \A k \in Nodes, c \in Addrs : orig_hash'[k][c] # NULL => orig_hash'[k][c].last <= Len(msgs)
    BY <1>8, <1>10, <2>2 DEF FloodInv, Numbers
  <2> QED
    BY <1>12, <2>3 DEF FloodInv, Numbers, Sent
<1>15. Marked'
  <2> SUFFICES ASSUME NEW k \in Nodes, NEW m \in Sent("bcast"), tap'[k][m] > 0
               PROVE  /\ tap'[k][m] = 1
                      /\ orig_hash'[k][Primary(msgs[m].from)] # NULL
                      /\ Seen(orig_hash'[k][Primary(msgs[m].from)], msgs[m].seqno)
    BY <1>12 DEF Marked, Sent
  <2>1. m \in Ids /\ Primary(msgs[m].from) \in Addrs
    BY MsgsDomain, PrimaryIsMine DEF Inv, Bounded, Sent, Message
  <2>2. CASE k = n /\ m = id
    <3>1. ~ tap[n][id] > 0
      BY <1>1, <1>2, <1>6 DEF FloodInv, Marked, Seen
    <3>2. tap[n][id] \in Nat
      BY DEF Inv, TypeOK
    <3>3. tap'[k][m] = 1
      BY <1>11, <2>2, <3>1, <3>2
    <3>4. orig_hash'[k][Primary(msgs[m].from)] = w /\ msgs[m].seqno = s
      BY <1>1, <1>2, <1>10, <2>2
    <3>5. Seen(w, s)
      BY <1>6, <1>8 DEF Seen
    <3> QED
      BY <1>9, <3>3, <3>4, <3>5
  <2>3. CASE ~ (k = n /\ m = id)
    <3>1. tap'[k][m] = tap[k][m]
      BY <1>11, <2>1, <2>3
    <3>2. /\ tap[k][m] = 1
          /\ orig_hash[k][Primary(msgs[m].from)] # NULL
          /\ Seen(orig_hash[k][Primary(msgs[m].from)], msgs[m].seqno)
      BY <3>1 DEF FloodInv, Marked
    <3>3. CASE k = n /\ Primary(msgs[m].from) = a
      <4>1. PICK q \in 1..(W - 1) : q = msgs[m].seqno
        BY <1>5
      <4>2. q <= l /\ l - q \in b
        BY <1>2, <3>2, <3>3, <4>1 DEF Seen
      <4>3. q <= last /\ last - q \in r.bits
        BY <1>6, <4>2
      <4>4. Seen(w, q)
        BY <1>8, <4>3 DEF Seen
      <4> QED
        BY <1>9, <1>10, <3>1, <3>2, <3>3, <4>1, <4>4
    <3>4. CASE ~ (k = n /\ Primary(msgs[m].from) = a)
      <4>1. orig_hash'[k][Primary(msgs[m].from)] = orig_hash[k][Primary(msgs[m].from)]
        BY <1>10, <2>1, <3>4
      <4> QED
        BY <3>1, <3>2, <4>1
    <3> QED
      BY <3>3, <3>4
  <2> QED
    BY <2>2, <2>3
<1> QED
  BY <1>13, <1>14, <1>15 DEF FloodInv

\* What every sent broadcast has.
LEMMA BroadcastFrom ==
    ASSUME Inv, NEW m \in Sent("bcast")
    PROVE  /\ m \in Ids /\ msgs[m].from \in Nodes
           /\ Primary(msgs[m].from) \in Addrs /\ is_my_mac(msgs[m].from, Primary(msgs[m].from))
<1>1. m \in Ids /\ msgs[m] \in Message
  BY MsgsDomain DEF Inv, Bounded, Sent
<1>2. msgs[m].from \in Nodes
  BY <1>1 DEF Message
<1> QED
  BY <1>1, <1>2, PrimaryIsMine

\* A message is sent: what was known of the others stays.
LEMMA SendMarks ==
    ASSUME Inv, FloodInv, Extends, NEW id \in Ids, id \notin DOMAIN msgs, DOMAIN msgs' = DOMAIN msgs \cup {id},
           Len(msgs') = Len(msgs) + 1, UNCHANGED <<orig_hash, tap>>,
           \A n \in Nodes : 1 <= bcast_seqno'[n] /\ bcast_seqno'[n] <= Len(msgs) + 2,
           msgs'[id].kind = "bcast" => 1 <= msgs'[id].seqno /\ msgs'[id].seqno <= Len(msgs) + 1
    PROVE  FloodInv'
<1>1. OwnUnknown'
  BY DEF FloodInv, OwnUnknown
<1>2. Len(msgs) \in Nat
  BY MsgsDomain DEF Inv
<1>3. \A m \in Sent("bcast")' : m = id \/ (m \in Sent("bcast") /\ msgs'[m] = msgs[m])
  BY DEF Sent, Extends
<1>4. Numbers'
  <2>1. \A m \in Sent("bcast")' : 1 <= msgs'[m].seqno /\ msgs'[m].seqno <= Len(msgs')
    <3> SUFFICES ASSUME NEW m \in Sent("bcast")'
                 PROVE  1 <= msgs'[m].seqno /\ msgs'[m].seqno <= Len(msgs')
      OBVIOUS
    <3>1. CASE m = id
      BY <3>1 DEF Sent
    <3>2. CASE m \in Sent("bcast") /\ msgs'[m] = msgs[m]
      <4>1. msgs[m].seqno \in SeqNos
        BY <3>2, MsgsDomain DEF Inv, Sent, Message
      <4> QED
        BY <1>2, <3>2, <4>1, WindowAssumption DEF FloodInv, Numbers, SeqNos
    <3> QED
      BY <1>3, <3>1, <3>2
  <2>2. ASSUME NEW n \in Nodes, NEW a \in Addrs, orig_hash[n][a] # NULL
        PROVE  orig_hash[n][a].last <= Len(msgs')
    <3>1. orig_hash[n][a].last \in SeqNos
      BY <2>2 DEF Inv, TypeOK, History
    <3> QED
      BY <1>2, <2>2, <3>1, WindowAssumption DEF FloodInv, Numbers, SeqNos
  <2>3. \A n \in Nodes : 1 <= bcast_seqno'[n] /\ bcast_seqno'[n] <= Len(msgs') + 1
    BY <1>2
  <2> QED
    BY <2>1, <2>2, <2>3 DEF Numbers
<1>5. Marked'
  <2>1. \A n \in Nodes : tap[n][id] = 0
    BY DEF Inv, Pending
  <2> QED
    BY <1>3, <2>1 DEF FloodInv, Marked
<1> QED
  BY <1>1, <1>4, <1>5 DEF FloodInv

LEMMA TapBroadcastMarks ==
    ASSUME Inv, FloodInv, FewEvents, NEW n \in Nodes, TapBroadcast(n)
    PROVE  FloodInv'
<1> USE WindowAssumption, MeshAssumption
<1>1. Log("bcast", n, NULL, 0) /\ UNCHANGED <<orig_hash, tap>>
  BY DEF TapBroadcast
<1>2. /\ Extends /\ DOMAIN msgs' = DOMAIN msgs \cup {NextId} /\ NextId \in Ids /\ NextId \notin DOMAIN msgs
      /\ Len(msgs') = Len(msgs) + 1 /\ Len(msgs') + purges <= MaxEvents
      /\ msgs'[NextId] = [kind |-> "bcast", from |-> n, dst |-> NULL, ttl |-> 0,
                          seqno |-> IF "bcast" = "bcast" THEN bcast_seqno[n] ELSE 0]
  <2>1. "bcast" \in Kinds /\ 0 \in 0..MaxTtl /\ NULL \in Addrs \cup {NULL}
    BY DEF Kinds
  <2> QED
    BY <1>1, <2>1, LogExtends
<1>3. Len(msgs) \in Nat /\ purges \in Nat /\ \A k \in Nodes : bcast_seqno[k] \in Nat
  BY MsgsDomain DEF Inv, TypeOK, SeqNos
<1>4. /\ \A k \in Nodes : 1 <= bcast_seqno[k] /\ bcast_seqno[k] <= Len(msgs) + 1
  BY DEF FloodInv, Numbers
<1>5. bcast_seqno[n] + 1 < SeqSpace
  BY <1>2, <1>3, <1>4 DEF FewEvents
<1>6. bcast_seqno' = [bcast_seqno EXCEPT ![n] = bcast_seqno[n] + 1]
  <2>1. (bcast_seqno[n] + 1) % SeqSpace = bcast_seqno[n] + 1
    <3>1. PICK v \in Nat, m \in Nat : v = bcast_seqno[n] + 1 /\ m = SeqSpace /\ v < m
      BY <1>3, <1>5
    <3>2. v % m = v
      BY <3>1, SMTT(30)
    <3> QED
      BY <3>1, <3>2
  <2> QED
    BY <2>1 DEF TapBroadcast
<1>7. \A k \in Nodes : 1 <= bcast_seqno'[k] /\ bcast_seqno'[k] <= Len(msgs) + 2
  BY <1>3, <1>4, <1>6 DEF Inv, TypeOK
<1>8. 1 <= msgs'[NextId].seqno /\ msgs'[NextId].seqno <= Len(msgs) + 1
  BY <1>2, <1>4
<1>9. PICK id : id = NextId
  OBVIOUS
<1> QED
  BY <1>1, <1>2, <1>7, <1>8, <1>9, SendMarks

LEMMA OtherSendMarks ==
    ASSUME Inv, FloodInv, NEW n \in Nodes, NEW kind \in {"unicast", "icmp"}, NEW a \in Addrs,
           NEW ttl \in 0..MaxTtl, Log(kind, n, a, ttl), UNCHANGED <<orig_hash, tap, bcast_seqno>>
    PROVE  FloodInv'
<1>1. /\ Extends /\ DOMAIN msgs' = DOMAIN msgs \cup {NextId} /\ NextId \in Ids /\ NextId \notin DOMAIN msgs
      /\ Len(msgs') = Len(msgs) + 1
      /\ msgs'[NextId] = [kind |-> kind, from |-> n, dst |-> a, ttl |-> ttl,
                          seqno |-> IF kind = "bcast" THEN bcast_seqno[n] ELSE 0]
  <2>1. kind \in Kinds /\ a \in Addrs \cup {NULL}
    BY DEF Kinds
  <2> QED
    BY <2>1, LogExtends
<1>2. Len(msgs) \in Nat /\ \A k \in Nodes : bcast_seqno[k] \in Nat
  BY MsgsDomain DEF Inv, TypeOK, SeqNos
<1>3. \A k \in Nodes : 1 <= bcast_seqno'[k] /\ bcast_seqno'[k] <= Len(msgs) + 2
  BY <1>2 DEF FloodInv, Numbers
<1>4. msgs'[NextId].kind # "bcast"
  BY <1>1
<1>5. PICK id : id = NextId
  OBVIOUS
<1> QED
  BY <1>1, <1>3, <1>4, <1>5, SendMarks

\* A node that forgets broadcasts does not count them as delivered.
LEMMA ForgetTap ==
    ASSUME Inv, NEW n \in Nodes, NEW F \in SUBSET Sent("bcast"), Forget(n, F)
    PROVE  /\ UNCHANGED msgs
           /\ \A m \in F : tap'[n][m] = 0
           /\ \A k \in Nodes, m \in Ids : k # n \/ m \notin F => tap'[k][m] = tap[k][m]
<1>1. F \subseteq Ids
  BY DEF Inv, Bounded, Sent
<1>2. tap' = [tap EXCEPT ![n] = [m \in Ids |-> IF m \in F THEN 0 ELSE tap[n][m]]]
  BY DEF Forget
<1>3. PICK t : t = [m \in Ids |-> IF m \in F THEN 0 ELSE tap[n][m]]
  OBVIOUS
<1>4. \A m \in Ids : t[m] = IF m \in F THEN 0 ELSE tap[n][m]
  BY <1>3
<1>5. tap' = [tap EXCEPT ![n] = t]
  BY <1>2, <1>3
<1>6. tap'[n] = t /\ \A k \in Nodes : k # n => tap'[k] = tap[k]
  BY <1>5 DEF Inv, TypeOK
<1> QED
  BY <1>1, <1>4, <1>6 DEF Forget

LEMMA purge_origMarks ==
    ASSUME Inv, FloodInv, NEW n \in Nodes, NEW a \in Addrs, purge_orig(n, a)
    PROVE  FloodInv'
<1>1. PICK F \in SUBSET Sent("bcast") : F = {m \in Sent("bcast") : is_my_mac(msgs[m].from, a)}
  OBVIOUS
<1>2. /\ UNCHANGED msgs
      /\ \A m \in F : tap'[n][m] = 0
      /\ \A k \in Nodes, m \in Ids : k # n \/ m \notin F => tap'[k][m] = tap[k][m]
  <2>1. Forget(n, F)
    BY <1>1 DEF purge_orig
  <2> QED
    BY <2>1, ForgetTap
<1>3. /\ orig_hash'[n][a] = NULL
      /\ \A k \in Nodes, c \in Addrs : k # n \/ c # a => orig_hash'[k][c] = orig_hash[k][c]
  BY DEF purge_orig, Inv, TypeOK
<1>4. UNCHANGED bcast_seqno
  BY DEF purge_orig
<1>5. OwnUnknown'
  BY <1>3 DEF FloodInv, OwnUnknown
<1>6. Numbers'
  BY <1>2, <1>3, <1>4 DEF FloodInv, Numbers, Sent
<1>7. Marked'
  <2> SUFFICES ASSUME NEW k \in Nodes, NEW m \in Sent("bcast"), tap'[k][m] > 0
               PROVE  /\ tap'[k][m] = 1
                      /\ orig_hash'[k][Primary(msgs[m].from)] # NULL
                      /\ Seen(orig_hash'[k][Primary(msgs[m].from)], msgs[m].seqno)
    BY <1>2 DEF Marked, Sent
  <2>1. /\ m \in Ids /\ Primary(msgs[m].from) \in Addrs
        /\ is_my_mac(msgs[m].from, Primary(msgs[m].from))
    BY BroadcastFrom
  <2>2. k # n \/ m \notin F
    BY <1>2
  <2>3. k # n \/ Primary(msgs[m].from) # a
    BY <1>1, <2>1, <2>2
  <2> QED
    BY <1>2, <1>3, <2>1, <2>2, <2>3 DEF FloodInv, Marked
<1> QED
  BY <1>5, <1>6, <1>7 DEF FloodInv

LEMMA RestartMarks ==
    ASSUME Inv, FloodInv, NEW n \in Nodes, Restart(n)
    PROVE  FloodInv'
<1>1. PICK F \in SUBSET Sent("bcast") : F = Sent("bcast")
  OBVIOUS
<1>2. /\ UNCHANGED msgs
      /\ \A m \in F : tap'[n][m] = 0
      /\ \A k \in Nodes, m \in Ids : k # n \/ m \notin F => tap'[k][m] = tap[k][m]
  <2>1. Forget(n, F)
    BY <1>1 DEF Restart
  <2> QED
    BY <2>1, ForgetTap
<1>3. /\ \A c \in Addrs : orig_hash'[n][c] = NULL
      /\ \A k \in Nodes : k # n => orig_hash'[k] = orig_hash[k]
  BY DEF Restart, Inv, TypeOK
<1>4. bcast_seqno'[n] = 1 /\ \A k \in Nodes : k # n => bcast_seqno'[k] = bcast_seqno[k]
  BY DEF Restart, Inv, TypeOK
<1>5. OwnUnknown'
  BY <1>3 DEF FloodInv, OwnUnknown
<1>6. Numbers'
  <2>1. Len(msgs) \in Nat
    BY MsgsDomain DEF Inv
  <2>2. \A k \in Nodes : 1 <= bcast_seqno'[k] /\ bcast_seqno'[k] <= Len(msgs) + 1
    BY <1>4, <2>1 DEF FloodInv, Numbers
  <2>3. \A k \in Nodes, c \in Addrs : orig_hash'[k][c] # NULL => orig_hash'[k][c].last <= Len(msgs)
    BY <1>3 DEF FloodInv, Numbers
  <2> QED
    BY <1>2, <2>2, <2>3 DEF FloodInv, Numbers, Sent
<1>7. Marked'
  <2> SUFFICES ASSUME NEW k \in Nodes, NEW m \in Sent("bcast"), tap'[k][m] > 0
               PROVE  /\ tap'[k][m] = 1
                      /\ orig_hash'[k][Primary(msgs[m].from)] # NULL
                      /\ Seen(orig_hash'[k][Primary(msgs[m].from)], msgs[m].seqno)
    BY <1>2 DEF Marked, Sent
  <2>1. m \in Ids
    BY BroadcastFrom
  <2>2. k # n
    BY <1>1, <1>2
  <2> QED
    BY <1>2, <1>3, <2>1, <2>2 DEF FloodInv, Marked
<1> QED
  BY <1>5, <1>6, <1>7 DEF FloodInv

LEMMA get_orig_nodeMarks ==
    ASSUME Inv, FloodInv, NEW n \in Nodes, NEW a \in Addrs, get_orig_node(n, a)
    PROVE  FloodInv'
<1>1. /\ orig_hash'[n][a] = NewEntry
      /\ \A k \in Nodes, c \in Addrs : k # n \/ c # a => orig_hash'[k][c] = orig_hash[k][c]
  BY DEF get_orig_node, Inv, TypeOK
<1>2. UNCHANGED <<bcast_seqno, msgs, tap>>
  BY DEF get_orig_node, ghosts
<1>3. OwnUnknown'
  BY <1>1 DEF get_orig_node, FloodInv, OwnUnknown
<1>4. Numbers'
  <2>1. Len(msgs) \in Nat /\ NewEntry.last = 0
    BY MsgsDomain DEF Inv, NewEntry
  <2>2. \A k \in Nodes, c \in Addrs : orig_hash'[k][c] # NULL => orig_hash'[k][c].last <= Len(msgs)
    BY <1>1, <2>1 DEF FloodInv, Numbers
  <2> QED
    BY <1>2, <2>2 DEF FloodInv, Numbers, Sent
<1>5. Marked'
  <2> SUFFICES ASSUME NEW k \in Nodes, NEW m \in Sent("bcast"), tap[k][m] > 0
               PROVE  /\ tap[k][m] = 1
                      /\ orig_hash'[k][Primary(msgs[m].from)] # NULL
                      /\ Seen(orig_hash'[k][Primary(msgs[m].from)], msgs[m].seqno)
    BY <1>2 DEF Marked, Sent
  <2>1. Primary(msgs[m].from) \in Addrs
    BY BroadcastFrom
  <2>2. k # n \/ Primary(msgs[m].from) # a
    BY DEF get_orig_node, FloodInv, Marked
  <2> QED
    BY <1>1, <2>1, <2>2 DEF FloodInv, Marked
<1> QED
  BY <1>3, <1>4, <1>5 DEF FloodInv

LEMMA ReceiveMarks ==
    ASSUME Inv, FloodInv, FewEvents, NEW n \in Nodes, NEW f \in air, receive_packet_batiface(n, f)
    PROVE  FloodInv'
<1>1. CASE f.kind = "unicast" /\ ReceiveUnicast(n, f)
  <2>1. UNCHANGED <<orig_hash, bcast_seqno, msgs>>
    BY <1>1 DEF ReceiveUnicast
  <2>2. f.id \in Ids /\ f.id \notin Sent("bcast")
    BY <1>1, GoodType DEF Inv, Sent
  <2>3. \A k \in Nodes, m \in Ids : m # f.id => tap'[k][m] = tap[k][m]
    <3>1. CASE is_my_mac(n, f.dest)
      <4>1. tap' = [tap EXCEPT ![n][f.id] = @ + 1]
        BY <1>1, <3>1 DEF ReceiveUnicast
      <4> QED
        BY <2>2, <4>1 DEF Inv, TypeOK
    <3>2. CASE ~ is_my_mac(n, f.dest)
      BY <1>1, <3>2 DEF ReceiveUnicast
    <3> QED
      BY <3>1, <3>2
  <2>4. \A k \in Nodes, m \in Sent("bcast") : tap'[k][m] = tap[k][m]
    BY <2>2, <2>3, BroadcastFrom
  <2> QED
    BY <2>1, <2>4, QuietFlood
<1>2. CASE f.kind = "icmp" /\ ReceiveIcmp(n, f)
  BY <1>2, QuietFlood DEF ReceiveIcmp
<1>3. CASE IgnoreBcast(n, f)
  BY <1>3, QuietFlood DEF IgnoreBcast
<1>4. CASE f.kind = "bcast" /\ FloodBcast(n, f)
  BY <1>4, FloodBcastMarks
<1> QED
  BY <1>1, <1>2, <1>3, <1>4 DEF receive_packet_batiface

LEMMA InitMarked ==
    ASSUME Init
    PROVE  FloodInv
<1>1. Len(msgs) = 0 /\ DOMAIN msgs = {} /\ Sent("bcast") = {}
  BY DEF Init, Sent
<1>2. OwnUnknown
  BY DEF Init, OwnUnknown
<1>3. \A n \in Nodes, a \in Addrs : orig_hash[n][a] # NULL => orig_hash[n][a] = NewEntry
  BY DEF Init
<1>4. NewEntry.last = 0
  BY DEF NewEntry
<1>5. Numbers
  BY <1>1, <1>3, <1>4 DEF Init, Numbers
<1>6. Marked
  BY <1>1 DEF Marked
<1> QED
  BY <1>2, <1>5, <1>6 DEF FloodInv

LEMMA NextMarked ==
    ASSUME Inv, FloodInv, FewEvents, [Next]_vars
    PROVE  FloodInv'
<1>1. ASSUME NEW f, Vanish(f)
      PROVE  FloodInv'
  BY <1>1, QuietFlood DEF Vanish
<1>2. CASE Arrive
  <2>1. PICK f \in air :
           IF NodeOf(f.at) \in up THEN receive_packet_batiface(NodeOf(f.at), f) ELSE Vanish(f)
    BY <1>2 DEF Arrive
  <2>2. CASE NodeOf(f.at) \in up
    <3>1. NodeOf(f.at) \in Nodes
      BY <2>2 DEF Inv, TypeOK
    <3> QED
      BY <2>1, <2>2, <3>1, ReceiveMarks
  <2> QED
    BY <1>1, <2>1, <2>2
<1>3. CASE \E f \in air : Vanish(f)
  BY <1>1, <1>3
<1>4. ASSUME NEW n \in Nodes, Send(n)
      PROVE  FloodInv'
  <2>1. CASE TapBroadcast(n)
    BY <2>1, TapBroadcastMarks
  <2>2. ASSUME NEW a \in Addrs, TapUnicast(n, a)
        PROVE  FloodInv'
    <3>1. TTL \in 0..MaxTtl
      BY MeshAssumption
    <3> QED
      BY <2>2, <3>1, OtherSendMarks DEF TapUnicast
  <2>3. ASSUME NEW a \in Addrs, NEW ttl \in 0..MaxTtl, handle_packet(n, a, ttl)
        PROVE  FloodInv'
    BY <2>3, OtherSendMarks DEF handle_packet
  <2> QED
    BY <1>4, <2>1, <2>2, <2>3 DEF Send
<1>5. CASE \E n \in Restarting : Restart(n)
  BY <1>5, RestartMarks, MeshAssumption
<1>6. CASE \E n \in Nodes, a \in Addrs : purge_orig(n, a) \/ get_orig_node(n, a)
  BY <1>6, purge_origMarks, get_orig_nodeMarks
<1>7. CASE UNCHANGED vars
  BY <1>7, QuietFlood DEF vars, ghosts
<1> QED
  BY <1>2, <1>3, <1>4, <1>5, <1>6, <1>7 DEF Next

\* A broadcast is delivered once at every node and never at its sender, and
\* a unicast once and only at its destination: in any mesh, over any routes,
\* with frames lost and reordered, originators purged and nodes restarted.
\* A node that gets a copy of a broadcast after a whole window of later
\* ones has forgotten it, so there have to be fewer events than that.
THEOREM DeliveredAtMostOnce ==
    ASSUME FewEvents
    PROVE  Spec => []DeliveredOnce
<1>1. Inv /\ FloodInv => DeliveredOnce
  <2> SUFFICES ASSUME Inv, FloodInv, NEW n \in Nodes
               PROVE  /\ \A m \in Sent("bcast") : tap[n][m] <= (IF n = msgs[m].from THEN 0 ELSE 1)
                      /\ \A m \in Sent("unicast") :
                            tap[n][m] <= (IF is_my_mac(n, msgs[m].dst) THEN 1 ELSE 0)
    BY DEF DeliveredOnce
  <2>1. ASSUME NEW m \in Sent("bcast")
        PROVE  tap[n][m] <= (IF n = msgs[m].from THEN 0 ELSE 1)
    <3>1. /\ m \in Ids /\ Primary(msgs[m].from) \in Addrs
          /\ is_my_mac(msgs[m].from, Primary(msgs[m].from))
      BY BroadcastFrom
    <3>2. tap[n][m] \in Nat
      BY <3>1 DEF Inv, TypeOK
    <3>3. n = msgs[m].from => ~ tap[n][m] > 0
      BY <3>1 DEF FloodInv, Marked, OwnUnknown
    <3>4. tap[n][m] > 0 => tap[n][m] = 1
      BY DEF FloodInv, Marked
    <3> QED
      BY <3>2, <3>3, <3>4
  <2>2. \A m \in Sent("unicast") : tap[n][m] <= (IF is_my_mac(n, msgs[m].dst) THEN 1 ELSE 0)
    BY DEF Inv, UnicastOnce
  <2> QED
    BY <2>1, <2>2
<1>2. Init => Inv /\ FloodInv
  BY InitInv, InitMarked
<1>3. Inv /\ FloodInv /\ [Next]_vars => (Inv /\ FloodInv)'
  BY NextInv, NextMarked
<1> QED
  BY <1>1, <1>2, <1>3, PTL DEF Spec
=============================================================================
