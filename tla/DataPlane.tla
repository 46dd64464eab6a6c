----------------------------- MODULE DataPlane -----------------------------
(***************************************************************************)
(* Payload in a mesh: receive_packet_tap and receive_packet_batiface of    *)
(* several nodes, and handle_packet for their echo clients, exchanging     *)
(* unicast, broadcast and icmp packets over a network that may lose and    *)
(* reorder frames.                                                         *)
(*                                                                         *)
(* Who the router towards an address is, is the subject of Originator and  *)
(* changes with every originator message.  Here each lookup may find any   *)
(* neighbour, or none, so that the properties hold whatever routes the     *)
(* protocol has chosen, loops included.  The broadcast numbers a node has  *)
(* seen are kept in the sliding window of each entry, as in FloodHistory.  *)
(***************************************************************************)
EXTENDS SlidingWindow, SequencesExt

CONSTANTS
    Nodes,
    if_list,    \* per node: the addresses of its interfaces, the primary one first
    Links,      \* pairs of addresses: frames sent from the one reach the other
    TTL,        \* 50 in the code
    MaxTtl,     \* 255, the largest value of a ttl
    Traffic,    \* bound: who sends which kind of packet, in order
    MaxEvents,  \* bound: packets sent, originators purged and restarts
    Restarting, \* bound: nodes that may be started again
    NULL

Kinds == {"unicast", "icmp", "bcast"}

ASSUME MeshAssumption ==
    /\ \A n \in Nodes :
          /\ if_list[n] \in Seq(ToSet(if_list[n]))
          /\ if_list[n] # <<>> /\ IsInjective(if_list[n])
    /\ \A m, n \in Nodes : m # n => ToSet(if_list[m]) \cap ToSet(if_list[n]) = {}
    /\ MaxTtl \in Nat /\ TTL \in 1..MaxTtl
    /\ Traffic \subseteq Seq(Kinds \X Nodes) /\ IsFiniteSet(Traffic)
    /\ MaxEvents \in Nat /\ Restarting \subseteq Nodes

VARIABLES
    up,           \* nodes whose daemon runs
    air,          \* frames under way
    orig_hash,    \* per node and address: the flood history of the entry, or NULL
    bcast_seqno,  \* batman_if->bcast_seqno of the primary interface
    msgs,         \* ghost: what hosts and clients have sent
    tap,          \* ghost: how often a message was written to a node's tap device
    answers,      \* ghost: what clients were told about their echo requests
    lost,         \* ghost: broadcasts of which a frame did not do its work
    purges        \* number of purged originators and restarts

ghosts == <<msgs, tap, answers, lost, purges>>
vars == <<up, air, orig_hash, bcast_seqno, ghosts>>

Addrs == UNION {ToSet(if_list[n]) : n \in Nodes}

is_my_mac(n, a) == a \in ToSet(if_list[n])

NodeOf(a) == CHOOSE n \in Nodes : is_my_mac(n, a)

Primary(n) == if_list[n][1]

Ids == UNION {DOMAIN t : t \in Traffic}

\* ECHO_REQUEST, ECHO_REPLY, TTL_EXCEEDED, DESTINATION_UNREACHABLE
MsgTypes == {"request", "reply", "exceeded", "unreachable"}

\* "at" is the interface a frame arrives on, which is the destination of its
\* ethernet header unless that is the broadcast address.  "id" and "hops",
\* the number of times the packet, or the request it answers, was sent,
\* are ghosts.
UnicastFrame == [kind : {"unicast"}, at : Addrs, id : Ids, dest : Addrs, ttl : 1..TTL, hops : 1..TTL]
IcmpFrame == [kind : {"icmp"}, at : Addrs, id : Ids, msg_type : MsgTypes, dst : Addrs, orig : Addrs,
              ttl : 1..MaxTtl, hops : 1..MaxTtl]
BcastFrame == [kind : {"bcast"}, at : Addrs, id : Ids, shost : Addrs, orig : Addrs, seqno : SeqNos]

Message == [kind : Kinds, from : Nodes, dst : Addrs \cup {NULL}, ttl : 0..MaxTtl, seqno : SeqNos]

Answer == [node : Nodes, msg_type : MsgTypes, hops : 0..MaxTtl]

History == [bits : SUBSET Offsets, last : SeqNos]

NewEntry == [bits |-> {}, last |-> 0]

ASSUME LinkAssumption ==
    /\ Links \subseteq Addrs \X Addrs
    /\ NULL \notin Links \cup Addrs
    /\ NULL \notin History

TypeOK ==
    /\ up \subseteq Nodes
    /\ air \subseteq UnicastFrame \cup IcmpFrame \cup BcastFrame
    /\ orig_hash \in [Nodes -> [Addrs -> History \cup {NULL}]]
    /\ bcast_seqno \in [Nodes -> SeqNos]
    /\ msgs \in Seq(Message)
    /\ tap \in [Nodes -> [Ids -> Nat]]
    /\ answers \in [Ids -> Seq(Answer)]
    /\ lost \subseteq Ids
    /\ purges \in 0..MaxEvents

\* A mesh in which all nodes have heard of each other.  A node never has an
\* entry for an address of its own: batman() drops such messages before.
Init ==
    /\ up = Nodes
    /\ air = {}
    /\ orig_hash = [n \in Nodes |-> [a \in Addrs |-> IF is_my_mac(n, a) THEN NULL ELSE NewEntry]]
    /\ bcast_seqno = [n \in Nodes |-> 1]
    /\ msgs = <<>>
    /\ tap = [n \in Nodes |-> [m \in Ids |-> 0]]
    /\ answers = [m \in Ids |-> <<>>]
    /\ lost = {}
    /\ purges = 0

-----------------------------------------------------------------------------
(* Sending *)

\* find_orig_node, and the interface and router of the entry: any neighbour.
Routes(n, a) ==
    IF orig_hash[n][a] = NULL THEN {NULL}
    ELSE {NULL} \cup {l \in Links : is_my_mac(n, l[1]) /\ ~ is_my_mac(n, l[2])}

\* Node n sends packet p, in place of frame f it has received, towards
\* address a.  Without a route it is dropped; if the socket fails, the error
\* ends the daemon.
SendTowards(n, f, a, p) ==
    \/ \E r \in Routes(n, a) :
          /\ air' = (air \ {f}) \cup (IF r = NULL THEN {} ELSE {[p EXCEPT !.at = r[2]]})
          /\ UNCHANGED up
    \/ /\ Routes(n, a) # {NULL}
       /\ air' = air \ {f}
       /\ up' = up \ {n}

\* The frames of broadcast p sent on the first k interfaces of node n.
Flooded(n, p, k) ==
    {[p EXCEPT !.at = l[2], !.shost = l[1]] : l \in {l \in Links : l[1] \in ToSet(SubSeq(if_list[n], 1, k))}}

\* Node n sends broadcast p on all its interfaces, in place of frame f.  If
\* one fails the rest is not tried, and the error ends the daemon.
SendEverywhere(n, f, p) ==
    \E k \in 0..Len(if_list[n]) :
        /\ air' = (air \ {f}) \cup Flooded(n, p, k)
        /\ up' = IF k = Len(if_list[n]) THEN up ELSE up \ {n}
        /\ lost' = IF k < Len(if_list[n]) THEN lost \cup {p.id} ELSE lost

NextId == Len(msgs) + 1

Sent(kind) == {m \in DOMAIN msgs : msgs[m].kind = kind}

Log(kind, n, dst, ttl) ==
    /\ Len(msgs) + purges < MaxEvents
    /\ \E t \in Traffic :
          /\ Len(msgs) < Len(t) /\ t[NextId] = <<kind, n>>
          /\ \A m \in DOMAIN msgs : t[m] = <<msgs[m].kind, msgs[m].from>>
    /\ msgs' = Append(msgs, [kind |-> kind, from |-> n, dst |-> dst, ttl |-> ttl,
                            seqno |-> IF kind = "bcast" THEN bcast_seqno[n] ELSE 0])

\* receive_packet_tap: a frame of a host for a destination that the
\* translation table finds behind originator a, or that is a itself.  (What
\* the frame does to the translation table is TapFrame of TransTable.)
TapUnicast(n, a) ==
    /\ n \in up
    /\ Log("unicast", n, a, TTL)
    /\ SendTowards(n, NULL, a,
          [kind |-> "unicast", at |-> a, id |-> NextId, dest |-> a, ttl |-> TTL, hops |-> 1])
    /\ UNCHANGED <<orig_hash, bcast_seqno, tap, answers, lost, purges>>

\* receive_packet_tap: a frame for the broadcast or a multicast address.
TapBroadcast(n) ==
    /\ n \in up
    /\ Log("bcast", n, NULL, 0)
    /\ SendEverywhere(n, NULL,
          [kind |-> "bcast", at |-> NULL, id |-> NextId, shost |-> NULL, orig |-> Primary(n),
           seqno |-> bcast_seqno[n]])
    /\ bcast_seqno' = [bcast_seqno EXCEPT ![n] = (@ + 1) % SeqSpace]
    /\ UNCHANGED <<orig_hash, tap, answers, purges>>

Tell(n, id, type, hops) ==
    answers' = [answers EXCEPT ![id] = Append(@, [node |-> n, msg_type |-> type, hops |-> hops])]

\* A client of node n asks for an echo from address a, with any ttl.  The
\* sender of the request is the interface it leaves by; a socket error is not
\* fatal.
handle_packet(n, a, ttl) ==
    /\ n \in up
    /\ Log("icmp", n, a, ttl)
    /\ \E r \in Routes(n, a) :
          IF r # NULL /\ ttl > 0
          THEN /\ air' \in {air, air \cup {[kind |-> "icmp", at |-> r[2], id |-> NextId,
                                            msg_type |-> "request", dst |-> a, orig |-> r[1],
                                            ttl |-> ttl, hops |-> 1]}}
               /\ UNCHANGED answers
          ELSE Tell(n, NextId, "unreachable", 0) /\ UNCHANGED air
    /\ UNCHANGED <<up, orig_hash, bcast_seqno, tap, lost, purges>>

-----------------------------------------------------------------------------
(* receive_packet_batiface *)

\* Mutant of ReceiveUnicast: the ttl is tested and not decremented.
ReceiveUnicast_ttl_kept(n, f) ==
    /\ IF is_my_mac(n, f.dest)
       THEN tap' = [tap EXCEPT ![n][f.id] = @ + 1] /\ air' = air \ {f} /\ UNCHANGED up
       ELSE /\ UNCHANGED tap
            /\ IF f.ttl < 2
               THEN air' = air \ {f} /\ UNCHANGED up
               ELSE SendTowards(n, f, f.dest, f)
    /\ UNCHANGED <<orig_hash, bcast_seqno, msgs, answers, lost, purges>>

ReceiveUnicast(n, f) ==
    /\ IF is_my_mac(n, f.dest)
       THEN tap' = [tap EXCEPT ![n][f.id] = @ + 1] /\ air' = air \ {f} /\ UNCHANGED up
       ELSE /\ UNCHANGED tap
            /\ IF f.ttl < 2
               THEN air' = air \ {f} /\ UNCHANGED up
               ELSE SendTowards(n, f, f.dest, [f EXCEPT !.ttl = @ - 1, !.hops = @ + 1])
    /\ UNCHANGED <<orig_hash, bcast_seqno, msgs, answers, lost, purges>>

\* What a request becomes on its way back: the address it came in on is the
\* sender.
Reply(f, type) == [f EXCEPT !.dst = f.orig, !.orig = f.at, !.msg_type = type, !.ttl = TTL]

\* An answer is given to the client with the packet's uid, if there is one.
IcmpForMe(n, f) ==
    IF f.msg_type = "request"
    THEN SendTowards(n, f, f.orig, Reply(f, "reply")) /\ UNCHANGED answers
    ELSE /\ Tell(n, f.id, f.msg_type, f.hops) \/ UNCHANGED answers
         /\ air' = air \ {f}
         /\ UNCHANGED up

\* Mutants of RouteIcmp: answers whose ttl is used up are answered, too; the
\* ttl is tested one hop too late.
RouteIcmp_answers_answers(n, f) ==
    IF f.ttl < 2
    THEN SendTowards(n, f, f.orig, Reply(f, "exceeded"))
    ELSE SendTowards(n, f, f.dst,
            [f EXCEPT !.ttl = @ - 1, !.hops = IF f.msg_type = "request" THEN @ + 1 ELSE @])

RouteIcmp_late(n, f) ==
    IF f.ttl < 1
    THEN IF f.msg_type = "request"
         THEN SendTowards(n, f, f.orig, Reply(f, "exceeded"))
         ELSE air' = air \ {f} /\ UNCHANGED up
    ELSE SendTowards(n, f, f.dst,
            [f EXCEPT !.ttl = @ - 1, !.hops = IF f.msg_type = "request" THEN @ + 1 ELSE @])

\* Only requests are answered when their ttl is used up.
RouteIcmp(n, f) ==
    IF f.ttl < 2
    THEN IF f.msg_type = "request"
         THEN SendTowards(n, f, f.orig, Reply(f, "exceeded"))
         ELSE air' = air \ {f} /\ UNCHANGED up
    ELSE SendTowards(n, f, f.dst,
            [f EXCEPT !.ttl = @ - 1, !.hops = IF f.msg_type = "request" THEN @ + 1 ELSE @])

ReceiveIcmp(n, f) ==
    /\ IF is_my_mac(n, f.dst) THEN IcmpForMe(n, f) ELSE RouteIcmp(n, f) /\ UNCHANGED answers
    /\ UNCHANGED <<orig_hash, bcast_seqno, msgs, tap, lost, purges>>

\* A broadcast is ignored if this node sent it, does not know its originator
\* or has seen it.
IgnoreBcast(n, f) ==
    LET e == orig_hash[n][f.orig]
    IN  /\ \/ is_my_mac(n, f.shost)
           \/ e = NULL
           \/ e # NULL /\ 1 \in get_bit_status(e.bits, e.last, f.seqno)
        /\ air' = air \ {f}
        /\ lost' = IF e = NULL /\ ~ is_my_mac(n, f.orig) THEN lost \cup {f.id} ELSE lost
        /\ UNCHANGED <<up, orig_hash, bcast_seqno, msgs, tap, answers, purges>>

\* Mutants of FloodBcast: the number is not entered in the history; the
\* broadcast is not sent on.
FloodBcast_not_marked(n, f) ==
    LET e == orig_hash[n][f.orig]
    IN  /\ ~ is_my_mac(n, f.shost)
        /\ e # NULL
        /\ 0 \in get_bit_status(e.bits, e.last, f.seqno)
        /\ tap' = [tap EXCEPT ![n][f.id] = IF @ < 2 THEN @ + 1 ELSE @]
        /\ SendEverywhere(n, f, f)
        /\ UNCHANGED <<orig_hash, bcast_seqno, msgs, answers, purges>>

FloodBcast_not_sent_on(n, f) ==
    LET e == orig_hash[n][f.orig]
    IN  /\ ~ is_my_mac(n, f.shost)
        /\ e # NULL
        /\ 0 \in get_bit_status(e.bits, e.last, f.seqno)
        /\ \E r \in bit_get_packet(e.bits, Int16(f.seqno - e.last), TRUE) :
              orig_hash' = [orig_hash EXCEPT ![n][f.orig] =
                               [bits |-> r.bits, last |-> IF r.new = 1 THEN f.seqno ELSE e.last]]
        /\ tap' = [tap EXCEPT ![n][f.id] = @ + 1]
        /\ air' = air \ {f}
        /\ UNCHANGED <<up, bcast_seqno, msgs, answers, lost, purges>>

\* Any other one is marked, delivered and sent on.
FloodBcast(n, f) ==
    LET e == orig_hash[n][f.orig]
    IN  /\ ~ is_my_mac(n, f.shost)
        /\ e # NULL
        /\ 0 \in get_bit_status(e.bits, e.last, f.seqno)
        /\ \E r \in bit_get_packet(e.bits, Int16(f.seqno - e.last), TRUE) :
              orig_hash' = [orig_hash EXCEPT ![n][f.orig] =
                               [bits |-> r.bits, last |-> IF r.new = 1 THEN f.seqno ELSE e.last]]
        /\ tap' = [tap EXCEPT ![n][f.id] = @ + 1]
        /\ SendEverywhere(n, f, f)
        /\ UNCHANGED <<bcast_seqno, msgs, answers, purges>>

receive_packet_batiface(n, f) ==
    \/ f.kind = "unicast" /\ ReceiveUnicast(n, f)
    \/ f.kind = "icmp" /\ ReceiveIcmp(n, f)
    \/ f.kind = "bcast" /\ (IgnoreBcast(n, f) \/ FloodBcast(n, f))

-----------------------------------------------------------------------------
(* The network and the originator table *)

\* A frame is lost, or its receiver does not run.
Vanish(f) ==
    /\ air' = air \ {f}
    /\ lost' = lost \cup {f.id : k \in {f.kind} \cap {"bcast"}}
    /\ UNCHANGED <<up, orig_hash, bcast_seqno, msgs, tap, answers, purges>>

\* Node n forgets the broadcasts in forgotten: it may deliver them again.
Forget(n, forgotten) ==
    /\ Len(msgs) + purges < MaxEvents
    /\ tap' = [tap EXCEPT ![n] = [m \in Ids |-> IF m \in forgotten THEN 0 ELSE @[m]]]
    /\ lost' = lost \cup forgotten
    /\ purges' = purges + 1
    /\ UNCHANGED <<air, msgs, answers>>

\* purge_orig frees an entry with its flood history.
purge_orig(n, a) ==
    /\ n \in up
    /\ orig_hash[n][a] # NULL
    /\ orig_hash' = [orig_hash EXCEPT ![n][a] = NULL]
    /\ Forget(n, {m \in Sent("bcast") : is_my_mac(msgs[m].from, a)})
    /\ UNCHANGED <<up, bcast_seqno>>

\* The daemon of a node is started again, after an error or by its user: it
\* knows nobody and numbers its broadcasts from 1, while the others still have
\* the numbers it used before.
Restart(n) ==
    /\ up' = up \cup {n}
    /\ orig_hash' = [orig_hash EXCEPT ![n] = [a \in Addrs |-> NULL]]
    /\ bcast_seqno' = [bcast_seqno EXCEPT ![n] = 1]
    /\ Forget(n, Sent("bcast"))

\* An originator message of another node arrives.
get_orig_node(n, a) ==
    /\ n \in up
    /\ orig_hash[n][a] = NULL
    /\ ~ is_my_mac(n, a)
    /\ orig_hash' = [orig_hash EXCEPT ![n][a] = NewEntry]
    /\ UNCHANGED <<up, air, bcast_seqno, ghosts>>

\* A frame arrives at an interface whose daemon runs, or at a dead one.
Arrive ==
    \E f \in air :
        IF NodeOf(f.at) \in up THEN receive_packet_batiface(NodeOf(f.at), f) ELSE Vanish(f)

Send(n) ==
    \/ TapBroadcast(n)
    \/ \E a \in Addrs : TapUnicast(n, a) \/ \E ttl \in 0..MaxTtl : handle_packet(n, a, ttl)

Next ==
    \/ Arrive
    \/ \E f \in air : Vanish(f)
    \/ \E n \in Nodes : Send(n)
    \/ \E n \in Restarting : Restart(n)
    \/ \E n \in Nodes, a \in Addrs : purge_orig(n, a) \/ get_orig_node(n, a)

\* Frames that are under way arrive, unless they are lost.
Spec == Init /\ [][Next]_vars /\ WF_vars(Arrive)

-----------------------------------------------------------------------------
(* Properties *)

\* A broadcast is delivered once at every node, by however many paths and
\* interfaces it arrives, and never at the node that sent it, whose frames
\* come back from all its neighbours.  A unicast is delivered once, and only
\* at its destination.
DeliveredOnce ==
    \A n \in Nodes :
        /\ \A m \in Sent("bcast") : tap[n][m] <= (IF n = msgs[m].from THEN 0 ELSE 1)
        /\ \A m \in Sent("unicast") : tap[n][m] <= (IF is_my_mac(n, msgs[m].dst) THEN 1 ELSE 0)

\* An echo request is answered at most once, by whichever node on its way has
\* an answer, and only the node whose client asked is told.  batroute
\* counts on what it is told: a request with ttl k that is "exceeded" was
\* turned back after exactly k hops, and one that is answered took at most k.
AnswerReachesAsker ==
    \A m \in Sent("icmp") :
        /\ Len(answers[m]) <= 1
        /\ \A k \in DOMAIN answers[m] :
              /\ answers[m][k].node = msgs[m].from
              /\ answers[m][k].msg_type = "exceeded" => answers[m][k].hops = msgs[m].ttl
              /\ answers[m][k].msg_type = "reply" => answers[m][k].hops <= msgs[m].ttl

\* The mesh falls silent: whatever routes are taken, and in loops of links,
\* every packet dies out.
FallsSilent == <>[](air = {})

\* Some node has got another broadcast of the same node with the same number,
\* sent before that node was started again.
Shadowed(m) ==
    \E k \in Sent("bcast") \ {m}, n \in Nodes :
        msgs[k].from = msgs[m].from /\ msgs[k].seqno = msgs[m].seqno /\ tap[n][k] = 1

\* A broadcast of which no frame is lost reaches every node, except that the
\* first ones after a restart end at the nodes that have had their numbers
\* before.
FloodReachesAll ==
    \A m \in Ids :
        m \in Sent("bcast") ~>
            \/ m \in lost
            \/ m \in Sent("bcast") /\ (Shadowed(m) \/ \A n \in Nodes \ {msgs[m].from} : tap[n][m] = 1)
=============================================================================
