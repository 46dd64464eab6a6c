----------------------------- MODULE Originator -----------------------------
(***************************************************************************)
(* One entry of orig_hash, and what the main loop does to it for every     *)
(* originator message (OGM) of that originator: count_real_packets,        *)
(* isBidirectionalNeigh, update_orig, the router half of update_routes,    *)
(* schedule_forward_packet, and purge_orig.                                *)
(*                                                                         *)
(* OGMs arrive over links, a link being a neighbour's address and the      *)
(* interface it was heard on; they arrive duplicated (one copy per link),  *)
(* late, and not at all.  What other originators' entries contribute, the  *)
(* quality of the link to a relaying neighbour, is an input.               *)
(***************************************************************************)
EXTENDS SlidingWindow, SeqFilter, SequencesExt

CONSTANTS
    Orig,        \* the originator
    Nodes, Ifs,  \* addresses of neighbours, Orig among them; our interfaces
    Links,       \* the links <<node, interface>> OGMs of Orig may come over
    NULL, Freed, \* no router; a router pointer to memory that was freed
    G,           \* TQ_GLOBAL_WINDOW_SIZE, entries of the tq ring buffer
    TQMax,       \* TQ_MAX_VALUE
    HopPenalty,  \* TQ_HOP_PENALTY
    SendMinimum, RecvMinimum, BidirectLimit,  \* TQ_LOCAL_..., TQ_TOTAL_...
    TtlSpace,    \* 2^8: ttl is an uint8_t
    Ogms,        \* the OGMs that may arrive: over which link, with what tq and ttl
    Echoes,      \* possible values of bcast_own_sum
    Counts,      \* possible numbers of OGMs counted for a relaying neighbour
    PurgeTimeout,\* PURGE_TIMEOUT
    MaxSeq,      \* bound: OGMs are numbered 1..MaxSeq
    MaxTime      \* bound on the clock

ASSUME OriginatorAssumption ==
    /\ Orig \in Nodes /\ Links \subseteq Nodes \X Ifs
    /\ NULL \notin Links /\ Freed \notin Links /\ NULL # Freed
    /\ G \in Nat \ {0} /\ TQMax \in Nat \ {0} /\ HopPenalty \in 0..TQMax
    /\ SendMinimum \in Nat \ {0} /\ RecvMinimum \in Nat \ {0}
    /\ BidirectLimit \in Nat \ {0}
    /\ TtlSpace \in Nat \ {0}
    /\ Ogms \subseteq [link : Links, tq : 0..TQMax, ttl : 0..(TtlSpace - 1)]
    /\ Counts \subseteq 0..W
    /\ Echoes \subseteq [Nodes \X Ifs -> 0..W]
    /\ PurgeTimeout \in Nat /\ MaxTime \in Nat /\ MaxSeq \in 0..(SeqSpace - 1)

VARIABLES
    curr_time,
    known,          \* the originator has an entry in orig_hash
    last_valid,     \* orig_node->last_valid
    last_real_seqno,\* orig_node->last_real_seqno
    last_ttl,       \* orig_node->last_ttl
    router,         \* orig_node->router
    neigh_list,     \* orig_node->neigh_list, a sequence of links
    neigh,          \* the neigh_node of each link
    bcast_own_sum,  \* bcast_own_sum[if_num] of the neighbours' own entries
    sent,           \* the OGM handed to forw_list by the last step, or NULL
    heard,          \* ghost: the highest tq that has arrived since the entry was made
    heard_ttl       \* ghost: the highest ttl, likewise

entry == <<known, last_valid, last_real_seqno, last_ttl, router, neigh_list, neigh>>
ghosts == <<heard, heard_ttl>>
vars == <<curr_time, entry, bcast_own_sum, sent, ghosts>>

Rings == [0..(G - 1) -> 0..TQMax]

\* struct neigh_node.
NeighNodes ==
    [real_bits : SUBSET Offsets, tq_recv : Rings, tq_index : 0..(G - 1), tq_avg : 0..TQMax,
     last_ttl : 0..(TtlSpace - 1), last_valid : 0..MaxTime]

TypeOK ==
    /\ curr_time \in 0..MaxTime
    /\ known \in BOOLEAN
    /\ last_valid \in 0..MaxTime
    /\ last_real_seqno \in 0..MaxSeq
    /\ last_ttl \in 0..(TtlSpace - 1)
    /\ router \in Links \cup {NULL, Freed}
    /\ neigh_list \in Seq(Links)
    /\ neigh \in [Links -> NeighNodes]
    /\ bcast_own_sum \in Echoes
    /\ sent \in [tq : 0..TQMax, ttl : 0..(TtlSpace - 1)] \cup {NULL, Freed}
    /\ heard \in 0..TQMax
    /\ heard_ttl \in 0..(TtlSpace - 1)

\* create_neighbor and get_orig_node clear the structures they allocate.
NewNeighbour ==
    [real_bits |-> {}, tq_recv |-> [i \in 0..(G - 1) |-> 0], tq_index |-> 0, tq_avg |-> 0,
     last_ttl |-> 0, last_valid |-> 0]

Init ==
    /\ curr_time = 0
    /\ known = FALSE
    /\ last_valid = 0
    /\ last_real_seqno = 0
    /\ last_ttl = 0
    /\ router = NULL
    /\ neigh_list = <<>>
    /\ neigh = [l \in Links |-> NewNeighbour]
    /\ bcast_own_sum \in Echoes
    /\ sent = NULL
    /\ heard = 0
    /\ heard_ttl = 0

Listed == ToSet(neigh_list)

addr(l) == l[1]
if_incoming(l) == l[2]

-----------------------------------------------------------------------------
(* ring_buffer.c *)

\* Mutant of ring_buffer_set: the index runs out of the ring.
ring_buffer_set_no_wrap(n, value) ==
    [n EXCEPT !.tq_recv[n.tq_index] = value, !.tq_index = n.tq_index + 1]

ring_buffer_set(n, value) ==
    [n EXCEPT !.tq_recv[n.tq_index] = value, !.tq_index = (n.tq_index + 1) % G]

\* The average of the entries that are not zero.
ring_buffer_avg(ring) ==
    LET count == Cardinality({i \in 0..(G - 1) : ring[i] # 0})
        sum[i \in 0..G] == IF i = 0 THEN 0 ELSE sum[i - 1] + ring[i - 1]
    IN  IF count = 0 THEN 0 ELSE sum[G] \div count

\* tq_avg is refreshed whenever the ring is written.
push_tq(n, value) ==
    LET m == ring_buffer_set(n, value)
    IN  [m EXCEPT !.tq_avg = ring_buffer_avg(m.tq_recv)]

-----------------------------------------------------------------------------
(* What an OGM goes through.  Each operator works on the neighbour list and *)
(* nodes as the one before it left them.                                   *)

\* count_real_packets: the windows of all listed neighbours move on, and the
\* one the OGM came over is marked.
Counted(l, seq) ==
    LET after(m) == {r.bits : r \in bit_get_packet(neigh[m].real_bits,
                                                   Int16(seq - last_real_seqno), m = l)}
        windows  == {f \in [Listed -> UNION {after(m) : m \in Listed}] :
                       \A m \in Listed : f[m] \in after(m)}
    IN  { [m \in Links |-> IF m \in Listed THEN [neigh[m] EXCEPT !.real_bits = f[m]]
                                            ELSE neigh[m]] : f \in windows }

\* What count_real_packets may return.
is_duplicate(seq) ==
    { dup \in BOOLEAN :
        IF dup THEN \E m \in Listed : 1 \in get_bit_status(neigh[m].real_bits, last_real_seqno, seq)
               ELSE \A m \in Listed : 0 \in get_bit_status(neigh[m].real_bits, last_real_seqno, seq) }

\* isBidirectionalNeigh: how good the link is in both directions, from the
\* number of our own OGMs the neighbour echoed and of its OGMs we counted.
tq_own(echoed, counted) ==
    LET total_count == IF echoed > counted THEN counted ELSE echoed
    IN  IF total_count < SendMinimum \/ counted < RecvMinimum
        THEN 0 ELSE (TQMax * total_count) \div counted

tq_asym_penalty(counted) ==
    TQMax - (TQMax * (W - counted) * (W - counted) * (W - counted)) \div (W * W * W)

\* Mutant of LinkTq: the product is scaled back once instead of twice.
LinkTq_scaled_once(tq, echoed, counted) ==
    (tq * tq_own(echoed, counted) * tq_asym_penalty(counted)) \div TQMax

LinkTq(tq, echoed, counted) ==
    (tq * tq_own(echoed, counted) * tq_asym_penalty(counted)) \div (TQMax * TQMax)

\* Whether update_orig is called: a duplicate of the newest OGM may still
\* change the ranking if its ttl is similar.
Acceptable(seq, tq, ttl, dup) ==
    /\ tq >= BidirectLimit
    /\ ~ dup \/ (last_real_seqno = seq /\ last_ttl - 3 <= ttl)

\* update_orig: the tq goes into the ring of l; if the OGM is new, a zero
\* goes into the rings of all others.
RankedNodes(list, nodes, l, tq, ttl, dup) ==
    [m \in Links |->
       IF m = l
       THEN [push_tq(nodes[l], tq) EXCEPT
               !.last_valid = curr_time,
               !.last_ttl = IF dup THEN nodes[l].last_ttl ELSE ttl]
       ELSE IF ~ dup /\ m \in ToSet(list) THEN push_tq(nodes[m], 0)
       ELSE nodes[m]]

\* The neighbours in the order update_orig ranks them: the one the OGM came
\* over is looked at last.
Order(list, l) == Append(Keep(list, ToSet(list) \ {l}), l)

\* Mutants of Best: the current router is kept whatever its tq_avg; among
\* equals the last one wins.
Best_keeps_router(order, nodes, old) ==
    LET top == {p \in DOMAIN order : \A q \in DOMAIN order :
                  nodes[order[q]].tq_avg <= nodes[order[p]].tq_avg}
    IN  IF \E p \in DOMAIN order : order[p] = old
        THEN {p \in DOMAIN order : order[p] = old} ELSE top

Best_last_wins(order, nodes, old) ==
    LET top == {p \in DOMAIN order : \A q \in DOMAIN order :
                  nodes[order[q]].tq_avg <= nodes[order[p]].tq_avg}
    IN  {p \in top : \A q \in top : q <= p}

\* Where the ranking loop of update_orig ends up in order: the highest tq_avg
\* wins; among equals the first one with the most echoes (on the interface of
\* the OGM), except that the current router displaces those before it.
Best(order, nodes, old) ==
    LET top    == {p \in DOMAIN order : \A q \in DOMAIN order :
                     nodes[order[q]].tq_avg <= nodes[order[p]].tq_avg}
        after  == {p \in top : \A q \in top : order[q] = old => q <= p}
        own(p) == bcast_own_sum[<<addr(order[p]), if_incoming(order[Len(order)])>>]
    IN  {p \in after : \A q \in after :
            IF q < p THEN own(q) < own(p) ELSE own(q) <= own(p)}

\* What orig_node->router compares equal to: the memory of a freed router may
\* by now hold any of the neighbours listed, or l that was just made.
RouterSeen(list, l) == IF router = Freed THEN ToSet(list) \cup {l, NULL} ELSE {router}

With(list, l) == IF l \in ToSet(list) THEN list ELSE Append(list, l)

\* update_orig with the router half of update_routes.
update_orig(list, nodes, l, tq, ttl, dup) ==
    /\ neigh_list' = With(list, l)
    /\ neigh' = RankedNodes(list, nodes, l, tq, ttl, dup)
    /\ last_ttl' = IF dup THEN last_ttl ELSE ttl
    /\ \E old \in RouterSeen(list, l) : \E p \in Best(Order(list, l), neigh', old) :
          router' = Order(list, l)[p]

\* isBidirectionalNeigh has turned the OGM's tq into tq.
Rank(list, nodes, l, seq, tq, ttl, dup) ==
    IF Acceptable(seq, tq, ttl, dup)
    THEN update_orig(list, nodes, l, tq, ttl, dup)
    ELSE /\ neigh_list' = list
         /\ neigh' = nodes
         /\ UNCHANGED <<last_ttl, router>>

\* schedule_forward_packet for an OGM received over l: the OGM of the best
\* neighbour goes out as it came, any other with the best neighbour's values.
\* With a freed router they are whatever its memory holds.
schedule_forward_packet(l, tq, ttl) ==
    LET asIs == router' = NULL \/ neigh'[router'].tq_avg = 0 \/ addr(router') = addr(l)
        out  == IF asIs THEN [tq |-> tq, ttl |-> ttl - 1]
                ELSE [tq  |-> neigh'[router'].tq_avg,
                      ttl |-> (neigh'[router'].last_ttl - 1) % TtlSpace]
    IN  sent' = IF ttl <= 1 THEN NULL
                ELSE IF router' = Freed THEN Freed
                ELSE [out EXCEPT !.tq = (out.tq * (TQMax - HopPenalty)) \div TQMax]

-----------------------------------------------------------------------------
(* Actions *)

\* What count_real_packets leaves: get_orig_node has found or made the entry.
Seen(seq, dup) ==
    /\ dup \in is_duplicate(seq)
    /\ known' = TRUE
    /\ last_real_seqno' = IF dup THEN last_real_seqno ELSE seq
    /\ UNCHANGED <<curr_time, bcast_own_sum>>

\* The ghosts follow the OGMs that are not dropped.
Hear(tq, ttl) ==
    /\ heard' = IF tq > heard THEN tq ELSE heard
    /\ heard_ttl' = IF ttl > heard_ttl THEN ttl ELSE heard_ttl

\* An OGM that is counted and dropped: its tq is zero, or it was relayed by
\* a node we have no route to.
CountOgm(l, seq, tq) ==
    /\ tq = 0 \/ addr(l) # Orig
    /\ \E dup \in BOOLEAN : Seen(seq, dup)
    /\ neigh' \in Counted(l, seq)
    /\ sent' = NULL
    /\ UNCHANGED <<last_valid, last_ttl, router, neigh_list, ghosts>>

\* An OGM heard from the originator itself: always rebroadcast, so that the
\* originator hears its echo.
DirectOgm(l, seq, tq, ttl) ==
    /\ tq # 0
    /\ addr(l) = Orig
    /\ last_valid' = curr_time
    /\ \E dup \in BOOLEAN, counted \in Counted(l, seq) :
          LET nodes == [counted EXCEPT ![l].last_valid = curr_time]
              in_tq == LinkTq(tq, bcast_own_sum[l], Cardinality(counted[l].real_bits))
          IN  /\ Seen(seq, dup)
              /\ Hear(tq, ttl)
              /\ Rank(With(neigh_list, l), nodes, l, seq, in_tq, ttl, dup)
              /\ schedule_forward_packet(l, in_tq, ttl)

\* An OGM relayed by a neighbour we have a route to; n is the number of the
\* neighbour's own OGMs counted on that interface.  Rebroadcast once, and
\* only over links that work in both directions.
RelayedOgm(l, seq, tq, ttl, n) ==
    /\ tq # 0
    /\ addr(l) # Orig
    /\ last_valid' = curr_time
    /\ \E dup \in BOOLEAN, nodes \in Counted(l, seq) :
          LET in_tq == LinkTq(tq, bcast_own_sum[l], n)
          IN  /\ Seen(seq, dup)
              /\ Hear(tq, ttl)
              /\ Rank(neigh_list, nodes, l, seq, in_tq, ttl, dup)
              /\ IF in_tq >= BidirectLimit /\ ~ dup
                 THEN schedule_forward_packet(l, in_tq, ttl)
                 ELSE sent' = NULL

\* Our own OGMs and their echoes change the local link qualities.
OwnTraffic ==
    /\ bcast_own_sum' \in Echoes
    /\ sent' = NULL
    /\ UNCHANGED <<curr_time, entry, ghosts>>

Expired(t) == t + PurgeTimeout < curr_time

\* purge_orig: nothing valid was received for too long.
PurgeOrig ==
    /\ known
    /\ Expired(last_valid)
    /\ known' = FALSE
    /\ last_valid' = 0
    /\ last_real_seqno' = 0
    /\ last_ttl' = 0
    /\ router' = NULL
    /\ neigh_list' = <<>>
    /\ neigh' = [l \in Links |-> NewNeighbour]
    /\ sent' = NULL
    /\ heard' = 0
    /\ heard_ttl' = 0
    /\ UNCHANGED <<curr_time, bcast_own_sum>>

\* The first of the neighbours with the highest tq_avg.
FirstBest(list) ==
    {list[p] : p \in {p \in DOMAIN list : \A q \in DOMAIN list :
                        IF q < p THEN neigh[list[q]].tq_avg < neigh[list[p]].tq_avg
                                 ELSE neigh[list[q]].tq_avg <= neigh[list[p]].tq_avg}}

\* purge_orig: neighbours nothing was received over for too long are freed.
\* The best of the others becomes router only if it beats the present one,
\* whose tq_avg is read even if it has just been freed.
PurgeNeighbours ==
    LET gone   == {l \in Listed : Expired(neigh[l].last_valid)}
        list   == Keep(neigh_list, Listed \ gone)
        freed  == router = Freed \/ router \in gone
        better(b) == IF router = NULL THEN {TRUE}
                     ELSE IF freed THEN BOOLEAN
                     ELSE {neigh[b].tq_avg > neigh[router].tq_avg}
    IN  /\ known
        /\ ~ Expired(last_valid)
        /\ gone # {}
        /\ neigh_list' = list
        /\ neigh' = [l \in Links |-> IF l \in gone THEN NewNeighbour ELSE neigh[l]]
        /\ \/ list = <<>> /\ router' = NULL
           \/ \E b \in FirstBest(list) : \E switch \in better(b) :
                 router' = IF switch THEN b ELSE IF freed THEN Freed ELSE router
        /\ sent' = NULL
        /\ UNCHANGED <<curr_time, known, last_valid, last_real_seqno, last_ttl,
                       bcast_own_sum, ghosts>>

Tick ==
    /\ curr_time < MaxTime
    /\ curr_time' = curr_time + 1
    /\ sent' = NULL
    /\ UNCHANGED <<entry, bcast_own_sum, ghosts>>

Next ==
    \/ \E ogm \in Ogms, seq \in 1..MaxSeq :
          \/ CountOgm(ogm.link, seq, ogm.tq)
          \/ DirectOgm(ogm.link, seq, ogm.tq, ogm.ttl)
          \/ \E n \in Counts : RelayedOgm(ogm.link, seq, ogm.tq, ogm.ttl, n)
    \/ OwnTraffic
    \/ PurgeOrig
    \/ PurgeNeighbours
    \/ Tick

Spec == Init /\ [][Next]_vars

-----------------------------------------------------------------------------
(* Properties *)

\* The route is the best one: while the router is a neighbour that is still
\* listed, no listed neighbour has a higher tq_avg; and there is a router as
\* soon as any neighbour is ranked at all.  Neither duplicates nor purging
\* leave a better neighbour unused.
RouterIsBest ==
    /\ router \in Links =>
         /\ router \in Listed
         /\ \A l \in Listed : neigh[l].tq_avg <= neigh[router].tq_avg
    /\ router = NULL => \A l \in Listed : neigh[l].tq_avg = 0

\* "to avoid route flipping": a router that stays listed is only given up for
\* a neighbour with a higher tq_avg or, at the same tq_avg, for one that
\* echoes more of our own OGMs on one of our interfaces (which is the one the
\* OGM came over).
NoFlipping ==
    [][ (router \in Links /\ router' \in Links /\ router' # router
           /\ router \in ToSet(neigh_list')) =>
          \/ neigh'[router'].tq_avg > neigh'[router].tq_avg
          \/ /\ neigh'[router'].tq_avg = neigh'[router].tq_avg
             /\ \E i \in Ifs : bcast_own_sum[<<addr(router'), i>>] > bcast_own_sum[<<addr(router), i>>]
      ]_vars

\* What is rebroadcast never promises more than was heard since the entry was
\* made, whatever tq and ttl the OGMs of others carry: the tq of a rebroadcast
\* OGM is at most the best tq received, less the hop penalty, and its ttl less
\* than the highest one received, so an OGM that is passed around loses ttl at
\* every node.  (The one exception: a router known from duplicates only has
\* last_ttl 0, and one less than that is the largest ttl there is.)
TqHonest ==
    sent \notin {NULL, Freed} =>
        /\ sent.tq <= (heard * (TQMax - HopPenalty)) \div TQMax
        /\ \/ sent.ttl < heard_ttl
           \/ sent.ttl = TtlSpace - 1 /\ router \in Links /\ neigh[router].last_ttl = 0
=============================================================================
