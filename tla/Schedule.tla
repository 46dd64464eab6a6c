------------------------------ MODULE Schedule ------------------------------
(***************************************************************************)
(* schedule.c and the loop of batman() around it: one list, forw_list,     *)
(* holds the node's own originator messages (one per interface, to be sent *)
(* at a jittered time in the future) and the messages it relays (put in    *)
(* front, due at once).  send_outstanding_packets walks the list, sends    *)
(* what is due, and schedules the next own message of an interface when it *)
(* has sent the last one.                                                  *)
(*                                                                         *)
(* The list of list-batman.c is singly linked.  Removing an element with   *)
(* the list head as its predecessor, as send_outstanding_packets does,     *)
(* drops everything in front of it too, so a packet put in front of the    *)
(* element the walk has already picked as its next one would be lost.      *)
(***************************************************************************)
EXTENDS SlidingWindow, SequencesExt

CONSTANTS
    NIfs,       \* found_ifs
    Interval,   \* originator_interval, in ticks of the clock
    Jitter,     \* JITTER
    ClockMod,   \* 2^32: get_time() and send_time are uint32_t
    MaxTime,    \* bound on the clock
    Neighs,     \* neighbours that may echo our messages
    Echoes,     \* pairs <<o, i>>: the DIRECTLINK echo of a message of
                \* interface o can be heard on interface i
    MaxLag,     \* bound: how many messages an echo may lag behind
    RelayTtls   \* ttl values of relayed messages

ASSUME ScheduleAssumption ==
    /\ NIfs \in Nat \ {0}
    /\ Interval \in Nat \ {0}
    /\ Jitter \in Nat
    /\ ClockMod \in Nat \ {0}
    /\ MaxTime \in Nat
    /\ MaxLag \in Nat
    /\ RelayTtls \subseteq Nat
    /\ MaxTime + Interval + Jitter < ClockMod
    /\ Echoes \subseteq (0..(NIfs - 1)) \X (0..(NIfs - 1))

Ifs == 0..(NIfs - 1)    \* if_num; interface 0 is the primary one

TTL == 50

VARIABLES
    now,        \* get_time()
    pc,         \* where the main thread is
    forw_list,  \* forw_list, first element first
    temp,       \* index of the element the walk visits next, 0 at its end
    curr_time,  \* curr_time of send_outstanding_packets
    out_seqno,  \* batman_if->out.seqno
    bcast_own,  \* orig_node->bcast_own of each neighbour, per interface
    aired,      \* the sequence numbers each interface sent last, newest first
    tx,         \* the frames the last transmission put on the air
    nsent,      \* ghost: own messages sent so far, per interface
    heard       \* ghost: which of the last W own messages a neighbour echoed

vars == <<now, pc, forw_list, temp, curr_time, out_seqno, bcast_own, aired, tx, nsent, heard>>

Packet == [own : BOOLEAN, if_outgoing : Ifs, send_time : 0..(ClockMod - 1),
           seqno : SeqNos, ttl : Nat, directlink : BOOLEAN]

NoSeqno == -1     \* nothing sent yet

Frame == [on : Ifs, directlink : BOOLEAN]

TypeOK ==
    /\ now \in 0..MaxTime
    /\ pc \in {"boot", "select", "send", "walk", "exit"}
    /\ forw_list \in Seq(Packet)
    /\ temp \in 0..Len(forw_list)
    /\ curr_time \in 0..MaxTime
    /\ out_seqno \in [Ifs -> SeqNos]
    /\ bcast_own \in [Neighs -> [Ifs -> SUBSET Offsets]]
    /\ aired \in [Ifs -> [0..MaxLag -> SeqNos \cup {NoSeqno}]]
    /\ tx \subseteq Frame
    /\ nsent \in [Ifs -> Nat]
    /\ heard \in [Neighs -> [Ifs -> SUBSET Offsets]]

-----------------------------------------------------------------------------
(* The list and the packets on it. *)

\* list_del(&forw_list, pos): the head's next pointer becomes pos->next.
list_del(list, pos) == SubSeq(list, pos + 1, Len(list))

\* Mutants of IsInsertPoint: always the front, always the tail.
IsInsertPoint_front(list, t, p) == p = 1

IsInsertPoint_tail(list, t, p) == p = Len(list) + 1

\* p is where schedule_own_packet inserts a packet due at t: in front of the
\* first packet due later, or at the tail.
IsInsertPoint(list, t, p) ==
    /\ \A j \in 1..(p - 1) : list[j].send_time <= t
    /\ p <= Len(list) => list[p].send_time > t

\* rand_num(limit)
rand_num(limit) == IF limit = 0 THEN {0} ELSE 0..(limit - 1)

\* Mutant of SendTimes: the interval is left out and the sum is signed.
SendTimes_signed == { now - Jitter + r : r \in rand_num(2 * Jitter) }

SendTimes == { (now + Interval - Jitter + r) % ClockMod : r \in rand_num(2 * Jitter) }

OwnPacket(i, t) ==
    [own |-> TRUE, if_outgoing |-> i, send_time |-> t,
     seqno |-> out_seqno[i], ttl |-> TTL, directlink |-> FALSE]

\* schedule_own_packet(batman_if), applied to what is left of the list;
\* next is the index in that list of the element the caller visits next.
\* The own-broadcast window of every originator moves on by one message.
schedule_own_packet(i, list, next) ==
    /\ \E t \in SendTimes, p \in 1..(Len(list) + 1) :
          /\ IsInsertPoint(list, t, p)
          /\ forw_list' = InsertAt(list, p, OwnPacket(i, t))
          /\ temp' = IF next # 0 /\ p <= next THEN next + 1 ELSE next
    /\ out_seqno' = [out_seqno EXCEPT ![i] = (@ + 1) % SeqSpace]
    /\ \E own \in [Neighs -> SUBSET Offsets] :
          /\ \A n \in Neighs : \E r \in bit_get_packet(bcast_own[n][i], 1, FALSE) :
                own[n] = r.bits
          /\ bcast_own' = [n \in Neighs |-> [bcast_own[n] EXCEPT ![i] = own[n]]]

\* Mutant of Frames: the flag is not cleared for the other interfaces.
Frames_flag_everywhere(p) ==
    IF p.directlink /\ p.ttl = 1
    THEN {[on |-> p.if_outgoing, directlink |-> TRUE]}
    ELSE IF p.own /\ p.if_outgoing > 0
    THEN {[on |-> p.if_outgoing, directlink |-> FALSE]}
    ELSE {[on |-> i, directlink |-> p.directlink] : i \in Ifs}

\* Where a due packet goes, and with which flag.
Frames(p) ==
    IF p.directlink /\ p.ttl = 1
    THEN {[on |-> p.if_outgoing, directlink |-> TRUE]}
    ELSE IF p.own /\ p.if_outgoing > 0
    THEN {[on |-> p.if_outgoing, directlink |-> FALSE]}
    ELSE {[on |-> i, directlink |-> p.directlink /\ p.if_outgoing = i] : i \in Ifs}

-----------------------------------------------------------------------------
Init ==
    /\ now = 0
    /\ pc = "boot"
    /\ forw_list = <<>>
    /\ temp = 0
    /\ curr_time = 0
    /\ out_seqno = [i \in Ifs |-> 1]
    /\ bcast_own = [n \in Neighs |-> [i \in Ifs |-> {}]]
    /\ aired = [i \in Ifs |-> [lag \in 0..MaxLag |-> NoSeqno]]
    /\ tx = {}
    /\ nsent = [i \in Ifs |-> 0]
    /\ heard = [n \in Neighs |-> [i \in Ifs |-> {}]]

\* batman() schedules the first message of each interface in turn.
StartInterface ==
    /\ pc = "boot"
    /\ Len(forw_list) < NIfs
    /\ schedule_own_packet(Len(forw_list), forw_list, 0)
    /\ pc' = IF Len(forw_list) + 1 = NIfs THEN "select" ELSE "boot"
    /\ UNCHANGED <<now, curr_time, aired, tx, nsent, heard>>

\* receive_packet returns without an originator message, or with one that
\* is dropped without a trace here.
ReceiveNothing ==
    /\ pc = "select"
    /\ pc' = "send"
    /\ UNCHANGED <<now, forw_list, temp, curr_time, out_seqno, bcast_own, aired, tx, nsent, heard>>

\* schedule_forward_packet: a message to be relayed goes to the front.  The
\* ttl and tq it computes are modelled in module Originator; its sequence number
\* is somebody else's and plays no part here.
schedule_forward_packet(i, ttl, directlink) ==
    /\ pc = "select"
    /\ pc' = "send"
    /\ forw_list' = <<[own |-> FALSE, if_outgoing |-> i, send_time |-> now,
                       seqno |-> 0, ttl |-> ttl, directlink |-> directlink]>>
                    \o forw_list
    /\ UNCHANGED <<now, temp, curr_time, out_seqno, bcast_own, aired, tx, nsent, heard>>

\* Mutant of ReceiveEcho: the message still queued is forgotten.
ReceiveEcho_off_by_one(n, o, i, lag) ==
    /\ pc = "select"
    /\ pc' = "send"
    /\ aired[o][lag] # NoSeqno
    /\ bcast_own' = IF aired[o][lag] - out_seqno[i] + 1 = 0
                    THEN [bcast_own EXCEPT ![n][i] = bit_mark(@, 0)]
                    ELSE bcast_own
    /\ heard' = IF o = i /\ lag = 0 THEN [heard EXCEPT ![n][i] = @ \cup {0}] ELSE heard
    /\ UNCHANGED <<now, forw_list, temp, curr_time, out_seqno, aired, tx, nsent>>

\* A neighbour's rebroadcast of our own message comes back on interface i.
\* It was the lag-th last message that interface o has sent.
ReceiveEcho(n, o, i, lag) ==
    /\ pc = "select"
    /\ pc' = "send"
    /\ aired[o][lag] # NoSeqno
    /\ bcast_own' = IF aired[o][lag] - out_seqno[i] + 2 = 0
                    THEN [bcast_own EXCEPT ![n][i] = bit_mark(@, 0)]
                    ELSE bcast_own
    /\ heard' = IF o = i /\ lag = 0 THEN [heard EXCEPT ![n][i] = @ \cup {0}] ELSE heard
    /\ UNCHANGED <<now, forw_list, temp, curr_time, out_seqno, aired, tx, nsent>>

\* send_outstanding_packets up to the head of its loop.
StartWalk ==
    /\ pc = "send"
    /\ IF forw_list = <<>>
       THEN pc' = "select" /\ UNCHANGED <<temp, curr_time>>
       ELSE pc' = "walk" /\ temp' = 1 /\ curr_time' = now
    /\ UNCHANGED <<now, forw_list, out_seqno, bcast_own, aired, tx, nsent, heard>>

\* Mutant of Due: packets leave an interval late.
Due_late == temp # 0 /\ forw_list[temp].send_time + Interval <= curr_time

Due == temp # 0 /\ forw_list[temp].send_time <= curr_time

\* The index, after list_del, of the element that follows pos.
Follower(pos) == IF pos < Len(forw_list) THEN 1 ELSE 0

SendRelayed ==
    /\ pc = "walk"
    /\ Due
    /\ ~ forw_list[temp].own
    /\ tx' = Frames(forw_list[temp])
    /\ forw_list' = list_del(forw_list, temp)
    /\ temp' = Follower(temp)
    /\ UNCHANGED <<now, pc, curr_time, out_seqno, bcast_own, aired, nsent, heard>>

SendOwn ==
    /\ pc = "walk"
    /\ Due
    /\ forw_list[temp].own
    /\ tx' = Frames(forw_list[temp])
    /\ LET i == forw_list[temp].if_outgoing
       IN  /\ schedule_own_packet(i, list_del(forw_list, temp), Follower(temp))
           /\ aired' = [aired EXCEPT ![i] =
                          [lag \in 0..MaxLag |->
                             IF lag = 0 THEN forw_list[temp].seqno ELSE @[lag - 1]]]
           /\ nsent' = [nsent EXCEPT ![i] = @ + 1]
           /\ heard' = [n \in Neighs |->
                          [heard[n] EXCEPT ![i] = {k \in Offsets : k - 1 \in @}]]
    /\ UNCHANGED <<now, pc, curr_time>>

\* A send error ends the daemon: restore_and_exit(0).
SendFails ==
    /\ pc = "walk"
    /\ Due
    /\ pc' = "exit"
    /\ UNCHANGED <<now, forw_list, temp, curr_time, out_seqno, bcast_own, aired, tx, nsent, heard>>

\* The walk ends at the end of the list or at a packet not yet due.
EndWalk ==
    /\ pc = "walk"
    /\ ~ Due
    /\ pc' = "select"
    /\ temp' = 0
    /\ curr_time' = 0
    /\ tx' = {}
    /\ UNCHANGED <<now, forw_list, out_seqno, bcast_own, aired, nsent, heard>>

\* purge_orig frees a neighbour's originator entry; a new one starts empty.
PurgeNeighbour(n) ==
    /\ pc = "select"
    /\ bcast_own' = [bcast_own EXCEPT ![n] = [i \in Ifs |-> {}]]
    /\ heard' = [heard EXCEPT ![n] = [i \in Ifs |-> {}]]
    /\ UNCHANGED <<now, pc, forw_list, temp, curr_time, out_seqno, aired, tx, nsent>>

\* is_aborted(): the loop ends and the list is freed.
Shutdown ==
    /\ pc = "select"
    /\ pc' = "exit"
    /\ forw_list' = <<>>
    /\ UNCHANGED <<now, temp, curr_time, out_seqno, bcast_own, aired, tx, nsent, heard>>

Tick ==
    /\ pc # "exit"
    /\ now < MaxTime
    /\ now' = now + 1
    /\ UNCHANGED <<pc, forw_list, temp, curr_time, out_seqno, bcast_own, aired, tx, nsent, heard>>

Receive ==
    \/ ReceiveNothing
    \/ \E i \in Ifs, ttl \in RelayTtls, d \in BOOLEAN : schedule_forward_packet(i, ttl, d)
    \/ \E n \in Neighs, e \in Echoes, lag \in 0..MaxLag : ReceiveEcho(n, e[1], e[2], lag)

Walk == SendRelayed \/ SendOwn \/ SendFails \/ EndWalk

MainStep == StartInterface \/ Receive \/ StartWalk \/ Walk

Next ==
    \/ MainStep
    \/ \E n \in Neighs : PurgeNeighbour(n)
    \/ Shutdown
    \/ Tick

\* The main thread never blocks for ever: select has a timeout.
Spec == Init /\ [][Next]_vars /\ WF_vars(MainStep)

-----------------------------------------------------------------------------
(* Properties *)

OwnAt(k, i) == forw_list[k].own /\ forw_list[k].if_outgoing = i

\* No interface ever drops out: while the daemon runs, the list holds exactly
\* one own message of every interface, in the middle of
\* send_outstanding_packets too.  The loop relies on it: it dereferences
\* forw_list.next unconditionally to compute its select timeout.
OneOwnPacketPerInterface ==
    pc \notin {"boot", "exit"} =>
        \A i \in Ifs :
            /\ \E k \in 1..Len(forw_list) : OwnAt(k, i)
            /\ \A j, k \in 1..Len(forw_list) : OwnAt(j, i) /\ OwnAt(k, i) => j = k

\* Whenever the loop waits, the list is sorted, so that its first element
\* decides the select timeout, and everything to be relayed has left.
SortedWhenWaiting ==
    pc = "select" =>
        /\ \A k \in 1..Len(forw_list) : forw_list[k].own
        /\ \A j, k \in 1..Len(forw_list) :
              j < k => forw_list[j].send_time <= forw_list[k].send_time

\* bcast_own records exactly which of our last messages came back: an echo
\* counts if and only if it answers the message this interface sent last,
\* although out.seqno is two ahead of it (one message is always queued).
EchoWindow == bcast_own = heard

\* The direct-link flag, by which a neighbour learns that we hear it, goes out
\* on the interface the neighbour was heard on and on no other one, although
\* all interfaces share one packet buffer.
DirectLinkOnItsInterface ==
    [][ \A k \in 1..Len(forw_list) :
          pc = "walk" /\ k = temp /\ forw_list' # forw_list =>
            {f.on : f \in {g \in tx' : g.directlink}}
              = IF forw_list[k].directlink THEN {forw_list[k].if_outgoing} ELSE {} ]_vars

\* Each interface's timer is never lost and fires in time.
Timers == INSTANCE OgmTimer WITH
    armed   <- IF pc = "exit" THEN {}
               ELSE IF pc = "boot" THEN 0..(Len(forw_list) - 1) ELSE Ifs,
    timer   <- [i \in Ifs |->
                  IF pc # "exit" /\ \E k \in 1..Len(forw_list) : OwnAt(k, i)
                  THEN forw_list[CHOOSE k \in 1..Len(forw_list) : OwnAt(k, i)].send_time
                  ELSE 0],
    running <- pc # "exit"
ImplementsTimers == Timers!TSpec
=============================================================================
