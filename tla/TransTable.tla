----------------------------- MODULE TransTable -----------------------------
(***************************************************************************)
(* trans_table.c and the HNA half of update_routes: which mesh node each   *)
(* client host is behind.  An entry of trans_hash hangs on exactly one     *)
(* list, the local hna_list or the hna_list of the originator it belongs   *)
(* to; hosts roam, so entries move between the lists.                      *)
(*                                                                         *)
(* The main loop is kept: frames from the tap device and at most one       *)
(* originator message, then hna_update, then the own messages that carry   *)
(* the host list away, then purge_orig.                                    *)
(***************************************************************************)
EXTENDS Integers, FiniteSets, SequencesExt

CONSTANTS
    Hosts,         \* client MAC addresses
    Groups,        \* those of Hosts that are broadcast, multicast or zero
    Primary,       \* the MAC address of our own primary interface
    Origs,         \* other mesh nodes
    Me, NoOwner,   \* ourselves as an owner; no entry in trans_hash
    NoBuff,        \* a NULL hna_buff
    Announcements, \* the host lists originator messages may carry
    MaxHna,        \* hosts one originator message has room for
    MaxAge,        \* AGE_THRESHOLD
    MaxTime        \* bound on the clock

ASSUME TransAssumption ==
    /\ IsFiniteSet(Hosts)
    /\ Groups \subseteq Hosts
    /\ Primary \in Hosts \ Groups
    /\ Me \notin Origs /\ NoOwner \notin Origs /\ Me # NoOwner
    /\ Announcements \subseteq Seq(Hosts)
    /\ NoBuff \notin Announcements
    /\ MaxHna \in Nat /\ MaxAge \in Nat /\ MaxTime \in Nat

VARIABLES
    pc,           \* phase of the main loop
    curr_time,    \* curr_time
    trans_hash,   \* batman_mac of each host's entry
    age,          \* age of each host's entry
    hna_list,     \* hosts on the local list
    hna_changed,  \* hna_changed
    hna_buff,     \* hosts in the local hna_buff
    num_hna,      \* num_hna, and num_hna of the primary interface's messages
    orig_hash,    \* the originators known
    orig_buff,    \* orig_node->hna_buff
    orig_list     \* orig_node->hna_list

table == <<trans_hash, age, hna_list, hna_changed, orig_list>>
local == <<hna_buff, num_hna>>
vars == <<pc, curr_time, table, local, orig_hash, orig_buff>>

TypeOK ==
    /\ pc \in {"receive", "update", "send", "purge"}
    /\ curr_time \in 0..MaxTime
    /\ trans_hash \in [Hosts -> Origs \cup {Me, NoOwner}]
    /\ age \in [Hosts -> 0..MaxTime]
    /\ hna_list \subseteq Hosts
    /\ hna_changed \in BOOLEAN
    /\ hna_buff \subseteq Hosts
    /\ num_hna \in 0..MaxHna
    /\ orig_hash \subseteq Origs
    /\ orig_buff \in [Origs -> Announcements \cup {NoBuff}]
    /\ orig_list \in [Origs -> SUBSET Hosts]

\* transtable_init has entered our own address.
Init ==
    /\ pc = "receive"
    /\ curr_time = 0
    /\ trans_hash = [h \in Hosts |-> IF h = Primary THEN Me ELSE NoOwner]
    /\ age = [h \in Hosts |-> 0]
    /\ hna_list = {Primary}
    /\ hna_changed = TRUE
    /\ hna_buff = {}
    /\ num_hna = 0
    /\ orig_hash = {}
    /\ orig_buff = [o \in Origs |-> NoBuff]
    /\ orig_list = [o \in Origs |-> {}]

-----------------------------------------------------------------------------
(* Functions of trans_table.c *)

\* Mutant of hna_add: a host that moved to us stays on the other list.
hna_add_no_unlink(h) ==
    IF trans_hash[h] = Me
    THEN /\ age' = [age EXCEPT ![h] = curr_time]
         /\ UNCHANGED <<trans_hash, hna_list, hna_changed, orig_list>>
    ELSE /\ h \notin Groups
         /\ trans_hash' = [trans_hash EXCEPT ![h] = Me]
         /\ age' = [age EXCEPT ![h] = curr_time]
         /\ hna_list' = hna_list \cup {h}
         /\ hna_changed' = TRUE
         /\ UNCHANGED orig_list

\* hna_add for the source address of a frame from the tap device.  A host
\* that was behind another node has moved to us; a group address is refused
\* by transtable_add.
hna_add(h) ==
    IF trans_hash[h] = Me
    THEN /\ age' = [age EXCEPT ![h] = curr_time]
         /\ UNCHANGED <<trans_hash, hna_list, hna_changed, orig_list>>
    ELSE /\ orig_list' = [o \in Origs |-> orig_list[o] \ {h}]
         /\ IF h \in Groups
            THEN /\ trans_hash' = [trans_hash EXCEPT ![h] = NoOwner]
                 /\ UNCHANGED <<age, hna_list, hna_changed>>
            ELSE /\ trans_hash' = [trans_hash EXCEPT ![h] = Me]
                 /\ age' = [age EXCEPT ![h] = curr_time]
                 /\ hna_list' = hna_list \cup {h}
                 /\ hna_changed' = TRUE

\* Mutant of hna_add_buff: hosts taken from us are not noticed.
hna_add_buff_unnoticed(o, announcement, gone) ==
    LET new  == ToSet(announcement) \ Groups
        left == [h \in Hosts |-> IF h \in gone THEN NoOwner ELSE trans_hash[h]]
    IN  /\ trans_hash' = [h \in Hosts |-> IF h \in new THEN o ELSE left[h]]
        /\ age' = [h \in Hosts |-> IF h \in new /\ left[h] # o THEN curr_time ELSE age[h]]
        /\ orig_list' = [p \in Origs |->
                           IF p = o THEN (orig_list[o] \ gone) \cup new
                                    ELSE orig_list[p] \ new]
        /\ hna_list' = hna_list \ new
        /\ UNCHANGED hna_changed

\* hna_add_buff after the entries in gone have been deleted: each host of
\* the announcement is taken from whoever had it and given to o.
hna_add_buff(o, announcement, gone) ==
    LET new  == ToSet(announcement) \ Groups
        left == [h \in Hosts |-> IF h \in gone THEN NoOwner ELSE trans_hash[h]]
    IN  /\ trans_hash' = [h \in Hosts |-> IF h \in new THEN o ELSE left[h]]
        /\ age' = [h \in Hosts |-> IF h \in new /\ left[h] # o THEN curr_time ELSE age[h]]
        /\ orig_list' = [p \in Origs |->
                           IF p = o THEN (orig_list[o] \ gone) \cup new
                                    ELSE orig_list[p] \ new]
        /\ hna_list' = hna_list \ new
        /\ hna_changed' = (hna_changed \/ \E h \in new : left[h] = Me)

\* Mutant of update_routes: the hosts of the old list are not deleted.
update_routes_keeps_old(o, recv) ==
    IF orig_buff[o] = NoBuff \/ Len(recv) # Len(orig_buff[o]) \/ recv = orig_buff[o]
    THEN /\ hna_add_buff(o, recv, {})
         /\ orig_buff' = [orig_buff EXCEPT ![o] = recv]
    ELSE UNCHANGED <<table, orig_buff>>

\* The HNA half of update_routes for a received host list.  A list of the
\* same length counts as changed when it is EQUAL to the old one.
update_routes(o, recv) ==
    IF orig_buff[o] = NoBuff
    THEN /\ hna_add_buff(o, recv, {})
         /\ orig_buff' = [orig_buff EXCEPT ![o] = recv]
    ELSE IF Len(recv) # Len(orig_buff[o]) \/ recv = orig_buff[o]
    THEN /\ hna_add_buff(o, recv, orig_list[o])
         /\ orig_buff' = [orig_buff EXCEPT ![o] = recv]
    ELSE UNCHANGED <<table, orig_buff>>

-----------------------------------------------------------------------------
(* The main loop *)

\* receive_packet_tap reads a frame with source address h.
TapFrame(h) ==
    /\ pc = "receive"
    /\ hna_add(h)
    /\ UNCHANGED <<pc, curr_time, local, orig_hash, orig_buff>>

\* update_orig accepts an originator message of o that came over the
\* neighbour via; get_orig_node has entered both.
AcceptOgm(o, via, recv) ==
    /\ pc = "receive"
    /\ pc' = "update"
    /\ orig_hash' = orig_hash \cup {o, via}
    /\ update_routes(o, recv)
    /\ UNCHANGED <<curr_time, local>>

\* An originator message that is dropped after its originator and the
\* neighbour it came over have been entered.
DropOgm(o, via) ==
    /\ pc = "receive"
    /\ pc' = "update"
    /\ orig_hash' = orig_hash \cup {o, via}
    /\ UNCHANGED <<curr_time, table, local, orig_buff>>

\* receive_packet times out, or what it returns is dropped at once.
ReceiveNothing ==
    /\ pc = "receive"
    /\ pc' = "update"
    /\ UNCHANGED <<curr_time, table, local, orig_hash, orig_buff>>

\* Mutant of hna_update: more hosts than fit are announced.
hna_update_unlimited ==
    /\ pc = "update"
    /\ pc' = "send"
    /\ hna_changed' = FALSE
    /\ hna_buff' = hna_list
    /\ num_hna' = Cardinality(hna_list)
    /\ UNCHANGED <<curr_time, trans_hash, age, hna_list, orig_list, orig_hash, orig_buff>>

\* hna_update: hosts not heard of for a while leave the local list, and the
\* buffer is rewritten if the list has changed since the last time.
hna_update ==
    LET old == {h \in hna_list : curr_time - age[h] > MaxAge /\ h # Primary}
        n   == Cardinality(hna_list \ old)
    IN  /\ pc = "update"
        /\ pc' = "send"
        /\ trans_hash' = [h \in Hosts |-> IF h \in old THEN NoOwner ELSE trans_hash[h]]
        /\ hna_list' = hna_list \ old
        /\ hna_changed' = FALSE
        /\ IF hna_changed \/ old # {}
           THEN /\ hna_buff' = hna_list \ old
                /\ num_hna' = IF n > MaxHna THEN MaxHna ELSE n
           ELSE UNCHANGED local
        /\ UNCHANGED <<curr_time, age, orig_list, orig_hash, orig_buff>>

\* send_outstanding_packets: own messages take the first num_hna hosts of
\* the buffer along (module Schedule).
SendOutstanding ==
    /\ pc = "send"
    /\ pc' = "purge"
    /\ UNCHANGED <<curr_time, table, local, orig_hash, orig_buff>>

\* Mutant of PurgeOrig: the hosts of the originator are left in the table.
PurgeOrig_keeps_hosts(o) ==
    /\ pc = "purge"
    /\ o \in orig_hash
    /\ orig_hash' = orig_hash \ {o}
    /\ UNCHANGED <<pc, curr_time, table, local, orig_buff>>

\* purge_orig drops an originator: hna_del_buff deletes its hosts.
PurgeOrig(o) ==
    /\ pc = "purge"
    /\ o \in orig_hash
    /\ orig_hash' = orig_hash \ {o}
    /\ IF orig_buff[o] = NoBuff
       THEN UNCHANGED <<table, orig_buff>>
       ELSE /\ hna_add_buff(o, <<>>, orig_list[o])
            /\ orig_buff' = [orig_buff EXCEPT ![o] = NoBuff]
    /\ UNCHANGED <<pc, curr_time, local>>

\* purge_orig drops a neighbour towards o and calls update_routes with o's
\* own hna_buff: equal to itself, hence "changed", hence freed by
\* hna_del_buff before it is copied.  The copy reads freed memory: what it
\* yields has the old length and nothing else is certain.
PurgeNeighbour(o) ==
    /\ pc = "purge"
    /\ o \in orig_hash
    /\ orig_buff[o] # NoBuff
    /\ \E copy \in Announcements :
          /\ Len(copy) = Len(orig_buff[o])
          /\ hna_add_buff(o, copy, orig_list[o])
          /\ orig_buff' = [orig_buff EXCEPT ![o] = copy]
    /\ UNCHANGED <<pc, curr_time, local, orig_hash>>

\* The end of an iteration; the next one reads the clock again.
NextIteration ==
    /\ pc = "purge"
    /\ pc' = "receive"
    /\ curr_time' \in {t \in curr_time..(curr_time + 1) : t <= MaxTime}
    /\ UNCHANGED <<table, local, orig_hash, orig_buff>>

Next ==
    \/ \E h \in Hosts : TapFrame(h)
    \/ \E o \in Origs, via \in Origs :
          \/ DropOgm(o, via)
          \/ \E recv \in Announcements : AcceptOgm(o, via, recv)
    \/ ReceiveNothing
    \/ hna_update
    \/ SendOutstanding
    \/ \E o \in Origs : PurgeOrig(o) \/ PurgeNeighbour(o)
    \/ NextIteration

Spec == Init /\ [][Next]_vars

-----------------------------------------------------------------------------
(* Properties *)

\* Every entry of trans_hash hangs on the list of its owner and on no other
\* one, and every list element is in trans_hash: no entry is freed while a
\* list still links it, and none is left behind when its owner goes.
ListsMatchTable ==
    /\ \A h \in Hosts : h \in hna_list <=> trans_hash[h] = Me
    /\ \A h \in Hosts, o \in Origs : h \in orig_list[o] <=> trans_hash[h] = o

\* A host is never routed to an originator that has been purged.
OwnersExist == \A h \in Hosts : trans_hash[h] \in Origs => trans_hash[h] \in orig_hash

\* What our messages announce is the local list: every way a host has of
\* joining or leaving the list sets hna_changed, and hna_update has run when
\* the messages are sent and the next ones packed.  (The hosts in a message
\* are those of the time it was packed, one interval before it is sent.)
AnnouncementIsCurrent ==
    /\ ~ hna_changed => hna_buff = hna_list
    /\ pc = "send" => hna_buff = hna_list

\* The hosts listed for an originator are among those in its buffer.
ListedWereAnnounced ==
    \A o \in Origs :
        orig_list[o] \subseteq (IF orig_buff[o] = NoBuff THEN {} ELSE ToSet(orig_buff[o]))

\* An accepted announcement takes effect: the hosts it names are behind its
\* sender afterwards.
AnnouncementApplied ==
    [][ \A o \in Origs, via \in Origs, recv \in Announcements :
          AcceptOgm(o, via, recv) =>
            \A h \in ToSet(recv) \ Groups : trans_hash'[h] = o ]_vars
=============================================================================
