-------------------------- MODULE TransTableProof --------------------------
(***************************************************************************)
(* The translation table is consistent, for any hosts, originators and     *)
(* announcements.  The properties TransTable states carry each other: that *)
(* an originator without a buffer lists no host (ListedWereAnnounced) is   *)
(* what keeps OwnersExist when it is purged, and ListsMatchTable is what   *)
(* makes deleting the hosts of a list delete all hosts of an owner.        *)
(***************************************************************************)
EXTENDS TransTable, FiniteSetTheorems, TLAPS

Inv ==
    /\ TypeOK
    /\ ListsMatchTable
    /\ OwnersExist
    /\ AnnouncementIsCurrent
    /\ ListedWereAnnounced

\* The hosts of an announcement are hosts.
LEMMA AnnouncedAreHosts ==
    ASSUME NEW recv \in Announcements
    PROVE  ToSet(recv) \subseteq Hosts
  BY TransAssumption DEF ToSet

\* hna_add_buff, after deleting gone, leaves a consistent table in which the
\* hosts of o are those of the announcement and those kept.
LEMMA AddBuffKeeps ==
    ASSUME TypeOK, ListsMatchTable, AnnouncementIsCurrent,
           NEW o \in Origs,
           NEW announcement, ToSet(announcement) \subseteq Hosts,
           NEW gone, gone = {} \/ gone = orig_list[o],
           hna_add_buff(o, announcement, gone),
           UNCHANGED local
    PROVE  /\ trans_hash' \in [Hosts -> Origs \cup {Me, NoOwner}]
           /\ age' \in [Hosts -> 0..MaxTime]
           /\ hna_list' \subseteq Hosts
           /\ hna_changed' \in BOOLEAN
           /\ orig_list' \in [Origs -> SUBSET Hosts]
           /\ ListsMatchTable'
           /\ ~ hna_changed' => hna_buff' = hna_list'
           /\ orig_list'[o] = (orig_list[o] \ gone) \cup (ToSet(announcement) \ Groups)
           /\ \A p \in Origs \ {o} : orig_list'[p] \subseteq orig_list[p]
           /\ \A h \in Hosts : trans_hash'[h] \in {trans_hash[h], NoOwner, o}
  <1> DEFINE new == ToSet(announcement) \ Groups
  <1> new \subseteq Hosts
    OBVIOUS
  <1>0. /\ trans_hash' = [h \in Hosts |-> IF h \in new THEN o ELSE
                            IF h \in gone THEN NoOwner ELSE trans_hash[h]]
        /\ orig_list' = [p \in Origs |-> IF p = o THEN (orig_list[o] \ gone) \cup new
                                         ELSE orig_list[p] \ new]
        /\ hna_list' = hna_list \ new
        /\ hna_changed' = (hna_changed \/ \E h \in new :
                              (IF h \in gone THEN NoOwner ELSE trans_hash[h]) = Me)
    BY DEF hna_add_buff
  <1>1. gone \subseteq Hosts /\ \A h \in gone : trans_hash[h] = o
    BY DEF TypeOK, ListsMatchTable
  <1>2. trans_hash' \in [Hosts -> Origs \cup {Me, NoOwner}]
    BY <1>0 DEF TypeOK
  <1>3. age' \in [Hosts -> 0..MaxTime]
    BY DEF TypeOK, hna_add_buff
  <1>4. hna_list' \subseteq Hosts /\ hna_changed' \in BOOLEAN
    BY <1>0 DEF TypeOK
  <1>5. orig_list' \in [Origs -> SUBSET Hosts]
    BY <1>0 DEF TypeOK
  <1>6. ListsMatchTable'
    <2>1. \A h \in Hosts : h \in hna_list' <=> trans_hash'[h] = Me
      BY <1>0, <1>1, TransAssumption DEF ListsMatchTable, TypeOK
    <2>2. \A h \in Hosts, p \in Origs : h \in orig_list'[p] <=> trans_hash'[h] = p
      BY <1>0, <1>1, TransAssumption DEF ListsMatchTable, TypeOK
    <2> QED BY <2>1, <2>2 DEF ListsMatchTable
  <1>7. ~ hna_changed' => hna_buff' = hna_list'
    <2> SUFFICES ASSUME ~ hna_changed' PROVE hna_buff = hna_list'
      BY DEF local
    <2>1. ~ hna_changed
      BY <1>0, Zenon
    <2>2. \A h \in new : (IF h \in gone THEN NoOwner ELSE trans_hash[h]) # Me
      BY <1>0, Zenon
    <2>3. \A h \in new : h \notin hna_list
      BY <2>2, <1>1, TransAssumption DEF ListsMatchTable
    <2> QED BY <1>0, <2>1, <2>3 DEF AnnouncementIsCurrent
  <1>8. orig_list'[o] = (orig_list[o] \ gone) \cup new
    BY <1>0
  <1>9. \A p \in Origs \ {o} : orig_list'[p] \subseteq orig_list[p]
    BY <1>0
  <1>10. \A h \in Hosts : trans_hash'[h] \in {trans_hash[h], NoOwner, o}
    BY <1>0
  <1> QED
    BY <1>2, <1>3, <1>4, <1>5, <1>6, <1>7, <1>8, <1>9, <1>10

\* transtable_init leaves a consistent table.
LEMMA InitInv == Init => Inv
  <1> SUFFICES ASSUME Init PROVE Inv
    OBVIOUS
  <1>1. TypeOK
    BY TransAssumption DEF Init, TypeOK
  <1>2. ListsMatchTable /\ OwnersExist
    BY TransAssumption DEF Init, ListsMatchTable, OwnersExist
  <1>3. AnnouncementIsCurrent /\ ListedWereAnnounced
    BY DEF Init, AnnouncementIsCurrent, ListedWereAnnounced
  <1> QED BY <1>1, <1>2, <1>3 DEF Inv

\* A frame from the tap device keeps the table consistent: a host that moved
\* to us leaves the list of the originator it was behind.
LEMMA TapFrameKeeps ==
    ASSUME Inv, NEW h \in Hosts, TapFrame(h)
    PROVE  Inv'
  <1> USE DEF Inv
  <1>0. UNCHANGED <<pc, curr_time, local, orig_hash, orig_buff>> /\ hna_add(h)
    BY DEF TapFrame
  <1>1. CASE trans_hash[h] = Me
    <2>1. age' = [age EXCEPT ![h] = curr_time]
          /\ UNCHANGED <<trans_hash, hna_list, hna_changed, orig_list>>
      BY <1>0, <1>1 DEF hna_add
    <2> QED
      BY <1>0, <2>1 DEF TypeOK, ListsMatchTable, OwnersExist, AnnouncementIsCurrent,
                        ListedWereAnnounced, local
  <1>2. CASE trans_hash[h] # Me /\ h \in Groups
    <2>1. /\ orig_list' = [o \in Origs |-> orig_list[o] \ {h}]
          /\ trans_hash' = [trans_hash EXCEPT ![h] = NoOwner]
          /\ UNCHANGED <<age, hna_list, hna_changed>>
      BY <1>0, <1>2 DEF hna_add
    <2>2. TypeOK'
      BY <1>0, <2>1 DEF TypeOK, local
    <2>3. ListsMatchTable'
      BY <1>2, <2>1, TransAssumption DEF TypeOK, ListsMatchTable
    <2>4. OwnersExist'
      BY <1>0, <2>1, TransAssumption DEF TypeOK, OwnersExist
    <2>5. AnnouncementIsCurrent' /\ ListedWereAnnounced'
      BY <1>0, <2>1 DEF AnnouncementIsCurrent, ListedWereAnnounced, local
    <2> QED BY <2>2, <2>3, <2>4, <2>5
  <1>3. CASE trans_hash[h] # Me /\ h \notin Groups
    <2>1. /\ orig_list' = [o \in Origs |-> orig_list[o] \ {h}]
          /\ trans_hash' = [trans_hash EXCEPT ![h] = Me]
          /\ age' = [age EXCEPT ![h] = curr_time]
          /\ hna_list' = hna_list \cup {h}
          /\ hna_changed' = TRUE
      BY <1>0, <1>3 DEF hna_add
    <2>2. TypeOK'
      BY <1>0, <2>1 DEF TypeOK, local
    <2>3. ListsMatchTable'
      BY <1>3, <2>1, TransAssumption DEF TypeOK, ListsMatchTable
    <2>4. OwnersExist'
      BY <1>0, <2>1, TransAssumption DEF TypeOK, OwnersExist
    <2>5. AnnouncementIsCurrent' /\ ListedWereAnnounced'
      BY <1>0, <2>1, TapFrame(h) DEF TapFrame, AnnouncementIsCurrent, ListedWereAnnounced, local
    <2> QED BY <2>2, <2>3, <2>4, <2>5
  <1> QED BY <1>1, <1>2, <1>3

\* update_routes with a new host list for o: what both its callers need.
LEMMA NewBuffKeeps ==
    ASSUME Inv, NEW o \in Origs, NEW recv \in Announcements,
           NEW gone, gone = orig_list[o] \/ (gone = {} /\ orig_list[o] = {}),
           hna_add_buff(o, recv, gone),
           orig_buff' = [orig_buff EXCEPT ![o] = recv],
           UNCHANGED <<curr_time, local>>,
           pc' \in {"receive", "update", "purge"},
           orig_hash' \subseteq Origs,
           orig_hash \cup {o} \subseteq orig_hash'
    PROVE  Inv'
  <1> USE DEF Inv
  <1>1. ToSet(recv) \subseteq Hosts
    BY AnnouncedAreHosts
  <1>2. /\ trans_hash' \in [Hosts -> Origs \cup {Me, NoOwner}]
        /\ age' \in [Hosts -> 0..MaxTime]
        /\ hna_list' \subseteq Hosts
        /\ hna_changed' \in BOOLEAN
        /\ orig_list' \in [Origs -> SUBSET Hosts]
        /\ ListsMatchTable'
        /\ ~ hna_changed' => hna_buff' = hna_list'
        /\ orig_list'[o] = (orig_list[o] \ gone) \cup (ToSet(recv) \ Groups)
        /\ \A p \in Origs \ {o} : orig_list'[p] \subseteq orig_list[p]
        /\ \A h \in Hosts : trans_hash'[h] \in {trans_hash[h], NoOwner, o}
    BY <1>1, AddBuffKeeps DEF Inv
  <1>3. TypeOK'
    BY <1>2 DEF TypeOK, local
  <1>4. OwnersExist'
    BY <1>2, TransAssumption DEF OwnersExist
  <1>5. AnnouncementIsCurrent'
    BY <1>2 DEF AnnouncementIsCurrent
  <1>6. ListedWereAnnounced'
    <2> SUFFICES ASSUME NEW p \in Origs
                 PROVE  orig_list'[p] \subseteq
                          (IF orig_buff'[p] = NoBuff THEN {} ELSE ToSet(orig_buff'[p]))
      BY DEF ListedWereAnnounced
    <2>1. CASE p = o
      <3>1. orig_list'[o] \subseteq ToSet(recv)
        BY <1>2
      <3>2. orig_buff'[o] = recv /\ recv # NoBuff
        BY TransAssumption DEF TypeOK
      <3> QED BY <2>1, <3>1, <3>2
    <2>2. CASE p # o
      BY <1>2, <2>2 DEF ListedWereAnnounced, TypeOK
    <2> QED BY <2>1, <2>2
  <1> QED BY <1>2, <1>3, <1>4, <1>5, <1>6

\* Every step of the main loop keeps the invariant.
LEMMA NextInv == Inv /\ [Next]_vars => Inv'
  <1> SUFFICES ASSUME Inv, [Next]_vars PROVE Inv'
    OBVIOUS
  <1> USE DEF Inv
  <1>1. CASE UNCHANGED vars
    BY <1>1 DEF vars, table, local, TypeOK, ListsMatchTable, OwnersExist,
                AnnouncementIsCurrent, ListedWereAnnounced
  <1>2. ASSUME NEW h \in Hosts, TapFrame(h) PROVE Inv'
    BY <1>2, TapFrameKeeps
  <1>3. ASSUME NEW o \in Origs, NEW via \in Origs, DropOgm(o, via) PROVE Inv'
    BY <1>3 DEF DropOgm, table, local, TypeOK, ListsMatchTable, OwnersExist,
                AnnouncementIsCurrent, ListedWereAnnounced
  <1>4. ASSUME NEW o \in Origs, NEW via \in Origs, NEW recv \in Announcements,
               AcceptOgm(o, via, recv)
        PROVE  Inv'
    <2>0. /\ pc' = "update" /\ UNCHANGED <<curr_time, local>>
          /\ orig_hash' = orig_hash \cup {o, via}
          /\ orig_hash' \subseteq Origs
          /\ update_routes(o, recv)
      BY <1>4 DEF AcceptOgm, TypeOK
    <2>1. CASE orig_buff[o] = NoBuff
      <3>1. orig_list[o] = {}
        BY <2>1 DEF ListedWereAnnounced
      <3>2. hna_add_buff(o, recv, {}) /\ orig_buff' = [orig_buff EXCEPT ![o] = recv]
        BY <2>0, <2>1 DEF update_routes
      <3> QED BY <2>0, <3>1, <3>2, NewBuffKeeps
    <2>2. CASE orig_buff[o] # NoBuff /\ (Len(recv) # Len(orig_buff[o]) \/ recv = orig_buff[o])
      <3>1. hna_add_buff(o, recv, orig_list[o]) /\ orig_buff' = [orig_buff EXCEPT ![o] = recv]
        BY <2>0, <2>2 DEF update_routes
      <3> QED BY <2>0, <3>1, NewBuffKeeps
    <2>3. CASE orig_buff[o] # NoBuff /\ ~ (Len(recv) # Len(orig_buff[o]) \/ recv = orig_buff[o])
      <3>1. UNCHANGED <<table, orig_buff>>
        BY <2>0, <2>3 DEF update_routes
      <3> QED
        BY <2>0, <3>1 DEF table, local, TypeOK, ListsMatchTable, OwnersExist,
                          AnnouncementIsCurrent, ListedWereAnnounced
    <2> QED BY <2>1, <2>2, <2>3
  <1>5. CASE ReceiveNothing
    BY <1>5 DEF ReceiveNothing, table, local, TypeOK, ListsMatchTable, OwnersExist,
                AnnouncementIsCurrent, ListedWereAnnounced
  <1>6. CASE hna_update
    <2> DEFINE old == {h \in hna_list : curr_time - age[h] > MaxAge /\ h # Primary}
               n == Cardinality(hna_list \ old)
    <2>0. /\ pc' = "send"
          /\ trans_hash' = [h \in Hosts |-> IF h \in old THEN NoOwner ELSE trans_hash[h]]
          /\ hna_list' = hna_list \ old
          /\ hna_changed' = FALSE
          /\ IF hna_changed \/ old # {}
             THEN hna_buff' = hna_list \ old /\ num_hna' = IF n > MaxHna THEN MaxHna ELSE n
             ELSE UNCHANGED local
          /\ UNCHANGED <<curr_time, age, orig_list, orig_hash, orig_buff>>
      BY <1>6 DEF hna_update
    <2>1. n \in Nat
      <3>1. IsFiniteSet(hna_list \ old)
        BY FS_Subset, TransAssumption DEF TypeOK
      <3> QED BY <3>1, FS_CardinalityType
    <2> HIDE DEF n
    <2>2. old \subseteq hna_list
      OBVIOUS
    <2> HIDE DEF old
    <2>3. hna_buff' = hna_list'
      BY <2>0, <2>2 DEF AnnouncementIsCurrent, local
    <2>4. num_hna' \in 0..MaxHna
      BY <2>0, <2>1, TransAssumption DEF TypeOK, local
    <2>5. TypeOK'
      BY <2>0, <2>3, <2>4 DEF TypeOK
    <2>6. ListsMatchTable'
      BY <2>0, <2>2, TransAssumption DEF ListsMatchTable, TypeOK
    <2>7. OwnersExist'
      BY <2>0, TransAssumption DEF OwnersExist, TypeOK
    <2>8. AnnouncementIsCurrent' /\ ListedWereAnnounced'
      BY <2>0, <2>3 DEF AnnouncementIsCurrent, ListedWereAnnounced
    <2> QED BY <2>5, <2>6, <2>7, <2>8
  <1>7. CASE SendOutstanding
    BY <1>7 DEF SendOutstanding, table, local, TypeOK, ListsMatchTable, OwnersExist,
                AnnouncementIsCurrent, ListedWereAnnounced
  <1>8. ASSUME NEW o \in Origs, PurgeOrig(o) PROVE Inv'
    <2>0. /\ pc' = "purge" /\ UNCHANGED <<curr_time, local>>
          /\ orig_hash' = orig_hash \ {o}
      BY <1>8 DEF PurgeOrig
    <2>1. CASE orig_buff[o] = NoBuff
      <3>1. UNCHANGED <<table, orig_buff>>
        BY <1>8, <2>1 DEF PurgeOrig
      <3>2. orig_list[o] = {}
        BY <2>1 DEF ListedWereAnnounced
      <3>3. OwnersExist'
        BY <2>0, <3>1, <3>2 DEF table, OwnersExist, ListsMatchTable
      <3> QED
        BY <2>0, <3>1, <3>3 DEF table, local, TypeOK, ListsMatchTable,
                                AnnouncementIsCurrent, ListedWereAnnounced
    <2>2. CASE orig_buff[o] # NoBuff
      <3>1. hna_add_buff(o, <<>>, orig_list[o]) /\ orig_buff' = [orig_buff EXCEPT ![o] = NoBuff]
        BY <1>8, <2>2 DEF PurgeOrig
      <3>2. ToSet(<<>>) = {}
        BY DEF ToSet
      <3>3. /\ trans_hash' \in [Hosts -> Origs \cup {Me, NoOwner}]
            /\ age' \in [Hosts -> 0..MaxTime]
            /\ hna_list' \subseteq Hosts
            /\ hna_changed' \in BOOLEAN
            /\ orig_list' \in [Origs -> SUBSET Hosts]
            /\ ListsMatchTable'
            /\ ~ hna_changed' => hna_buff' = hna_list'
            /\ orig_list'[o] = (orig_list[o] \ orig_list[o]) \cup (ToSet(<<>>) \ Groups)
            /\ \A p \in Origs \ {o} : orig_list'[p] \subseteq orig_list[p]
            /\ \A h \in Hosts : trans_hash'[h] \in {trans_hash[h], NoOwner, o}
        <4>1. ToSet(<<>>) \subseteq Hosts
          BY <3>2
        <4> QED BY <2>0, <3>1, <4>1, AddBuffKeeps
      <3>4. orig_list'[o] = {}
        BY <3>2, <3>3
      <3>5. TypeOK'
        BY <2>0, <3>1, <3>3 DEF TypeOK, local
      <3>6. OwnersExist'
        BY <2>0, <3>3, <3>4, TransAssumption DEF OwnersExist, ListsMatchTable
      <3>7. AnnouncementIsCurrent'
        BY <2>0, <3>3 DEF AnnouncementIsCurrent
      <3>8. ListedWereAnnounced'
        BY <3>1, <3>3, <3>4 DEF ListedWereAnnounced, TypeOK
      <3> QED BY <3>3, <3>5, <3>6, <3>7, <3>8
    <2> QED BY <2>1, <2>2
  <1>9. ASSUME NEW o \in Origs, PurgeNeighbour(o) PROVE Inv'
    <2>1. PICK copy \in Announcements :
            /\ hna_add_buff(o, copy, orig_list[o])
            /\ orig_buff' = [orig_buff EXCEPT ![o] = copy]
      BY <1>9 DEF PurgeNeighbour
    <2>2. /\ pc' = "purge" /\ UNCHANGED <<curr_time, local>>
          /\ orig_hash' = orig_hash /\ o \in orig_hash /\ orig_hash \subseteq Origs
      BY <1>9 DEF PurgeNeighbour, TypeOK
    <2> QED BY <2>1, <2>2, NewBuffKeeps
  <1>10. CASE NextIteration
    BY <1>10 DEF NextIteration, table, local, TypeOK, ListsMatchTable, OwnersExist,
                 AnnouncementIsCurrent, ListedWereAnnounced
  <1> QED
    BY <1>1, <1>2, <1>3, <1>4, <1>5, <1>6, <1>7, <1>8, <1>9, <1>10 DEF Next

\* The translation table and the lists its entries hang on always agree, so
\* no entry is freed while a list still links it and none outlives its list,
\* whatever hosts roam and whatever originators announce them.
THEOREM TableConsistent == Spec => []ListsMatchTable
  <1>1. Inv => ListsMatchTable
    BY DEF Inv
  <1> QED BY <1>1, InitInv, NextInv, PTL DEF Spec

\* No host is ever routed to an originator that has been purged.
THEOREM NoHostBehindPurged == Spec => []OwnersExist
  <1>1. Inv => OwnersExist
    BY DEF Inv
  <1> QED BY <1>1, InitInv, NextInv, PTL DEF Spec

\* Whenever own messages are sent the announced buffer is the local host list.
THEOREM AnnouncesLocalHosts == Spec => []AnnouncementIsCurrent
  <1>1. Inv => AnnouncementIsCurrent
    BY DEF Inv
  <1> QED BY <1>1, InitInv, NextInv, PTL DEF Spec

\* An originator whose announcement buffer is empty has no host on its list:
\* what hna_del_buff frees is everything the table holds for it.
THEOREM ListsFollowAnnouncements == Spec => []ListedWereAnnounced
  <1>1. Inv => ListedWereAnnounced
    BY DEF Inv
  <1> QED BY <1>1, InitInv, NextInv, PTL DEF Spec

\* The tables, lists and buffers of the translation table have their types.
THEOREM TableTypes == Spec => []TypeOK
  <1>1. Inv => TypeOK
    BY DEF Inv
  <1> QED BY <1>1, InitInv, NextInv, PTL DEF Spec
=============================================================================
