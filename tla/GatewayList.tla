---------------------------- MODULE GatewayList ----------------------------
(***************************************************************************)
(* gw_list: the originators that announce a gateway class, as              *)
(* update_gw_list and purge_orig keep it.  An entry points to the          *)
(* orig_node; when its originator stops being a gateway, or is purged, the *)
(* entry is only marked as deleted, and freed much later.  Until then the  *)
(* pointer dangles, and the next originator may be allocated at that very  *)
(* address.                                                                *)
(*                                                                         *)
(* Originators and entries are named by the memory they live in.  The list *)
(* is the ring of pointers of ListBatman.                                  *)
(***************************************************************************)
EXTENDS ListBatman

CONSTANTS
    Origs,        \* addresses of originators
    Ptrs,         \* memory for orig_nodes
    Classes,      \* gateway classes, 0 for none
    PurgeTimeout, \* PURGE_TIMEOUT
    Interval,     \* originator_interval
    MaxTime       \* bound on the clock

ASSUME GatewayAssumption ==
    /\ 0 \in Classes /\ NULL \notin Ptrs
    /\ PurgeTimeout \in Nat /\ Interval \in Nat \ {0} /\ MaxTime \in Nat \ {0}

VARIABLES
    now,        \* get_time()
    orig_node,  \* the originator at each address, or NULL
    gw_node,    \* the entry in each cell, or NULL
    gw_list,    \* the list of entries
    ended       \* batman() has returned

vars == <<now, orig_node, gw_node, gw_list, ended>>

OrigNode == [orig : Origs, gwflags : Classes, last_valid : 0..MaxTime]

GwNode == [orig_node : Ptrs, deleted : 0..MaxTime]

ASSUME NodeAssumption == NULL \notin OrigNode \cup GwNode

TypeOK ==
    /\ now \in 1..MaxTime
    /\ orig_node \in [Ptrs -> OrigNode \cup {NULL}]
    /\ gw_node \in [Cells -> GwNode \cup {NULL}]
    /\ gw_list \in Lists
    /\ ended \in BOOLEAN

\* The clock has ticked before the first message comes in: a deletion at
\* time 0 would not count as one.
Init ==
    /\ now = 1
    /\ orig_node = [p \in Ptrs |-> NULL]
    /\ gw_node = [c \in Cells |-> NULL]
    /\ gw_list = EmptyList
    /\ ended = FALSE

-----------------------------------------------------------------------------
(* Messages of originators *)

\* Where get_orig_node finds the originator, or may allocate it.
Places(o) ==
    LET old == {p \in Ptrs : orig_node[p] # NULL /\ orig_node[p].orig = o}
    IN  IF old # {} THEN old ELSE {p \in Ptrs : orig_node[p] = NULL}

get_orig_node(o, p) ==
    IF orig_node[p] # NULL THEN orig_node[p] ELSE [orig |-> o, gwflags |-> 0, last_valid |-> 0]

\* Mutant of EntryOf: entries marked as deleted are passed over.
EntryOf_undeleted(p) ==
    {c \in ToSet(Elements(gw_list)) : gw_node[c].orig_node = p /\ gw_node[c].deleted = 0}

\* The entries update_gw_list may find.
EntryOf(p) == {c \in ToSet(Elements(gw_list)) : gw_node[c].orig_node = p}

\* It takes the first.
FirstEntryOf(p) ==
    LET cells == Elements(gw_list)
    IN  cells[Min({i \in DOMAIN cells : cells[i] \in EntryOf(p)})]

\* update_gw_list for the originator at p, when its class becomes flags.
update_gw_list(p, flags) ==
    IF EntryOf(p) # {}
    THEN /\ gw_node' = [gw_node EXCEPT ![FirstEntryOf(p)].deleted = IF flags = 0 THEN now ELSE 0]
         /\ UNCHANGED gw_list
    ELSE \E c \in Cells :
            /\ gw_node[c] = NULL
            /\ gw_node' = [gw_node EXCEPT ![c] = [orig_node |-> p, deleted |-> 0]]
            /\ gw_list' = list_add_tail(gw_list, c)

\* A message that is accepted: update_orig.
AcceptOgm(o, flags) ==
    /\ ~ ended
    /\ \E p \in Places(o) :
          LET node == get_orig_node(o, p)
          IN  /\ orig_node' = [orig_node EXCEPT ![p] = [node EXCEPT !.gwflags = flags, !.last_valid = now]]
              /\ IF node.gwflags # flags THEN update_gw_list(p, flags) ELSE UNCHANGED <<gw_node, gw_list>>
    /\ UNCHANGED <<now, ended>>

\* A message that is counted and does not get as far as update_orig.
DropOgm(o) ==
    /\ ~ ended
    /\ \E p \in Places(o) : \E t \in {get_orig_node(o, p).last_valid, now} :
          orig_node' = [orig_node EXCEPT ![p] = [get_orig_node(o, p) EXCEPT !.last_valid = t]]
    /\ UNCHANGED <<now, gw_node, gw_list, ended>>

-----------------------------------------------------------------------------
(* purge_orig *)

\* The entries after the originators at gone have been freed: the one entry
\* of each that is not yet marked is marked.
Marked(gone) ==
    [c \in Cells |->
        IF gw_node[c] # NULL /\ gw_node[c].deleted = 0 /\ gw_node[c].orig_node \in gone
        THEN [gw_node[c] EXCEPT !.deleted = now] ELSE gw_node[c]]

Expired(gw, c, curr_time) == gw[c].deleted # 0 /\ gw[c].deleted + 3 * PurgeTimeout < curr_time

\* Mutant of Swept: entries are unlinked with the list head as predecessor.
Swept_from_head(gw, curr_time) ==
    LET cells == Elements(gw_list)
        after[k \in 0..Len(cells)] ==
            IF k = 0 THEN gw_list
            ELSE IF Expired(gw, cells[k], curr_time) THEN list_del(after[k - 1], Head0, cells[k])
            ELSE after[k - 1]
    IN  after[Len(cells)]

\* The loop over gw_list that frees entries long deleted, with prev_list_head
\* behind it.
Swept(gw, curr_time) ==
    LET cells == Elements(gw_list)
        after[k \in 0..Len(cells)] ==
            IF k = 0 THEN [list |-> gw_list, prev_list_head |-> Head0]
            ELSE IF Expired(gw, cells[k], curr_time)
            THEN [after[k - 1] EXCEPT !.list = list_del(@, after[k - 1].prev_list_head, cells[k])]
            ELSE [after[k - 1] EXCEPT !.prev_list_head = cells[k]]
    IN  after[Len(cells)].list

purge_orig(curr_time) ==
    LET gone == {p \in Ptrs : orig_node[p] # NULL /\ orig_node[p].last_valid + PurgeTimeout < curr_time}
        gw   == Marked(gone)
    IN  /\ orig_node' = [p \in Ptrs |-> IF p \in gone THEN NULL ELSE orig_node[p]]
        /\ gw_list' = Swept(gw, curr_time)
        /\ gw_node' = [c \in Cells |-> IF c \in ToSet(Elements(gw_list)) /\ Expired(gw, c, curr_time)
                                       THEN NULL ELSE gw[c]]

\* Once a second.
Purge ==
    /\ ~ ended
    /\ purge_orig(now)
    /\ UNCHANGED <<now, ended>>

\* Mutant of LastPurge: the time is moved on by one timeout only.
LastPurge_soon ==
    /\ ~ ended
    /\ purge_orig(now + PurgeTimeout + Interval)
    /\ ended' = TRUE
    /\ UNCHANGED now

\* The end of batman().
LastPurge ==
    /\ ~ ended
    /\ purge_orig(now + 5 * PurgeTimeout + Interval)
    /\ ended' = TRUE
    /\ UNCHANGED now

Tick ==
    /\ now < MaxTime
    /\ now' = now + 1
    /\ UNCHANGED <<orig_node, gw_node, gw_list, ended>>

Next ==
    \/ \E o \in Origs : DropOgm(o) \/ \E flags \in Classes : AcceptOgm(o, flags)
    \/ Purge
    \/ LastPurge
    \/ Tick

Spec == Init /\ [][Next]_vars

-----------------------------------------------------------------------------
(* Properties *)

Allocated == {c \in Cells : gw_node[c] # NULL}

\* The list holds every entry that is allocated, once, and its head knows the
\* last one: no entry is lost when others are freed on the way, and none is
\* reached after it was freed.
ListIsWhole ==
    /\ TypeOK
    /\ InOrder(gw_list)
    /\ ToSet(Elements(gw_list)) = Allocated

\* The gateways in the list are the originators that announce a class: each
\* has one entry that is not marked, an entry that is not marked never
\* points to an originator that was freed or is no gateway, and no originator
\* has two entries, although deleted entries keep pointing to memory that
\* other originators get.
GatewaysListed ==
    /\ \A c \in Allocated : gw_node[c].deleted = 0 =>
          orig_node[gw_node[c].orig_node] # NULL /\ orig_node[gw_node[c].orig_node].gwflags # 0
    /\ \A p \in Ptrs : orig_node[p] # NULL /\ orig_node[p].gwflags # 0 =>
          \E c \in Allocated : gw_node[c].orig_node = p /\ gw_node[c].deleted = 0
    /\ \A c, d \in Allocated : gw_node[c].orig_node = gw_node[d].orig_node => c = d

\* The last purge leaves nothing behind, whatever was deleted just before.
NothingLeft == ended => Allocated = {} /\ \A p \in Ptrs : orig_node[p] = NULL
=============================================================================
