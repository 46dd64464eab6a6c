----------------------------- MODULE ListBatman -----------------------------
(***************************************************************************)
(* list-batman.c: a list is a ring of cells with one pointer each.  Its    *)
(* head also knows the last cell; a cell does not know the one before it,  *)
(* so whoever deletes one has to say which that is.                        *)
(*                                                                         *)
(* A list is a record: next, the pointer of every cell and of the head,    *)
(* and prev, the head's pointer to the last cell.                          *)
(***************************************************************************)
EXTENDS Integers, SequencesExt

CONSTANTS
    Cells,  \* the memory of the elements
    Head0,  \* the address of the list head
    NULL

ASSUME ListAssumption == IsFiniteSet(Cells) /\ Head0 \notin Cells /\ NULL \notin Cells \cup {Head0}

Lists == [next : [Cells \cup {Head0} -> Cells \cup {Head0, NULL}], prev : Cells \cup {Head0}]

\* INIT_LIST_HEAD_FIRST; the pointers of cells that are not allocated are
\* not looked at.
EmptyList == [next |-> [c \in Cells \cup {Head0} |-> IF c = Head0 THEN Head0 ELSE NULL], prev |-> Head0]

list_add_tail(l, new) ==
    [next |-> [l.next EXCEPT ![new] = Head0, ![l.prev] = new], prev |-> new]

list_del(l, prev_entry, entry) ==
    [next |-> [l.next EXCEPT ![prev_entry] = l.next[entry], ![entry] = NULL],
     prev |-> IF l.prev = entry THEN prev_entry ELSE l.prev]

\* The cells list_for_each visits, at most as many as there are.
Elements(l) ==
    LET walk[k \in 0..Cardinality(Cells)] ==
            IF k = 0 THEN <<>>
            ELSE LET s == walk[k - 1]
                     c == l.next[IF s = <<>> THEN Head0 ELSE Last(s)]
                 IN  IF c \in Cells THEN Append(s, c) ELSE s
    IN  walk[Cardinality(Cells)]

\* A list in order: its walk ends at the head, and the head knows its last
\* cell.
InOrder(l) ==
    LET s == Elements(l)
        last == IF s = <<>> THEN Head0 ELSE Last(s)
    IN  IsInjective(s) /\ l.next[last] = Head0 /\ l.prev = last
=============================================================================
