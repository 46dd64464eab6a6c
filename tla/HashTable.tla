----------------------------- MODULE HashTable -----------------------------
(***************************************************************************)
(* hash.c: an array of buckets, each the head of a chain of elements.  The *)
(* table stands for both tables of the daemon: orig_hash, which            *)
(* get_orig_node enlarges and purge_orig empties while it iterates, and    *)
(* trans_hash, which uses hash_add and hash_remove.                        *)
(*                                                                         *)
(* A chain is the sequence of its keys.  The iterator remembers an element,*)
(* its predecessor and whether it is the head of its chain, and finds out  *)
(* by these whether the element was removed in between: it is freed then   *)
(* and must not be read.                                                   *)
(***************************************************************************)
EXTENDS Integers, SequencesExt

CONSTANTS
    Keys,      \* MAC addresses
    Hash,      \* the hash function before the modulo of choose_orig
    InitSize,  \* size given to hash_new: 128 and 4096
    NULL

ASSUME HashAssumption ==
    /\ Hash \in [Keys -> Nat]
    /\ InitSize \in Nat \ {0}
    /\ NULL \notin Keys

VARIABLES
    size,      \* hash->size, 0 once the table is deleted
    table,     \* hash->table: chains
    elements,  \* hash->elements
    it,        \* the hash_it_t of the iteration under way, or NULL
    todo       \* ghost: keys the iteration has still to visit

vars == <<size, table, elements, it, todo>>

Iterator == [index : Nat, bucket : Keys, prev_bucket : Keys \cup {NULL}, first_bucket : BOOLEAN]

choose_orig(k, n) == Hash[k] % n

\* hash_find
Found(k) == size > 0 /\ k \in ToSet(table[choose_orig(k, size)])

Init ==
    /\ size = InitSize
    /\ table = [i \in 0..(InitSize - 1) |-> <<>>]
    /\ elements = 0
    /\ it = NULL
    /\ todo = {}

-----------------------------------------------------------------------------
(* Changing the table *)

\* All keys in the order of the table.
AllKeys(tab, n) == FlattenSeq([i \in 1..n |-> tab[i - 1]])

\* hash_add for a key that is not in the table.
Added(k) == [table EXCEPT ![choose_orig(k, size)] = Append(@, k)]

\* Mutant of Resized: keys keep the bucket they had.
Resized_keeps_index(tab, n, new) == [i \in 0..(new - 1) |-> IF i < n THEN tab[i] ELSE <<>>]

\* hash_resize: every key is added to the new table.
Resized(tab, n, new) ==
    [i \in 0..(new - 1) |-> SelectSeq(AllKeys(tab, n), LAMBDA k : choose_orig(k, new) = i)]

\* A new entry of trans_hash, which is never enlarged.
hash_add(k) ==
    /\ it = NULL /\ size > 0
    /\ ~ Found(k)
    /\ table' = Added(k)
    /\ elements' = elements + 1
    /\ UNCHANGED <<size, it, todo>>

\* A new entry of orig_hash, which doubles when it is a quarter full.
get_orig_node(k) ==
    /\ it = NULL /\ size > 0
    /\ ~ Found(k)
    /\ elements' = elements + 1
    /\ IF elements' * 4 > size
       THEN size' = size * 2 /\ table' = Resized(Added(k), size, size * 2)
       ELSE size' = size /\ table' = Added(k)
    /\ UNCHANGED <<it, todo>>

\* hash_remove
hash_remove(k) ==
    /\ it = NULL
    /\ Found(k)
    /\ table' = [table EXCEPT ![choose_orig(k, size)] = SelectSeq(@, LAMBDA j : j # k)]
    /\ elements' = elements - 1
    /\ UNCHANGED <<size, it, todo>>

\* hash_delete and hash_destroy: the end of the table.
hash_delete ==
    /\ it = NULL /\ size > 0
    /\ size' = 0
    /\ table' = <<>>
    /\ elements' = 0
    /\ UNCHANGED <<it, todo>>

-----------------------------------------------------------------------------
(* Iterating *)

Position(chain, k) == CHOOSE p \in DOMAIN chain : chain[p] = k

\* k->next
NextOf(chain, k) ==
    LET p == Position(chain, k)
    IN  IF p < Len(chain) THEN chain[p + 1] ELSE NULL

\* The first element at index i or beyond.
SearchFrom(i) ==
    LET filled == {j \in i..(size - 1) : table[j] # <<>>}
        j      == CHOOSE j \in filled : \A m \in filled : j <= m
    IN  IF filled = {} THEN NULL
        ELSE [index |-> j, bucket |-> Head(table[j]), prev_bucket |-> NULL, first_bucket |-> TRUE]

\* Mutant of Advance: a head that was removed is not noticed if others follow.
Advance_skips_new_head ==
    LET chain == table[it.index]
        gone  == it.first_bucket /\ (chain = <<>> \/ Head(chain) # it.bucket)
        from  == IF ~ it.first_bucket /\ it.prev_bucket # NULL /\ NextOf(chain, it.prev_bucket) # it.bucket
                 THEN it.prev_bucket ELSE it.bucket
    IN  IF ~ gone /\ NextOf(chain, from) # NULL
        THEN [index |-> it.index, bucket |-> NextOf(chain, from), prev_bucket |-> from,
              first_bucket |-> FALSE]
        ELSE SearchFrom(it.index + 1)

\* hash_iterate with an iterator: what it returns.  If the element was the
\* head and is gone, the new head comes next; if it was another one and is
\* gone, its predecessor's follower does.
Advance ==
    LET chain == table[it.index]
        gone  == it.first_bucket /\ (chain = <<>> \/ Head(chain) # it.bucket)
        from  == IF ~ it.first_bucket /\ it.prev_bucket # NULL /\ NextOf(chain, it.prev_bucket) # it.bucket
                 THEN it.prev_bucket ELSE it.bucket
    IN  IF gone /\ chain # <<>>
        THEN [it EXCEPT !.prev_bucket = NULL, !.bucket = Head(chain)]
        ELSE IF ~ gone /\ NextOf(chain, from) # NULL
        THEN [index |-> it.index, bucket |-> NextOf(chain, from), prev_bucket |-> from,
              first_bucket |-> FALSE]
        ELSE SearchFrom(it.index + 1)

\* hash_iterate: the callers of an iteration change the table by
\* hash_remove_bucket only.
hash_iterate ==
    LET left == IF it = NULL THEN {k \in Keys : Found(k)} ELSE todo
    IN  /\ size > 0
        /\ it' = IF it = NULL THEN SearchFrom(0) ELSE Advance
        /\ todo' = IF it' = NULL THEN left ELSE left \ {it'.bucket}
        /\ UNCHANGED <<size, table, elements>>

\* The chain without the iterator's element: the predecessor, or the head
\* pointer, now points behind it.
Unlinked(chain) ==
    LET p == IF it.prev_bucket = NULL THEN 0 ELSE Position(chain, it.prev_bucket)
        q == Position(chain, it.bucket)
    IN  SubSeq(chain, 1, p) \o SubSeq(chain, q + 1, Len(chain))

\* hash_remove_bucket, for the element the iterator is at.
hash_remove_bucket ==
    /\ it # NULL
    /\ Found(it.bucket)
    /\ table' = [table EXCEPT ![it.index] = Unlinked(@)]
    /\ elements' = elements - 1
    /\ UNCHANGED <<size, it, todo>>

Next ==
    \/ \E k \in Keys : hash_add(k) \/ get_orig_node(k) \/ hash_remove(k)
    \/ hash_delete
    \/ hash_iterate
    \/ hash_remove_bucket

\* Every loop over the table calls hash_iterate until it returns NULL.
Spec == Init /\ [][Next]_vars /\ WF_vars(it # NULL /\ hash_iterate)

-----------------------------------------------------------------------------
(* Properties *)

TypeOK ==
    /\ size \in Nat
    /\ table \in [0..(size - 1) -> Seq(Keys)]
    /\ elements \in 0..Cardinality(Keys)
    /\ it \in Iterator \cup {NULL}
    /\ todo \subseteq Keys

\* hash->elements, which decides when the table grows, counts the elements,
\* and every element is in the chain its key chooses, once.
ChainsAreRight ==
    /\ TypeOK
    /\ size > 0 =>
        /\ elements = Len(AllKeys(table, size))
        /\ IsInjective(AllKeys(table, size))
        /\ \A i \in 0..(size - 1) : \A k \in ToSet(table[i]) : choose_orig(k, size) = i

\* The table implements a set: adding, removing and growing change what is
\* found as they should, and an iteration visits every element once, whatever
\* it removes on its way.
Set == INSTANCE HashSet WITH
    elems   <- {k \in Keys : Found(k)},
    current <- IF it = NULL THEN NULL ELSE it.bucket
ImplementsSet == Set!SSpec
=============================================================================
