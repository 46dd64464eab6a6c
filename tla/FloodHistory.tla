---------------------------- MODULE FloodHistory ----------------------------
(***************************************************************************)
(* The flood history of one originator: the BAT_BCAST branch of            *)
(* receive_packet_batiface with the orig_node fields seq_bits and          *)
(* last_bcast_seqno.  The originator numbers its broadcasts 1, 2, 3, ...   *)
(* and sends each number modulo 2^16; copies reach this node over several  *)
(* neighbours, so they arrive duplicated, out of order and with gaps.      *)
(***************************************************************************)
EXTENDS SlidingWindow

CONSTANTS
    MaxSeq,   \* bound: the broadcasts of one run are numbered 1..MaxSeq
    Gaps      \* how far from the newest broadcast an arriving copy may lie

ASSUME FloodAssumption == MaxSeq \in Nat /\ Gaps \subseteq Int

VARIABLES
    bits,       \* orig_node->seq_bits
    last,       \* orig_node->last_bcast_seqno
    newest,     \* ghost: the newest broadcast that has arrived
    tap,        \* ghost: how often each broadcast was written to the tap device
    lost        \* ghost: broadcasts dropped as duplicates before any delivery

vars == <<bits, last, newest, tap, lost>>

Broadcasts == 1..MaxSeq

Seqno(n) == n % SeqSpace

TypeOK ==
    /\ bits \subseteq Offsets
    /\ last \in SeqNos
    /\ newest \in 0..MaxSeq
    /\ tap \in [Broadcasts -> Nat]
    /\ lost \subseteq Broadcasts

\* get_orig_node clears the whole structure.
Init ==
    /\ bits = {}
    /\ last = 0
    /\ newest = 0
    /\ tap = [n \in Broadcasts |-> 0]
    /\ lost = {}

\* A copy the history recognises is ignored.
DropDuplicate(n) ==
    /\ 1 \in get_bit_status(bits, last, Seqno(n))
    /\ lost' = IF tap[n] = 0 THEN lost \cup {n} ELSE lost
    /\ UNCHANGED <<bits, last, tap>>

\* Mutant of Deliver: a late copy moves last_bcast_seqno back.
Deliver_moves_back(n) ==
    /\ 0 \in get_bit_status(bits, last, Seqno(n))
    /\ \E r \in bit_get_packet(bits, Int16(Seqno(n) - last), TRUE) : bits' = r.bits
    /\ last' = Seqno(n)
    /\ tap' = [tap EXCEPT ![n] = @ + 1]
    /\ UNCHANGED lost

\* Any other copy is marked, written to the tap device and rebroadcast.
Deliver(n) ==
    /\ 0 \in get_bit_status(bits, last, Seqno(n))
    /\ \E r \in bit_get_packet(bits, Int16(Seqno(n) - last), TRUE) :
          /\ bits' = r.bits
          /\ last' = IF r.new = 1 THEN Seqno(n) ELSE last
    /\ tap' = [tap EXCEPT ![n] = @ + 1]
    /\ UNCHANGED lost

\* A copy of broadcast n arrives from a neighbour.
Receive(n) ==
    /\ n - newest \in Gaps
    /\ newest' = IF n > newest THEN n ELSE newest
    /\ DropDuplicate(n) \/ Deliver(n)

Next == \E n \in Broadcasts : Receive(n)

Spec == Init /\ [][Next]_vars

-----------------------------------------------------------------------------
(* Properties *)

\* No broadcast is written to the tap device, or flooded on, twice: the flood
\* history recognises every copy that is less than a window late.
DeliveredOnce == \A n \in Broadcasts : tap[n] <= 1

\* The first copy of a broadcast is never taken for a duplicate.
NothingLost == lost = {}

\* The window is the reception record: bit k is set exactly when broadcast
\* newest - k was delivered.
WindowIsHistory ==
    \A k \in Offsets :
        newest - k \in Broadcasts => ((k \in bits) <=> (tap[newest - k] > 0))
=============================================================================
