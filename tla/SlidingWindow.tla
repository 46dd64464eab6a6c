--------------------------- MODULE SlidingWindow ---------------------------
(***************************************************************************)
(* The sliding packet window of bitarray.c, seen from its callers: a       *)
(* window is the set of offsets whose bit is set, offset k standing for    *)
(* the sequence number "newest - k".  The word array behind it is the      *)
(* business of module BitArray.                                            *)
(*                                                                         *)
(* Every operator yields the SET of results the build can produce.  It is  *)
(* a singleton except where bitarray.c reads outside its array, where the  *)
(* result depends on unrelated memory.                                     *)
(***************************************************************************)
EXTENDS Integers

CONSTANTS
    W,        \* TQ_LOCAL_WINDOW_SIZE, the window in sequence numbers
    TopWord,  \* bits in the last word of the array (WORD_BIT_SIZE)
    SeqSpace    \* 2^16 in the code: sequence numbers are uint16_t

ASSUME WindowAssumption ==
    /\ W \in Nat \ {0}
    /\ TopWord \in 1..W
    /\ SeqSpace \in Nat
    /\ SeqSpace > 4 * W

Offsets == 0..(W - 1)

SeqNos == 0..(SeqSpace - 1)

\* The conversion of an int difference of two uint16_t values to int16_t.
Int16(d) ==
    IF 2 * d >= SeqSpace THEN d - SeqSpace
    ELSE IF 2 * d < -SeqSpace THEN d + SeqSpace
    ELSE d

\* The truncated difference decides whether curr is in range, but the word
\* index is computed from the untruncated one: once the numbers have wrapped
\* between the two (last < curr) the index is negative and the bit read is
\* whatever lies in front of the array.
get_bit_status(bits, last, curr) ==
    LET diff == Int16(last - curr)
    IN  IF diff \notin Offsets THEN {0}
        ELSE IF last >= curr THEN (IF diff \in bits THEN {1} ELSE {0})
        ELSE {0, 1}

bit_mark(bits, n) == IF n \in Offsets THEN bits \cup {n} ELSE bits

\* Mutants of bit_shift: bits leave the array; nothing moves.
bit_shift_overflows(bits, n) == IF n <= 0 THEN {bits} ELSE { {k + n : k \in bits} }

bit_shift_forgotten(bits, n) == {bits}

\* A shift by exactly the window size copies seq_bits[-1] into the last word.
bit_shift(bits, n) ==
    IF n <= 0 THEN {bits}
    ELSE IF n < W THEN { {k \in Offsets : k - n \in bits} }
    ELSE SUBSET ((W - TopWord)..(W - 1))

\* Mutant of bit_get_packet: a late number marks the bit next to its own.
bit_get_packet_late_off_by_one(bits, diff, set_mark) ==
    IF -W <= diff /\ diff < 0
    THEN { [bits |-> IF set_mark THEN bit_mark(bits, -diff - 1) ELSE bits, new |-> 0] }
    ELSE { [bits |-> IF set_mark THEN bit_mark(b, 0) ELSE b, new |-> 1] :
              b \in IF diff > W \/ diff < -W THEN {{}} ELSE bit_shift(bits, diff) }

\* The results of bit_get_packet: the window after it, and whether it
\* considers the sequence number new.
bit_get_packet(bits, diff, set_mark) ==
    IF -W <= diff /\ diff < 0
    THEN { [bits |-> IF set_mark THEN bit_mark(bits, -diff) ELSE bits,
            new  |-> 0] }
    ELSE { [bits |-> IF set_mark THEN bit_mark(b, 0) ELSE b,
            new  |-> 1] :
              b \in IF diff > W \/ diff < -W THEN {{}} ELSE bit_shift(bits, diff) }
=============================================================================
