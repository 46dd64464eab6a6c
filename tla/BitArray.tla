------------------------------ MODULE BitArray ------------------------------
(***************************************************************************)
(* bitarray.c word by word: a window is an array of NumWords unsigned      *)
(* longs of WordBits bits, bit k of word j standing for offset             *)
(* j * WordBits + k.  The constants of the compiler matter: 1<<word_offset *)
(* is a shift of an int, which is as wide as a word on a 32-bit build and  *)
(* half as wide on a 64-bit one.                                           *)
(*                                                                         *)
(* The state machine is the flood history again, kept in the word array,   *)
(* and is shown to implement FloodHistory.                                 *)
(***************************************************************************)
EXTENDS Integers, Bitwise

CONSTANTS
    WordBits,   \* WORD_BIT_SIZE
    IntBits,    \* width of int, at most WordBits
    NumWords,   \* NUM_WORDS
    SeqSpace,     \* 2^16
    MaxSeq,     \* bound: broadcasts are numbered 1..MaxSeq
    Gaps        \* distances from the newest broadcast at which copies arrive

VARIABLES seq_bits, last, newest, tap, lost

vars == <<seq_bits, last, newest, tap, lost>>

W == WordBits * NumWords

WordMod == 2 ^ WordBits

Word == 0..(WordMod - 1)

Words == 0..(NumWords - 1)

Broadcasts == 1..MaxSeq

Seqno(n) == n % SeqSpace

Int16(d) ==
    IF 2 * d >= SeqSpace THEN d - SeqSpace
    ELSE IF 2 * d < -SeqSpace THEN d + SeqSpace
    ELSE d

\* << and >> on a word.
ShiftUp(w, n) == (w * 2 ^ n) % WordMod

ShiftDown(w, n) == w \div 2 ^ n

\* An int widened to a word: its sign bit is extended.
IntAsWord(off) == IF off < IntBits - 1 THEN 2 ^ off ELSE WordMod - 2 ^ off

\* The mask 1<<off, an int widened to a word.  A shift by more than the width
\* of an int is undefined: a processor that masks the shift count wraps
\* around, one that does not yields zero.
OneShifted(off) == IF off < IntBits THEN {IntAsWord(off)} ELSE {IntAsWord(off % IntBits), 0}

\* Offsets are C expressions: for a negative dividend both the word and the
\* bit lie outside the array and the bit read is arbitrary.
get_bit_status(b, ls, cs) ==
    LET diff == Int16(ls - cs)
    IN  IF diff < 0 \/ diff >= W THEN {0}
        ELSE IF ls < cs THEN {0, 1}
        ELSE { IF (b[diff \div WordBits] & m) # 0 THEN 1 ELSE 0 : m \in OneShifted(diff % WordBits) }

bit_mark(b, n) ==
    IF n < 0 \/ n >= W THEN {b}
    ELSE { [b EXCEPT ![n \div WordBits] = @ | m] : m \in OneShifted(n % WordBits) }

\* Mutant of bit_shift: the high bits of the lower word are taken with the
\* wrong shift.
bit_shift_wrong_carry(b, n) ==
    LET off == n % WordBits
        num == n \div WordBits
        shifted(i) ==
            IF i > num THEN ShiftUp(b[i - num], off) + ShiftDown(b[i - num - 1], off)
            ELSE IF i = num THEN ShiftUp(b[0], off)
            ELSE 0
    IN  IF n <= 0 THEN {b}
        ELSE IF num < NumWords THEN { [i \in Words |-> shifted(i) % WordMod] }
        ELSE { [i \in Words |-> IF i = NumWords - 1 THEN g ELSE 0] : g \in Word }

\* Words above word_num are put together from two old words, word word_num
\* gets its low half only, the words below it are cleared.  With
\* word_num = NumWords the assignment after the loop copies seq_bits[-1].
bit_shift(b, n) ==
    LET off == n % WordBits
        num == n \div WordBits
        shifted(i) ==
            IF i > num THEN ShiftUp(b[i - num], off)
                            + ShiftDown(b[i - num - 1], WordBits - off)
            ELSE IF i = num THEN ShiftUp(b[0], off)
            ELSE 0
    IN  IF n <= 0 THEN {b}
        ELSE IF num < NumWords THEN { [i \in Words |-> shifted(i)] }
        ELSE { [i \in Words |-> IF i = NumWords - 1 THEN g ELSE 0] : g \in Word }

Cleared == [i \in Words |-> 0]

bit_get_packet(b, diff, set_mark) ==
    LET late == diff < 0 /\ diff >= -W
        jump == diff > W \/ diff < -W
        base == IF late THEN {b} ELSE IF jump THEN {Cleared} ELSE bit_shift(b, diff)
        marked(c) == IF ~ set_mark THEN {c}
                     ELSE IF late THEN bit_mark(c, -diff)
                     ELSE IF jump THEN {[c EXCEPT ![0] = 1]}
                     ELSE bit_mark(c, 0)
    IN  { [bits |-> m, new |-> IF late THEN 0 ELSE 1] : m \in UNION {marked(c) : c \in base} }

-----------------------------------------------------------------------------
(* The flood history kept in the array. *)

Init ==
    /\ seq_bits = Cleared
    /\ last = 0
    /\ newest = 0
    /\ tap = [n \in Broadcasts |-> 0]
    /\ lost = {}

DropDuplicate(n) ==
    /\ 1 \in get_bit_status(seq_bits, last, Seqno(n))
    /\ lost' = IF tap[n] = 0 THEN lost \cup {n} ELSE lost
    /\ UNCHANGED <<seq_bits, last, tap>>

Deliver(n) ==
    /\ 0 \in get_bit_status(seq_bits, last, Seqno(n))
    /\ \E r \in bit_get_packet(seq_bits, Int16(Seqno(n) - last), TRUE) :
          /\ seq_bits' = r.bits
          /\ last' = IF r.new = 1 THEN Seqno(n) ELSE last
    /\ tap' = [tap EXCEPT ![n] = @ + 1]
    /\ UNCHANGED lost

Receive(n) ==
    /\ n - newest \in Gaps
    /\ newest' = IF n > newest THEN n ELSE newest
    /\ DropDuplicate(n) \/ Deliver(n)

Next == \E n \in Broadcasts : Receive(n)

Spec == Init /\ [][Next]_vars

-----------------------------------------------------------------------------
(* Properties *)

\* The offsets whose bit is set in the array.
SetBits == { k \in 0..(W - 1) : (seq_bits[k \div WordBits] \div 2 ^ (k % WordBits)) % 2 = 1 }

Abstract == INSTANCE FloodHistory WITH TopWord <- WordBits, bits <- SetBits

\* The word array implements the window: shifts across word boundaries, marks
\* and look-ups do to the array what FloodHistory does to a set of offsets.
ImplementsWindow == Abstract!Spec

\* A broadcast that was marked in the array is recognised when it comes again.
RemembersPackets == \A n \in Broadcasts : tap[n] <= 1
=============================================================================
