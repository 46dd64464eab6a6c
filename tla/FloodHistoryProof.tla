------------------------- MODULE FloodHistoryProof -------------------------
(***************************************************************************)
(* Proofs about FloodHistory, for every window size and sequence space.    *)
(***************************************************************************)
EXTENDS FloodHistory, TLAPS

-----------------------------------------------------------------------------
(* What bit_get_packet does to the window *)

\* bit_get_packet keeps the window inside the array, sets the bit of the
\* packet it counts, and moves every other bit by the distance travelled.
LEMMA GetPacketKeeps ==
    ASSUME NEW b, b \subseteq Offsets, NEW d \in Int, -W < d,
           NEW r \in bit_get_packet(b, d, TRUE)
    PROVE  /\ r.bits \subseteq Offsets
           /\ d >= 0 => r.new = 1 /\ 0 \in r.bits
           /\ d < 0 => r.new = 0 /\ r.bits = b \cup {-d}
           /\ \A k \in b : d >= 0 /\ k + d < W => k + d \in r.bits
<1>1. CASE d < 0
  <2>1. bit_mark(b, -d) = b \cup {-d} /\ -d \in Offsets
    BY <1>1, WindowAssumption DEF bit_mark, Offsets
  <2>2. bit_get_packet(b, d, TRUE) = { [bits |-> bit_mark(b, -d), new |-> 0] }
    BY <1>1, WindowAssumption DEF bit_get_packet
  <2>3. r = [bits |-> bit_mark(b, -d), new |-> 0]
    BY <2>2
  <2>4. r.bits = b \cup {-d} /\ r.new = 0
    BY <2>1, <2>3
  <2> QED
    BY <1>1, <2>1, <2>4
<1>2. CASE d >= 0
  <2> DEFINE C == IF d > W \/ d < -W THEN {{}} ELSE bit_shift(b, d)
  <2>1. bit_get_packet(b, d, TRUE) = { [bits |-> bit_mark(c, 0), new |-> 1] : c \in C }
    BY <1>2, WindowAssumption DEF bit_get_packet
  <2>2. PICK c \in C : r = [bits |-> bit_mark(c, 0), new |-> 1]
    BY <2>1
  <2>3. r.bits = c \cup {0} /\ r.new = 1
    BY <2>2, WindowAssumption DEF bit_mark, Offsets
  <2>4. c \subseteq Offsets /\ \A k \in b : k + d < W => k + d \in c
    <3>1. CASE d = 0
      <4>1. C = {b}
        BY <3>1, WindowAssumption DEF bit_shift
      <4>2. c = b
        BY <4>1
      <4> QED
        BY <3>1, <4>2 DEF Offsets
    <3>2. CASE 0 < d /\ d < W
      <4>1. C = { {k \in Offsets : k - d \in b} }
        BY <3>2, WindowAssumption DEF bit_shift
      <4>2. c = {k \in Offsets : k - d \in b}
        BY <4>1
      <4> QED
        BY <3>2, <4>2, WindowAssumption DEF Offsets
    <3>3. CASE d >= W
      BY <3>3, WindowAssumption DEF bit_shift, Offsets
    <3> QED
      BY <1>2, <3>1, <3>2, <3>3, WindowAssumption
  <2> QED
    BY <1>2, <2>3, <2>4, WindowAssumption DEF Offsets
<1>3. d < 0 \/ d >= 0
  OBVIOUS
<1> QED
  BY <1>1, <1>2, <1>3, Zenon

\* Away from that distance, a bit that bit_get_packet leaves set is the bit
\* of the packet itself or a bit that was set before.
LEMMA GetPacketAddsNothing ==
    ASSUME NEW b, b \subseteq Offsets, NEW d \in Int, d >= 0, d # W,
           NEW r \in bit_get_packet(b, d, TRUE), NEW k \in r.bits
    PROVE  k \in Offsets /\ (k = 0 \/ k - d \in b)
<1> USE WindowAssumption
<1> DEFINE C == IF d > W \/ d < -W THEN {{}} ELSE bit_shift(b, d)
<1>1. bit_get_packet(b, d, TRUE) = { [bits |-> bit_mark(c, 0), new |-> 1] : c \in C }
  BY DEF bit_get_packet
<1>2. PICK c \in C : r = [bits |-> bit_mark(c, 0), new |-> 1]
  BY <1>1
<1>3. k \in c \cup {0}
  BY <1>2 DEF bit_mark, Offsets
<1>4. CASE d > W
  <2>1. c = {}
    BY <1>4
  <2> QED
    BY <1>3, <2>1 DEF Offsets
<1>5. CASE d = 0
  <2>1. c = b
    BY <1>5 DEF bit_shift
  <2> QED
    BY <1>3, <1>5, <2>1 DEF Offsets
<1>6. CASE 0 < d /\ d < W
  <2>1. C = { {j \in Offsets : j - d \in b} }
    BY <1>6 DEF bit_shift
  <2>2. c = {j \in Offsets : j - d \in b}
    BY <2>1
  <2> QED
    BY <1>3, <2>2 DEF Offsets
<1> QED
  BY <1>4, <1>5, <1>6

-----------------------------------------------------------------------------
(* The inductive invariant *)


\* No copy is a window late, and no gap reaches half the sequence space.
GapsInRange == \A g \in Gaps : -W < g /\ 2 * g < SeqSpace

\* The numbering does not wrap.
NoWrap == MaxSeq < SeqSpace

\* Every delivered broadcast that the window still covers has its bit set.
Remembered ==
    \A n \in Broadcasts :
        tap[n] > 0 => n <= newest /\ (n > newest - W => newest - n \in bits)

\* The inductive invariant behind DeliveredOnce.
Inv ==
    /\ TypeOK
    /\ last = newest
    /\ Remembered
    /\ DeliveredOnce

\* Without a wrap a broadcast's sequence number is its number.
LEMMA SeqnoIsNumber ==
    ASSUME NoWrap, NEW n \in Broadcasts
    PROVE  Seqno(n) = n /\ n \in SeqNos
BY WindowAssumption, FloodAssumption DEF NoWrap, Broadcasts, Seqno, SeqNos

\* A new originator entry has an empty history.
LEMMA InitInv == Init => Inv
BY WindowAssumption, FloodAssumption
   DEF Init, Inv, TypeOK, Remembered, DeliveredOnce, Broadcasts, Offsets, SeqNos

\* Every copy that arrives keeps the invariant.
LEMMA NextInv ==
    ASSUME NoWrap, GapsInRange, Inv, [Next]_vars
    PROVE  Inv'
<1> USE WindowAssumption, FloodAssumption
<1>1. CASE UNCHANGED vars
  BY <1>1 DEF vars, Inv, TypeOK, Remembered, DeliveredOnce
<1>2. ASSUME NEW n \in Broadcasts, Receive(n)
      PROVE  Inv'
  <2> DEFINE d == n - newest
  <2>1. /\ Seqno(n) = n
        /\ n \in SeqNos
        /\ n \in Nat
        /\ newest \in Nat
        /\ last = newest
    BY SeqnoIsNumber DEF Inv, TypeOK, Broadcasts
  <2>2. -W < d /\ 2 * d < SeqSpace /\ d \in Int
    BY <1>2, <2>1 DEF Receive, GapsInRange
  <2>3. Int16(Seqno(n) - last) = d
    BY <2>1, <2>2 DEF Int16
  <2>4. CASE DropDuplicate(n)
    <3>1. get_bit_status(bits, last, n) # {0}
      BY <2>1, <2>4 DEF DropDuplicate
    <3>2. n <= newest
      BY <2>1, <2>2, <3>1 DEF get_bit_status, Int16, Offsets
    <3> QED
      BY <1>2, <2>1, <2>4, <3>2
         DEF Receive, DropDuplicate, Inv, TypeOK, Remembered, DeliveredOnce, Broadcasts
  <2>5. CASE Deliver(n)
    <3>1. PICK r \in bit_get_packet(bits, d, TRUE) :
             bits' = r.bits /\ last' = IF r.new = 1 THEN n ELSE last
      BY <2>1, <2>3, <2>5 DEF Deliver
    <3>2. /\ bits' \subseteq Offsets
          /\ d >= 0 => r.new = 1 /\ 0 \in bits'
          /\ d < 0 => r.new = 0 /\ bits' = bits \cup {-d}
          /\ \A k \in bits : d >= 0 /\ k + d < W => k + d \in bits'
      BY <2>2, <3>1, GetPacketKeeps DEF Inv, TypeOK
    <3>3. last' = newest' /\ newest' \in 0..MaxSeq /\ newest' = IF d > 0 THEN n ELSE newest
      BY <1>2, <2>1, <3>1, <3>2 DEF Receive, Inv, TypeOK, Broadcasts
    <3>4. tap[n] = 0
      <4>1. CASE d > 0
        BY <4>1, <2>1 DEF Inv, Remembered, TypeOK
      <4>2. CASE d <= 0
        <5>1. newest - n \in Offsets
          BY <2>1, <2>2, <4>2 DEF Offsets
        <5>2. get_bit_status(bits, last, n) = IF newest - n \in bits THEN {1} ELSE {0}
          BY <2>1, <5>1, <4>2 DEF get_bit_status, Int16, Offsets
        <5>3. newest - n \notin bits
          BY <2>1, <2>5, <5>2 DEF Deliver
        <5> QED
          BY <2>1, <2>2, <5>3, <4>2 DEF Inv, Remembered, TypeOK
      <4> QED BY <4>1, <4>2, <2>2
    <3>5. tap' = [tap EXCEPT ![n] = 1] /\ lost' = lost
      BY <2>5, <3>4 DEF Deliver, Inv, TypeOK
    <3>6. TypeOK' /\ DeliveredOnce'
      BY <1>2, <2>1, <3>2, <3>3, <3>5 DEF Inv, TypeOK, DeliveredOnce, Broadcasts, SeqNos, NoWrap
    <3>7. Remembered'
      <4> SUFFICES ASSUME NEW m \in Broadcasts, tap'[m] > 0
                   PROVE  m <= newest' /\ (m > newest' - W => newest' - m \in bits')
        BY DEF Remembered
      <4>1. CASE m = n
        BY <4>1, <2>1, <2>2, <3>2, <3>3 DEF Broadcasts
      <4>2. CASE m # n
        <5>1. tap[m] > 0 /\ m <= newest /\ m \in Nat
          BY <4>2, <3>5 DEF Inv, TypeOK, Remembered, Broadcasts
        <5>2. newest - m < W => newest - m \in bits
          BY <2>1, <5>1 DEF Inv, Remembered
        <5>3. CASE d >= 0
          <6>1. newest' = newest + d
            BY <2>1, <3>3, <5>3
          <6> QED
            BY <2>1, <2>2, <3>2, <5>1, <5>2, <5>3, <6>1
        <5>4. CASE d < 0
          BY <2>1, <2>2, <3>2, <3>3, <5>1, <5>2, <5>4
        <5> QED BY <5>3, <5>4, <2>2
      <4> QED BY <4>1, <4>2
    <3> QED
      BY <3>3, <3>6, <3>7 DEF Inv
  <2> QED
    BY <1>2, <2>4, <2>5 DEF Receive
<1> QED
  BY <1>1, <1>2 DEF Next

\* For every window size: as long as no copy is a full window late and the
\* numbering has not wrapped, the flood history of receive_packet_batiface
\* lets each broadcast through to the tap device at most once, even when the
\* out-of-array read of bit_shift puts garbage into the window.
THEOREM FloodOnce ==
    ASSUME NoWrap, GapsInRange
    PROVE  Spec => []DeliveredOnce
<1>1. Inv /\ [Next]_vars => Inv'
  BY NextInv
<1>2. Inv => DeliveredOnce
  BY DEF Inv
<1> QED
  BY InitInv, <1>1, <1>2, PTL DEF Spec

\* The state of the history has its types: no bit outside the array is set
\* and every number fits the field that holds it.
THEOREM FloodTypes ==
    ASSUME NoWrap, GapsInRange
    PROVE  Spec => []TypeOK
<1>1. Inv /\ [Next]_vars => Inv'
  BY NextInv
<1>2. Inv => TypeOK
  BY DEF Inv
<1> QED
  BY InitInv, <1>1, <1>2, PTL DEF Spec

-----------------------------------------------------------------------------
(* The other direction: the window remembers nothing that did not happen.  *)
(* A jump by exactly the window size copies the word in front of the array *)
(* into the window, so that distance is excluded.                          *)

\* No broadcast arrives exactly one window ahead of the newest.
NoGapOfOneWindow == W \notin Gaps

\* Offset k of the window stands for the number k before the newest.
LEMMA OffsetOf ==
    ASSUME NEW a \in 0..MaxSeq, NEW k \in Offsets
    PROVE  a - k > a - W /\ a - (a - k) = k
BY WindowAssumption, FloodAssumption DEF Offsets

\* The inductive invariant behind NothingLost: the window is exact, so a copy
\* it recognises has been delivered.
ExactInv == Inv /\ NothingLost /\ WindowIsHistory

\* A new originator has no history and has lost nothing.
LEMMA InitExact == Init => ExactInv
BY InitInv, WindowAssumption, FloodAssumption
   DEF ExactInv, Init, NothingLost, WindowIsHistory, Offsets, Broadcasts

\* Every copy that arrives keeps the window exact.
LEMMA NextExact ==
    ASSUME NoWrap, GapsInRange, NoGapOfOneWindow, ExactInv, [Next]_vars
    PROVE  ExactInv'
<1> USE WindowAssumption, FloodAssumption
<1>0. Inv'
  BY NextInv DEF ExactInv
<1>1. CASE UNCHANGED vars
  BY <1>0, <1>1 DEF vars, ExactInv, NothingLost, WindowIsHistory
<1>2. ASSUME NEW n \in Broadcasts, Receive(n)
      PROVE  ExactInv'
  <2> DEFINE d == n - newest
  <2>1. /\ Seqno(n) = n
        /\ n \in SeqNos
        /\ n \in Nat
        /\ newest \in Nat
        /\ last = newest
        /\ bits \subseteq Offsets
        /\ tap \in [Broadcasts -> Nat]
    BY SeqnoIsNumber DEF ExactInv, Inv, TypeOK, Broadcasts
  <2>2. -W < d /\ 2 * d < SeqSpace /\ d \in Int /\ d # W
    BY <1>2, <2>1 DEF Receive, GapsInRange, NoGapOfOneWindow
  <2>3. Int16(Seqno(n) - last) = d
    BY <2>1, <2>2 DEF Int16
  <2>4. CASE DropDuplicate(n)
    <3>1. get_bit_status(bits, last, n) # {0}
      BY <2>1, <2>4 DEF DropDuplicate
    <3>2. n <= newest /\ newest - n \in bits
      BY <2>1, <2>2, <3>1 DEF get_bit_status, Int16, Offsets
    <3>3. tap[n] > 0
      <4> DEFINE k == newest - n
      <4>1. k \in Offsets /\ newest - k = n
        BY <2>1, <3>2
      <4> HIDE DEF k
      <4> QED
        BY <4>1, <3>2 DEF ExactInv, WindowIsHistory, k
    <3>4. lost' = lost /\ bits' = bits /\ tap' = tap /\ newest' = newest
      BY <1>2, <2>1, <2>4, <3>2, <3>3 DEF DropDuplicate, Receive
    <3> QED
      BY <1>0, <3>4 DEF ExactInv, NothingLost, WindowIsHistory
  <2>5. CASE Deliver(n)
    <3>1. PICK r \in bit_get_packet(bits, d, TRUE) : bits' = r.bits
      BY <2>1, <2>3, <2>5 DEF Deliver
    <3>2. tap' = [tap EXCEPT ![n] = tap[n] + 1] /\ lost' = lost
      BY <2>5 DEF Deliver
    <3>3. newest' = IF d > 0 THEN n ELSE newest
      BY <1>2, <2>1 DEF Receive
    <3>4. ASSUME NEW k \in Offsets, newest' - k \in Broadcasts, k \in bits'
          PROVE  tap'[newest' - k] > 0
      <4>1. CASE newest' - k = n
        BY <2>1, <3>2, <4>1
      <4>2. CASE newest' - k # n
        <5>1. CASE d >= 0
          <6>1. newest' = n
            BY <2>1, <3>3, <5>1
          <6>2. k = 0 \/ k - d \in bits
            BY <2>1, <2>2, <3>1, <3>4, <5>1, GetPacketAddsNothing
          <6>3. k - d \in bits /\ newest - (k - d) = newest' - k
            BY <2>1, <4>2, <6>1, <6>2, <3>4 DEF Offsets
          <6> DEFINE j == k - d
          <6>4. j \in Offsets /\ j \in bits /\ newest - j = newest' - k
            BY <2>1, <6>3
          <6> HIDE DEF j
          <6>5. tap[newest' - k] > 0
            BY <3>4, <6>4 DEF ExactInv, WindowIsHistory
          <6> QED
            BY <2>1, <3>2, <3>4, <4>2, <6>5
        <5>2. CASE d < 0
          <6>1. newest' = newest /\ bits' = bits \cup {-d}
            <7>1. newest' = newest
              BY <2>2, <3>3, <5>2
            <7>2. r.bits = bits \cup {-d}
              BY <2>1, <2>2, <3>1, <5>2, GetPacketKeeps
            <7> QED BY <3>1, <7>1, <7>2
          <6>2. k \in bits
            BY <2>1, <3>4, <4>2, <6>1 DEF Offsets
          <6>3. tap[newest' - k] > 0
            BY <3>4, <6>1, <6>2 DEF ExactInv, WindowIsHistory
          <6> QED
            BY <2>1, <3>2, <3>4, <4>2, <6>3
        <5> QED BY <5>1, <5>2, <2>2
      <4> QED BY <4>1, <4>2
    <3>5. ASSUME NEW k \in Offsets, newest' - k \in Broadcasts, tap'[newest' - k] > 0
          PROVE  k \in bits'
      BY <1>0, <3>5, OffsetOf DEF Inv, TypeOK, Remembered
    <3> QED
      BY <1>0, <3>2, <3>4, <3>5 DEF ExactInv, NothingLost, WindowIsHistory
  <2> QED
    BY <1>2, <2>4, <2>5 DEF Receive
<1> QED
  BY <1>1, <1>2 DEF Next

\* For every window size: unless a broadcast arrives exactly one window ahead,
\* the first copy of a broadcast is never dropped as a duplicate by
\* receive_packet_batiface, however the copies are reordered and duplicated.
THEOREM FloodLosesNothing ==
    ASSUME NoWrap, GapsInRange, NoGapOfOneWindow
    PROVE  Spec => []NothingLost
<1>1. ExactInv /\ [Next]_vars => ExactInv'
  BY NextExact
<1>2. ExactInv => NothingLost
  BY DEF ExactInv
<1> QED
  BY InitExact, <1>1, <1>2, PTL DEF Spec

\* Under the same conditions the window is the reception record: seq_bits has
\* bit k exactly when broadcast newest - k was delivered.
THEOREM FloodWindowExact ==
    ASSUME NoWrap, GapsInRange, NoGapOfOneWindow
    PROVE  Spec => []WindowIsHistory
<1>1. ExactInv /\ [Next]_vars => ExactInv'
  BY NextExact
<1>2. ExactInv => WindowIsHistory
  BY DEF ExactInv
<1> QED
  BY InitExact, <1>1, <1>2, PTL DEF Spec
=============================================================================
