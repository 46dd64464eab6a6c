# Formal models of batman-adv-userspace

TLA+ models of the userspace B.A.T.M.A.N. Advanced daemon, model-checked with
TLC on small instances and, for the invariants that matter most, proved with
TLAPS for every value of the constants. Definitions keep the names of the C
functions they model; `PROJECT.json` maps each of them to its source lines.

## 1. The system

A node runs one daemon. Its main thread executes `batman()` (`batman-adv.c`):

    loop: receive_packet        wait for a frame or a timeout
                                 tap frames and data packets are dealt with inside
          if it was an originator message (OGM): process it
          hna_update             age local hosts, rewrite the announced list
          send_outstanding_packets
          vis packet, purge_orig, check_inactive_interfaces, statistics

A second thread, `unix_listen` (`posix-specific.c`), serves debug clients and
`batping`/`batroute` clients on a unix socket. The parts:

| Part | State | Operations | Correct when |
|------|-------|------------|--------------|
| Sliding windows, `bitarray.c` | arrays of words, one bit per sequence number | `bit_mark`, `bit_shift`, `bit_get_packet`, `get_bit_status` | the array is the set of recent sequence numbers |
| Flood history, `posix-specific.c` | `seq_bits`, `last_bcast_seqno` per originator | the BAT_BCAST branch of `receive_packet_batiface` | a broadcast is delivered once, whatever copies arrive |
| OGM scheduling, `schedule.c`, `list-batman.c` | `forw_list`, `out.seqno`, `bcast_own` | `schedule_own_packet`, `schedule_forward_packet`, `send_outstanding_packets`, the echo check of `batman()` | each interface sends an OGM every interval, for ever |
| Originators, `originator.c`, `ring_buffer.c`, `batman-adv.c` | `orig_hash`, per originator a list of `neigh_node`s with a packet window and a ring of tq values, and a router | `count_real_packets`, `isBidirectionalNeigh`, `update_orig`, `update_routes`, `purge_orig` | the router is the best live neighbour; no route promises more than was heard |
| Translation table, `trans_table.c`, `update_routes` | `trans_hash`, local `hna_list`/`hna_buff`, per originator `hna_list`/`hna_buff` | `hna_add`, `hna_add_buff`, `hna_del_buff`, `hna_update` | every host has one owner, on whose list it hangs; what is announced is what is local |
| Gateway list, `batman-adv.c` | `gw_list` | `update_gw_list`, half of `purge_orig` | one live entry per announcing gateway |
| Hash table, `hash.c` | buckets | add, remove, iterate with removal, resize | a finite map; iteration visits everything once |
| Unix clients and debug output, `posix-specific.c` | client list, five debug client lists with a mutex each | `unix_listen`, `handle_packet`, `debug_output` | no client is lost, no list is walked while it is freed |
| Data plane, `posix-specific.c` | `bcast_seqno`; reads routers, flood histories and the translation table | `receive_packet_tap`, `receive_packet_batiface`, `handle_packet` | packets are delivered once and where they should, answers come back to who asked, nothing circles for ever |
| Lists, `list-batman.c`, `dlist.h` | rings of cells that know their successor only | add, delete, iterate | no cell is lost, none is reached after it was freed |
| Memory debugging, `allocate.c` | the list of all chunks, its mutex, magic numbers around each chunk | `debugMalloc`, `debugRealloc`, `debugFree`, `checkIntegrity`, `checkLeak` | the list is the heap; nothing is freed twice; damage is noticed |
| Start-up, shutdown, `posix-specific.c`, `posix.c`, `linux.c` | interfaces, sockets, the tap device, `debug_clients`, the thread of `unix_listen`, `stop` | `apply_init_args`, `restore_defaults`, `restore_and_exit`, `cleanup`, the signal handlers | all that was taken is given back, whatever fails and in whichever thread; the process ends |
| Vis packets, `batman-adv.c` | `vis_packet` | `generate_vis_packet` | its memory is part of the above; its contents change nothing |

How they interact: everything but `unix_listen` runs in the main thread, so
interleaving inside the mesh protocol is that of *messages and time*: copies of
OGMs and broadcasts arrive duplicated, late, out of order or not at all, the
clock advances between any two reads of it, and purging by timeout competes with
messages under way. `schedule_own_packet` writes the window `bcast_own` of every
originator, `isBidirectionalNeigh` reads its sum; `update_orig` decides the
router and hands the host list to the translation table; `purge_orig` frees
neighbours, originators and, through `hna_del_buff`, their hosts. Both threads
share the memory list, the debug lists, `unix_packet` and `stop`; either of them
may shut the process down.

What is hard to test is listed, line by line, under "hazards" in `PROJECT.json`.
The ones that shaped the models: `list_del` with the list head for a predecessor
(it also drops everything in *front* of the element), a list that is extended
while it is walked, pointers into memory `purge_orig` has freed, windows shifted
across word boundaries, the truncation of sequence-number differences to 16 bits,
the ranking loop of `update_orig`, whose outcome depends on list order, and the end
of the process, which two threads may bring about at once.

## 2. The modules

    SlidingWindow ──► FloodHistory ◄── implements ── BitArray
          ├─────────► Schedule ── implements ──► OgmTimer
          ├─────────► Originator ◄── SeqFilter
          └─────────► DataPlane
    TransTable
    UnixClients
    HashTable ── implements ──► HashSet
    ListBatman ─► GatewayList
    Allocate ──► Daemon

The theorems about a module `M` and their proofs are in `MProof`, which extends it:
FloodHistoryProof, ScheduleProof, OriginatorProof, DataPlaneProof, TransTableProof,
UnixClientsProof, GatewayListProof and DaemonProof (for Allocate and Daemon). An
`MC...` module gives the sets of an instance their values for TLC; a `.cfg`
names the constants and what is checked.

**SlidingWindow** is `bitarray.c` as its callers see it: a window is the set of
offsets (distances to the newest sequence number) whose bit is set. Each operator
yields the *set* of results a build can produce. It has more than one element
only where the C code reads outside its array: `get_bit_status` after a wrap
(the range test uses the truncated difference, the word index the untruncated
one), and `bit_shift` by exactly the window size, which copies `seq_bits[-1]`.

**BitArray** is the same file word by word, with the widths of `int` and of a
word as constants, because `1<<word_offset` shifts an `int`. It runs the flood
history in the array and is shown to implement `FloodHistory` under the mapping
"set bits of the array".

**FloodHistory** is what happens to one originator's broadcasts. The originator
numbers them 1, 2, ...; `Receive(n)` is the arrival of a copy, `DropDuplicate` and
`Deliver` the two ways through the code. `tap` counts deliveries.

**Schedule** keeps the program counter of the main loop, because the point of
`schedule.c` is what happens *while* `forw_list` is walked. `StartInterface` is the
loop before `batman()`'s main loop; `ReceiveNothing`, `schedule_forward_packet`
and `ReceiveEcho` are what one iteration can receive; `StartWalk`, `SendRelayed`,
`SendOwn`, `SendFails`, `EndWalk` are the steps of `send_outstanding_packets`, one
per list element; `PurgeNeighbour` frees an originator's windows; `Tick` advances
the clock between any two of them. `temp` is the element `list_for_each_safe` has
already picked as its next one; `list_del` drops the prefix in front of the
element, as the C function does when it is handed the list head.

**OgmTimer** is the abstract specification: one timer per interface, which fires
when it expires and is set again, one jittered interval ahead.

**Originator** is one entry of `orig_hash`. `CountOgm`, `DirectOgm` and
`RelayedOgm` are the three ways an OGM goes through the main loop (counted and
dropped; heard from the originator itself; relayed by a neighbour), each with
everything it calls, in order: `count_real_packets`, `isBidirectionalNeigh`,
`update_orig`, `update_routes`, `schedule_forward_packet`. A neighbour is a *link*:
an address and the interface it is heard on, as in `neigh_list`. What depends on
other entries (how many OGMs of a relaying neighbour were counted, how many of
ours it echoed) is an input. A router that was freed by `purge_orig` and not
replaced is the value `Freed`: reading it yields any listed neighbour's address or
none, and a neighbour made since then may be in its memory (`RouterSeen`). The tq
and ttl an OGM carries are inputs too (`Ogms`): a received ttl is any byte, since
`batman()` bounds it from below only. `heard` and `heard_ttl` are ghosts: the best
of each in an OGM that was used since the entry was made. **SeqFilter** is what a loop that unlinks some elements leaves of a list. `PurgeOrig` and `PurgeNeighbours` are the two branches of `purge_orig`.

**TransTable** keeps the phases of the main loop. `TapFrame` is `hna_add` for a
frame from the tap device, `AcceptOgm` is the HNA half of `update_routes`,
`DropOgm` and `ReceiveNothing` the iterations that do not reach it, `hna_update`
and the two purge actions as in the code. `orig_buff` is the copied announcement,
`orig_list` the entries hanging on the originator.

**DataPlane** is a mesh of nodes that send payload to each other. `TapUnicast` and
`TapBroadcast` are the two ways through `receive_packet_tap`, `handle_packet` sends a
client's echo request, `ReceiveUnicast`, `ReceiveIcmp`, `IgnoreBcast` and `FloodBcast`
are the branches of `receive_packet_batiface`. Frames in `air` arrive in any order or
not at all. Which router an entry holds is the business of `Originator`; here each
look-up finds *any* neighbour or none, so loops and changing routes are included.
An entry that exists carries the flood history, with the operators of
`SlidingWindow`. A write that fails ends the daemon, possibly after a broadcast went
out on some interfaces. Ghosts record what was sent, delivered and answered, and
how many hops a request took. `purge_orig` forgets a history; deliveries are
counted per life of an entry. `Restart` is a daemon that is started again, after an
error or in the middle of everything: it knows nobody and numbers its broadcasts
from 1, while the others keep the history of its former life, and a broadcast
whose number they have had before ends there (`Shadowed`).

**UnixClients** has the two threads of the daemon. `unix_listen` is broken at its
locks and at its debug output (`LockOld`, `Unlink`, `LockNew`, `Add` for a client
that changes its debug level; `HangUp`, `Leave`, `Close` for one that leaves);
`debug_output` runs in either thread as `TryLock`, `Write` per client, `Unlock`.
Sockets get the lowest free number, as `accept` does, and memory of a client
that left may be used again. `ReplyTest` and `ReplyWrite` are the two reads of
`unix_packet` for an echo reply. `Cleanup` is the end of the thread.

**HashTable** is `hash.c`: chains, growth in `get_orig_node`, and the iterator with its
memory of predecessor and chain head, which is how it finds out that its element
was removed. **HashSet** is what the callers rely on: a set whose iteration visits
every element once, whatever is removed on the way, and ends.

**ListBatman** is `list-batman.c` by its pointers: a record of the `next` of every cell
and of the head, and the head's `prev`. **GatewayList** keeps `gw_list` in it.
`AcceptOgm` is the end of `update_orig` with `update_gw_list`; `Purge` is `purge_orig`,
which marks the entries of purged originators (`Marked`) and then sweeps out those
deleted long ago, with `prev_list_head` behind the walk (`Swept`); `LastPurge` is
the call at the end of `batman()` with the time moved on. An `orig_node` is
named by its address, so that a new originator may take the memory to which an
entry marked as deleted still points.

**Allocate** is `allocate.c`, and how an error in it is reported. The list of chunks
is modelled by its pointers, which lie in the chunks themselves; `LockToAdd`, `Link`,
`LockToFree`, `WalkOn`, `Unlink`, `free`, `CheckChunk` are the steps another thread
could interrupt. Callers may damage a chunk, free one they do not own, or find no
memory, in either thread (`MaxFaults` in a run). `Report` is `debug_output(0, ...)`:
it comes back when the mutex of debug level 4 is free. When the mutex is held by a
thread that waits for the caller, or by the caller itself, `debug_output` calls itself
until the stack overflows (`ReportCrashes`).

**Daemon** adds the life of the two threads. Main goes through `apply_init_args` step by
step (`ParseArgs` to `StartThread`), each of which may fail, runs rounds of `batman()`
reduced to what they do to memory, and ends through `restore_defaults` (`NextInterface`
to `Join`), `cleanup` and `checkLeak`. `unix_listen` comes and goes through its loop,
also while it holds the mutex of the debug level that errors are written to. An
error calls `restore_and_exit` in the thread that meets it, so both threads
can be in `restore_defaults`, where the second one to remove an interface may crash on
the pointers in it (`RemoveCrashes`, `posix-specific.c:1354`). `hna_update` is the memory
of the list of our hosts, `FreeVisPacket`, `NewVisPacket` and `FillVisPacket` that of
`generate_vis_packet`; the two pointers main keeps, `hna_buff` and `vis_packet`, are
variables, because `PurgeAll` frees everything else main has stored and not these.
Memory may be exhausted wherever a thread asks for it (`Allocating`), and the thread of
`unix_listen` may fail to start, which nobody looks at (`StartThread`).

## 3. The runs

| Run | Module | Checks | Result |
|-----|--------|--------|--------|
| `flood_history` | MCFloodHistory | `DeliveredOnce`, `NothingLost`, `WindowIsHistory` | hold |
| `bit_array` | MCBitArray | `ImplementsWindow` (refinement) | holds |
| `bit_array_lp64` | MCBitArray | `RemembersPackets` | **violated** |
| `schedule` | MCSchedule | `OneOwnPacketPerInterface`, `SortedWhenWaiting`, `EchoWindow`, `DirectLinkOnItsInterface`, `ImplementsTimers` (refinement with liveness) | hold |
| `trans_table` | MCTransTable | `ListsMatchTable`, `OwnersExist`, `AnnouncementIsCurrent`, `ListedWereAnnounced` | hold |
| `trans_table_roaming` | MCTransTable | `AnnouncementApplied` | **violated** |
| `originator` | MCOriginator | `RouterIsBest`, `TqHonest`, `NoFlipping` | hold |
| `data_plane` | MCDataPlane | `DeliveredOnce`, `AnswerReachesAsker`, `FallsSilent`, `FloodReachesAll` (the last two liveness) | hold |
| `unix_clients` | MCUnixClients | `DebugListsMatch`, `SlotsMatchUids`, `WalkedListIsStable`, `LocksReleased` (liveness) | hold |
| `hash_table` | MCHashTable | `ChainsAreRight`, `ImplementsSet` (refinement with liveness) | hold |
| `gateways` | MCGatewayList | `ListIsWhole`, `GatewaysListed`, `NothingLeft` | hold |
| `daemon` | MCDaemon | `ListIsHeap`, `NoDoubleFree`, `EverythingReleased`, `CleanedUpLast`, `Ends` (liveness) | hold |

Most passing runs also check their module's type invariant, which carries the
ranges that matter (no bit outside the window, no index outside the ring, no more
hosts than a message holds), by itself or as the first part of another
invariant (`ListIsWhole`, `DebugListsMatch`, `ChainsAreRight`).

### What the violations show

* **64-bit builds lose marks** (`bitarray.c:53`, `:97`). `1<<word_offset` is an
  `int`: for offsets of 32 and more in a 64-bit word the bit lands elsewhere. In
  the instance a word has 8 bits and an int 4; a broadcast is delivered twice.
* **Announcements of unchanged length are ignored** (`batman-adv.c:372`). The
  `memcmp` test is inverted: equal lists are re-entered, different ones are not.

Other behaviours the models contain and the properties above leave room for:

* If a neighbour is heard on two interfaces, the echo of a message of one
  counts for the other one whenever the sequence numbers agree
  (`batman-adv.c:850`): the test does not ask whose message it is. `schedule` checks
  `EchoWindow` with interfaces in separate cells (constant `Echoes`).
* A unix client that leaves is unlinked with the list head as its predecessor
  (`posix-specific.c:458`): clients connected before it are cut off. They stay
  connected, are never read again, and keep their debug level.
* Slot 0 of `unix_packet` is never cleared and may point to freed memory, because
  uid 0 also means "none"; `SlotsMatchUids` exempts it.
* An echo reply tests `unix_packet[uid]` and reads it again (`posix-specific.c:1658`)
  while the other thread may clear it; the model then stops (`crashed`).
* At shutdown `unix_listen` frees debug entries without their mutex
  (`posix-specific.c:489`); the properties are stated for the time before.
* An originator interval below the jitter silences interfaces (`schedule.c:44`, `:228`):
  an own message due in the past is inserted in front of the walk, and the next
  `list_del` drops it. `posix-specific.c:598` accepts every positive interval. The
  module assumes nothing here (`JitterWithinInterval` is a hypothesis of the
  theorems, and holds in the run).
* A rebroadcast can leave with ttl 255 (`schedule.c:119`): a neighbour known only
  through duplicates has `last_ttl` 0 and can become router. `TqHonest` names
  this exception for the node where it happens; the next node receives 255 as it
  would any other ttl, so that the property is stated relative to what was
  received, and not to the ttl a message starts with.
* A broadcast from a node that restarted within the purge timeout may be taken for
  an old one, because its numbers start at 1 again: `FloodReachesAll` names this
  exception.
* `debug_output` overflows the stack when it cannot get the mutex of level 4 from a
  thread that in turn waits for it (`posix-specific.c:182`): an error in
  `debugFree` or `checkIntegrity` is reported with `chunk_mutex` held, while
  `unix_listen` allocates with the log mutex held. `Ends` counts it as an end.
* `tap_probe` reports its error before `debug_clients` exists (`posix-specific.c:694`), which
  follows a NULL pointer; `checkLeak` reports leaks after `cleanup` has freed
  it (`posix.c:264`). There is always something to report after a clean stop that
  had one round of the main loop: `hna_buff`, allocated by the first `hna_update`
  (`trans_table.c:175`), is freed neither by `transtable_quit` nor at the end of
  `batman()` nor by `cleanup`. The last vis packet and clients that another
  one cut off are leaks of the same kind. `CleanedUpLast` says that without
  a fault there is no other.
* `vis_if.sock` is opened by start-up and closed nowhere (`posix-specific.c:1365`);
  `EverythingReleased` is about the tap device, the raw sockets and the unix socket.
* When `batman()` fails it does not set `stop`; `unix_listen` ends only because
  `restore_defaults` closes its socket before it waits for the thread. In
  the other order main would wait for ever (the mutant of `Ends`).
* Both threads may take the same interface down. The second `debugFree` finds it
  no longer listed, reports, and starts `restore_and_exit` again; `NoDoubleFree`
  says that `free()` itself never sees this. main frees the interfaces
  before it waits for `unix_listen`, whose `handle_packet` may still read them.

### Bounds, and why they are enough

* `flood_history`: a window of 4 in two words, 12 broadcasts, copies late by less
  than a window and ahead by less than, or more than, a window. The window slides
  completely three times. A gap of exactly W is left out: there the word in front
  of the array enters the window and a first copy may be taken for a duplicate.
  `bit_array` includes it (distances -5..7 for a window of 6), since refinement
  holds with the same nondeterminism on both levels.
* `bit_array`: two words of three bits, so that shifts cross a word boundary by
  less than, exactly and more than a word.
* `schedule`: two interfaces (the primary one, whose own messages go out
  everywhere, and another), interval 2, jitter 1, five ticks: both interfaces send
  twice, in either order, at equal times, and with relayed messages in front.
  Echoes may lag one message. Relayed ttl 1 and 2 are the two sides of the test in
  `send_outstanding_packets`.
* `originator`: a direct and a relayed link, windows and rings of two entries, two
  OGM numbers received in any order and any number of times, from the originator
  with the maximal tq or with none, through the relay with half of it and with the
  ttl that is left of a wrapped one (`Ogms`; a ttl has eight values), echoes one or all
  (so that the tq after `isBidirectionalNeigh` takes every interesting value), one tick with a timeout
  of zero so that both purge branches run and the router can be left dangling. The
  wrapping ttl of `TqHonest` happens in it.
* `trans_table`: our own address, two hosts, a group address, two originators,
  announcements of length 0, 1 and 2 with room for two, four clock values with a
  threshold of one.
* `data_plane`: three nodes, one with two interfaces of which one only hears, a
  ring of links with one-way parts, so that A reaches B through C only, frames can
  circle and A hears itself; our ttl is 3, the largest a client may ask for 4; either one unicast or echo request of
  any node, or one or two broadcasts, together with purges and restarts of A up to
  three events, so that A can send, restart and send again under the same number.
  Two broadcasts of one node may overtake each other; the window of 4 is
  wide enough, its limits are the subject of `flood_history`.
* `unix_clients`: two sockets, two uid slots, the debug levels 3 and 4, which the
  code itself writes connections and errors to: every list can hold both
  clients, sockets are used again, slots run out, and both threads meet in one list.
  The entry for standard output made at start-up is left out: it never changes.
* `hash_table`: six keys, three of which share a chain at every size, two are parted
  by growth and one is alone, in a table of 8 that grows to 16 and 32; any of
  them may be removed at any point of an iteration.
* `gateways`: two originators, memory for three and for three entries, timeout
  and interval 1, eight clock values: an entry can be deleted, outlive its
  originator, be met again by another one at the same address, and be
  swept from the front, the middle and the end of the list. The clock starts at 1,
  since `deleted` 0 means "not deleted": a deletion in the first millisecond is lost.
* `daemon`: one interface, `hna_buff`, one further chunk in each thread (with a vis
  server the vis packet) and the second one of a `debugRealloc`, of which four are
  allocated at a time: a call that would need a fifth is not made then, and
  `hna_update` writes `hna_buff` anew only while it is main's one chunk. `malloc` takes the lowest free address, so
  that freed memory is used again at once. One fault in a run, at any point, in either
  thread. Started with a listener on debug level 4, or without one and with a vis server.
  With two chunks in the list beside the one being freed, the first, an inner and
  the last one can be taken out.

### Fairness

`Schedule` assumes weak fairness of the main thread's step only (`MainStep`): the
loop never blocks for ever, because `select` is given a timeout and every other
step is plain computation. Nothing is assumed of the clock, of messages, of purges
or of send errors. Under it `ImplementsTimers` includes the liveness of `OgmTimer`: an
expired timer fires unless the daemon stops.

`DataPlane` assumes weak fairness of `Arrive`: frames under way are eventually
received (or lost), since the main loop reads its sockets in every iteration.
Which frame, and over which route, stays open, and `FloodReachesAll` only claims
anything if no frame of a broadcast was lost. `UnixClients` assumes that a thread
inside `debug_output`, and `unix_listen` where it does not wait for a mutex, go on;
nothing is assumed of clients or of the main thread outside `debug_output`.
`Daemon` assumes strong fairness of each thread's own steps: a thread that is not
waiting goes on, `select` returns every second in both threads and fails on a
closed socket, and a mutex that becomes free again and again is got some time.
Nothing is assumed of clients, signals or faults. `HashTable` assumes that every loop over the table calls `hash_iterate` until it
returns NULL, as all loops in the code do. `FloodHistory`, `BitArray`, `TransTable`,
`Originator` and `GatewayList` assume no fairness and state safety only.

## 4. The proofs

Proved with TLAPS for every value of the constants that satisfies the named
assumptions; all assumptions in the modules are evaluated by TLC on every run. A
hypothesis that is not an assumption of the module stands in the theorem itself,
and the run that checks the same property satisfies it.

**FloodHistoryProof.** `FloodOnce` (`DeliveredOnce`) and `FloodTypes` hold for every
window size and number of broadcasts under `NoWrap` and `GapsInRange`: as long as the
numbers have not wrapped, no copy is a full window late and no jump reaches half
the sequence space. `DeliveredOnce` is not inductive; the invariant adds that
`last` is the newest number and `Remembered`: every delivered broadcast still
covered by the window has its bit set. `FloodLosesNothing` (`NothingLost`) and
`FloodWindowExact` (`WindowIsHistory`) need the converse, that a set bit stands for a
delivery, and with it `NoGapOfOneWindow`: a jump by exactly W shifts the word in
front of the array into the window. All three hypotheses are needed: beyond
them the code does deliver twice, or loses a first copy. The lemmas `GetPacketKeeps`,
`GetPacketAddsNothing` and `GetPacketTyped` say what `bit_get_packet` does to a
window; those that other components need stand in their proofs as well.

**ScheduleProof.** Under `JitterWithinInterval` (interval at least the jitter), for any
number of interfaces and relayed messages:

* `TypeCorrect`, `NoInterfaceLost` (`OneOwnPacketPerInterface`). The invariant adds
  `WalkSafe`: during a walk, everything in front of the element to be visited next
  is due later than `curr_time`, so a due element has nothing in front of it and
  `list_del` with the head loses nothing. This is where the hypothesis enters: an
  own message scheduled during the walk is due after `curr_time`. The lemmas
  `DelOwns`, `InsertOwns`, `PushOwns` say what each list operation does to the set
  of interfaces that own a message.
* `ListSorted` (`SortedWhenWaiting`) from `OrderInv`: relayed messages stand in front of
  all own ones, which are sorted, and the walk takes the relayed ones away before the
  loop waits. `DirectLinkExact` (`DirectLinkOnItsInterface`, an action property)
  follows from the same invariant.
* `EchoesCounted` (`EchoWindow`), also under `SeparateCells` (an echo is heard on
  the interface that sent; otherwise the code counts it for another one, see
  section 3) and `WindowOfSeveral` (W > 1), for states in which no interface's numbers have
  wrapped (`BeforeWrap`). The invariant `EchoInv` ties `out.seqno` to the number
  of the message that is queued and to the one sent last, two behind.
* `ListImplementsTimers`: the initial states of `Schedule` map to initial states of
  `OgmTimer` and every step to a step or a stutter, so that the safety part of
  `ImplementsTimers` holds in general. Its liveness stays with TLC.

**TransTableProof.** `TableConsistent`, `NoHostBehindPurged`, `AnnouncesLocalHosts`,
`ListsFollowAnnouncements` and `TableTypes` for any hosts, originators and
announcements. The conjunction of the module's invariants is inductive:
`ListedWereAnnounced` is needed because a purged originator without a buffer keeps
its list, which is right only if the list is empty.

**OriginatorProof.** For any number of links, window and ring sizes and messages in
any order: `OriginatorTypes`, `RouterAlwaysBest` (`RouterIsBest`), `NothingPromised`
(`TqHonest`) and `NoRouteFlipping` (`NoFlipping`, an action property). The invariant
adds `GoodNodes` (no ring and no average holds more than the best tq heard, and no
`last_ttl` more than the highest ttl), for OGMs with any tq and any ttl, and `Ranking` (`neigh_list` has no duplicates and neighbours that are
not listed have average 0). That the average of a ring is bounded by its elements
(`SumIsBounded`), and what the filtered list contains (`KeepFacts`), are
inductions over data. The library's induction theorems take an operator as
parameter, which the provers cannot instantiate; the module therefore first proves
induction as a statement about *sets* of numbers (`NatInSteps`, from a pigeonhole
theorem on finite sets) and from it that primitive recursion defines a function
(`PrimitiveRecursion`), so that a recursive function can be unfolded.

**DataPlaneProof.** For any mesh of nodes, interfaces and links, any routes, loss,
reordering, purges and restarts: `MeshTypes`; `EchoAnswered` (`AnswerReachesAsker`) from
an invariant on what each frame in the air has to do with its message (`Good`: who
asked, and how ttl and hops add up), that a unicast or an echo with its answers is one
frame at a time (`AloneIn`) and that what is under way was not delivered or answered yet
(`Pending`); `DeliveredAtMostOnce` (`DeliveredOnce`), where `FloodInv` adds that a broadcast a
node has delivered is in the flood history of its originator, and that a node has
no entry for itself. It needs `FewEvents` (`MaxEvents < W`): a node that gets a copy after a whole window of later
broadcasts has forgotten it and does deliver it again; how the window moves is the
subject of `FloodHistoryProof`.

**UnixClientsProof.** For any number of sockets, uid slots and debug levels and both
threads: `DebugListsAgree` (`DebugListsMatch`, the type invariant included), `SlotsAgree`
(`SlotsMatchUids`) and `WalkersUndisturbed` (`WalkedListIsStable`, an action property). The
invariant adds `ClientsListed` (the loop is at a client that is connected and listed once),
`LocksOk` (who walks a list, or is about to change it, holds its mutex, and
`unix_listen` prints nothing while it holds one), and, for the steps of a request in
between, where the client it is about may be missing. The counters stay within
their range because a list without duplicates is no longer than there are sockets
(`ShortList`, again a pigeonhole argument).

**GatewayListProof.** For any originators, memory, classes and timeouts: `ListStaysWhole`
(`ListIsWhole`, the type invariant included), `ListTellsGateways` (`GatewaysListed`) and
`LastPurgeFreesAll` (`NothingLeft`). The assumptions are that the sentinel `NULL` is no
cell, pointer or record, that the cells are finitely many and that the interval is
not 0. The first half is about `list-batman.c` alone: `IsRing(s, l)` says that the pointers
of `l` go through the cells of the sequence `s` and back to the head; `AddTail` and
`Delete` say what `list_add_tail`, and `list_del` *with the right predecessor*, do to that
sequence, and `ElementsAre` that `list_for_each` visits it. `SweptIs` is the loop of `purge_orig`: at
each entry, the entries that stay are a prefix of the ring whose last cell is `prev_list_head`
(`SweptTo`), so that every `list_del` gets its predecessor. `GatewaysListed` is inductive
together with this; the case that matters is an originator at an address to which an
entry still points, where the uniqueness of entries makes `update_gw_list` find
the right one. `NothingLeft` needs `PastTimes`: nothing was heard or deleted later than now.

**DaemonProof.** For any number of chunks and of faults (damaged chunks, exhausted memory,
frees of what is not owned, in either thread), and with every step of starting failing, the thread included: `TypeCorrect`,
`WrapperKeepsList` (`ListIsHeap`), `FreedOnce` (`NoDoubleFree`), `ReleasedBeforeExit`
(`EverythingReleased`) and `CleanedUp` (`CleanedUpLast`). `AllocateAssumption` only adds
to the bounds that the values `NULL` and `Freed` differ from each other, from chunks and
from counters. The invariant has two halves:

* `HeapOk`, on the wrapper alone: there is a sequence of different chunks that
  `chunkList` and `next` go through; whoever links, walks or checks holds `chunk_mutex`
  (`Locked`), so that what a walk has seen of the list stays true (`WalkAt`: `previous` and `walker` are
  neighbours in it, and the chunk looked for is not among those passed); chunks in hand are
  allocated, not listed and different (`HandsOk`); and no other allocated chunk is missing
  (`NoneLost`). `PushChunk` and `TakeOut` say what linking and unlinking do to the
  sequence, `ListedAre` that `ListAt` enumerates it.
* On the life of the threads: `LifeOk` (when `unix_listen` can be running, and who is outside the
  wrapper at which label), `TakenOk` (what is taken at which stage of starting and is given
  back after which step of `restore_defaults`, by either thread), `ReturnOk` (what main owns on
  its way out: at most the list of our hosts and the last vis packet), `KeptOk` (these two
  pointers lead to chunks) and `ReachedOk` (without a fault, every allocated chunk is an
  interface, owned by a thread or in its hands, on every path: what is left at the end is what
  main still owns, and of the clients of `unix_listen` there is one at a time here).

`HeapOk` is proved per kind of step (`MoveKeeps`, `LinkKeeps`, `UnlinkKeeps`, ...), so that the many
steps of the daemon that only move a thread are one case. That a walk has not passed the
chunk it looks for is what `ReachedOk` needs of it: without a fault, a walk that
comes to the end of the list would have looked for a chunk that is not in the heap.

Only model-checked: all liveness (`LocksReleased`, `FallsSilent`, `FloodReachesAll`, `Ends`, the
fairness parts of the refinements), which is outside the prover's reach; `ImplementsWindow`, because the word operations of
`BitArray` are `RECURSIVE` definitions; and `ChainsAreRight` and `ImplementsSet` of `HashTable`,
whose `AllKeys` and `Resized` flatten and filter sequences with library operators that take an
operator as parameter.

## 5. What is not modelled

* The check of the version byte in `receive_packet_batiface` (line 1522): its message
  says "Drop packet", but the packet is processed; only `batman()` drops originator
  messages of another version. All packets of the models have the right version.
* Bytes: byte order, packet layout, formatting and printing, the raw sockets and
  the tap device of `linux.c`.
* In `Allocate`: the counters of `MEMORY_USAGE`, a second compile-time switch; `next`
  pointers overwritten by a caller (only the magic numbers are damaged), and a
  segmentation fault inside the walk, which would then wait for its own lock. A socket
  that `rawsock_create` opens and gives up without closing (`linux.c:63`).
* In `Daemon`: a second interface (the loop of `posix-specific.c:755` runs once); the
  values of the options, the client mode (`-c`), which is a loop that
  copies what the daemon writes, and a return from `restore_and_exit` in the handler
  of a segmentation fault, which raises the signal again.
* The contents of vis packets: formatted from the neighbour list, they change no
  routing state. (The test at `batman-adv.c:627` is inverted: the list of secondary
  interfaces gets the primary one.)
* In `Originator`: the wrap of OGM sequence numbers, and of `get_time`, which wraps after
  49 days and would purge everything or nothing until the timers have passed it.
* `dlist.h` by its pointers: `TransTable` uses its lists as sets.
* `count_real_packets` sets `last_real_seqno` back for a late OGM without moving the
  windows, and marks nothing for the first OGM over a new neighbour, so
  that a duplicate can be taken for a new OGM. The model does the same; the
  properties checked hold in spite of it, and no property is stated about it.

* `handle_packet`, in the thread of `unix_listen`, looks up `orig_hash` without a lock
  while the main thread changes it; `DataPlane` takes the look-up as one step.

## 6. Plan

Done: the window and the flood history, scheduling, the translation table, one
originator, the gateway list, the hash table, the clients, the data plane with
restarts, memory and the life of the process, and the theorems above: every safety
invariant the runs check is proved in general but `ChainsAreRight`. What is left of
the code is formatting, option values and calls of the operating system. Left to
prove: `ChainsAreRight` and the safety part of `ImplementsSet`, with `AllKeys` written as
a recursive function and treated like `Keep` in `OriginatorProof`.
