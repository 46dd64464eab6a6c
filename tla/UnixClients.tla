---------------------------- MODULE UnixClients ----------------------------
(***************************************************************************)
(* The clients on the unix socket and the debug output they subscribe to:  *)
(* unix_listen, a thread of its own, accepts clients, keeps the list of    *)
(* them, hands out uids for their echo requests and moves them between the *)
(* debug lists; debug_output, called by both threads, writes to all        *)
(* clients of a debug list under that list's mutex; receive_packet_batiface*)
(* gives echo replies to the client whose uid they carry.                  *)
(*                                                                         *)
(* A client is named by its socket; sockets and the memory of clients are  *)
(* used again once a client has left.                                      *)
(***************************************************************************)
EXTENDS Integers, SequencesExt

CONSTANTS
    MaxSock,    \* bound: sockets 1..MaxSock may be open at the same time
    MaxUid,     \* slots of unix_packet, 255 in the code
    Levels,     \* debug levels a client may ask for
    ErrLevel,   \* the level debug_output(0, ...) writes to: 4
    ConnLevel,  \* the level connections are reported on: 3
    Free,       \* a mutex nobody holds
    NULL, Freed \* an empty slot; a slot that points to freed memory

Socks == 1..MaxSock

Uids == 0..(MaxUid - 1)

Threads == {"main", "listen"}

ASSUME UnixAssumption ==
    /\ MaxSock \in Nat /\ MaxUid \in Nat \ {0}
    /\ ErrLevel \in Levels /\ ConnLevel \in Levels /\ 0 \notin Levels
    /\ Free \notin Threads
    /\ NULL \notin Socks /\ Freed \notin Socks /\ NULL # Freed

VARIABLES
    running,      \* FALSE once is_aborted() is true
    crashed,      \* the process has died of a NULL pointer
    open,         \* sockets of clients, in wait_sockets
    client_list,  \* unix_if.client_list
    max_sock,     \* max_sock of unix_listen, 0 for the listening socket
    debug_level,  \* unix_client->debug_level, 0 for none
    uid,          \* unix_client->uid
    unix_packet,  \* unix_packet
    fd_list,      \* debug_clients.fd_list
    clients_num,  \* debug_clients.clients_num
    mutex,        \* debug_clients.mutex
    pc,           \* where unix_listen is
    unix_pos,     \* index of the client its loop is at
    request,      \* the level that client asks for, 0 if it has left
    out,          \* per thread: the level debug_output writes to, 0 outside it
    debug_pos,    \* per thread: index of the entry it writes to, 0 without lock
    reply         \* uid of the echo reply the main thread passes on, or NULL

clients == <<open, client_list, max_sock, uid, unix_packet>>
debug == <<debug_level, fd_list, clients_num>>
printing == <<out, debug_pos>>
loop == <<pc, unix_pos, request>>
vars == <<running, crashed, clients, debug, mutex, loop, printing, reply>>

TypeOK ==
    /\ running \in BOOLEAN /\ crashed \in BOOLEAN
    /\ open \subseteq Socks
    /\ client_list \in Seq(Socks)
    /\ max_sock \in 0..MaxSock
    /\ debug_level \in [Socks -> Levels \cup {0}]
    /\ uid \in [Socks -> Uids]
    /\ unix_packet \in [Uids -> Socks \cup {NULL, Freed}]
    /\ fd_list \in [Levels -> Seq(Socks)]
    /\ clients_num \in [Levels -> 0..MaxSock]
    /\ mutex \in [Levels -> Threads \cup {Free}]
    /\ pc \in {"select", "loop", "lock_old", "unlink", "lock_new", "add",
               "leave", "close", "cleanup", "exit"}
    /\ unix_pos \in 1..(MaxSock + 1)
    /\ request \in Levels \cup {0}
    /\ out \in [Threads -> Levels \cup {0}]
    /\ debug_pos \in [Threads -> 0..(MaxSock + 1)]
    /\ reply \in Uids \cup {NULL}

Init ==
    /\ running = TRUE /\ crashed = FALSE
    /\ open = {}
    /\ client_list = <<>>
    /\ max_sock = 0
    /\ debug_level = [s \in Socks |-> 0]
    /\ uid = [s \in Socks |-> 0]
    /\ unix_packet = [u \in Uids |-> NULL]
    /\ fd_list = [l \in Levels |-> <<>>]
    /\ clients_num = [l \in Levels |-> 0]
    /\ mutex = [l \in Levels |-> Free]
    /\ pc = "select" /\ unix_pos = 1 /\ request = 0
    /\ out = [t \in Threads |-> 0]
    /\ debug_pos = [t \in Threads |-> 0]
    /\ reply = NULL

-----------------------------------------------------------------------------
(* debug_output, in either thread *)

\* Nobody listens on that level.
Silent(t) ==
    /\ out[t] # 0 /\ debug_pos[t] = 0
    /\ clients_num[out[t]] = 0
    /\ out' = [out EXCEPT ![t] = 0]
    /\ UNCHANGED <<running, crashed, clients, debug, mutex, loop, debug_pos, reply>>

\* A mutex that is taken is itself reported, by debug_output(0, ...).
TryLock(t) ==
    /\ out[t] # 0 /\ debug_pos[t] = 0
    /\ clients_num[out[t]] > 0
    /\ IF mutex[out[t]] = Free
       THEN /\ mutex' = [mutex EXCEPT ![out[t]] = t]
            /\ debug_pos' = [debug_pos EXCEPT ![t] = 1]
            /\ UNCHANGED out
       ELSE /\ out' = [out EXCEPT ![t] = ErrLevel]
            /\ UNCHANGED <<mutex, debug_pos>>
    /\ UNCHANGED <<running, crashed, clients, debug, loop, reply>>

Write(t) ==
    /\ debug_pos[t] \in DOMAIN fd_list[out[t]]
    /\ debug_pos' = [debug_pos EXCEPT ![t] = @ + 1]
    /\ UNCHANGED <<running, crashed, clients, debug, mutex, loop, out, reply>>

Unlock(t) ==
    /\ debug_pos[t] > Len(fd_list[out[t]])
    /\ mutex' = [mutex EXCEPT ![out[t]] = Free]
    /\ out' = [out EXCEPT ![t] = 0]
    /\ debug_pos' = [debug_pos EXCEPT ![t] = 0]
    /\ UNCHANGED <<running, crashed, clients, debug, loop, reply>>

debug_output(t) ==
    \/ Silent(t)
    \/ TryLock(t)
    \/ out[t] # 0 /\ debug_pos[t] > 0 /\ (Write(t) \/ Unlock(t))

-----------------------------------------------------------------------------
(* unix_listen *)

At(label) == pc = label /\ out["listen"] = 0

Client == client_list[unix_pos]

\* A client that stays keeps max_sock at least as high as its socket.
Raised(s) == IF s > max_sock THEN s ELSE max_sock

\* accept returns the lowest socket that is not open.  The new client may be
\* allocated where a client that left has been.
Accept ==
    /\ At("select")
    /\ running
    /\ open # Socks
    /\ LET s == CHOOSE s \in Socks \ open : \A r \in Socks \ open : s <= r
       IN  /\ open' = open \cup {s}
           /\ client_list' = Append(client_list, s)
           /\ max_sock' = Raised(s)
           /\ debug_level' = [debug_level EXCEPT ![s] = 0]
           /\ uid' = [uid EXCEPT ![s] = 0]
           /\ \E p \in {s, Freed} :
                 unix_packet' = [u \in Uids |-> IF unix_packet[u] = Freed THEN p ELSE unix_packet[u]]
    /\ out' = [out EXCEPT !["listen"] = ConnLevel]
    /\ UNCHANGED <<running, crashed, fd_list, clients_num, mutex, loop, debug_pos, reply>>

\* accept fails: what was allocated for the client is forgotten.
AcceptFails ==
    /\ At("select")
    /\ running
    /\ out' = [out EXCEPT !["listen"] = ErrLevel]
    /\ UNCHANGED <<running, crashed, clients, debug, mutex, loop, debug_pos, reply>>

\* select reports data: the loop over all clients starts.
StartLoop ==
    /\ At("select")
    /\ running
    /\ pc' = "loop"
    /\ unix_pos' = 1
    /\ max_sock' = 0
    /\ UNCHANGED <<running, crashed, open, client_list, uid, unix_packet, debug, mutex, request,
                   printing, reply>>

EndLoop ==
    /\ At("loop")
    /\ unix_pos > Len(client_list)
    /\ pc' = "select"
    /\ unix_pos' = 1
    /\ UNCHANGED <<running, crashed, clients, debug, mutex, request, printing, reply>>

\* The client has sent nothing, or nothing of meaning.
Idle ==
    /\ At("loop")
    /\ unix_pos <= Len(client_list)
    /\ max_sock' = Raised(Client)
    /\ unix_pos' = unix_pos + 1
    /\ UNCHANGED <<running, crashed, open, client_list, uid, unix_packet, debug, mutex, pc, request,
                   printing, reply>>

\* The first free slot of unix_packet.
FreeSlot == {u \in Uids : unix_packet[u] = NULL /\ \A v \in Uids : unix_packet[v] = NULL => u <= v}

\* The level handle_packet reports an error to, 0 for none; the packet itself
\* belongs to the data plane.
handle_packet == {0, ErrLevel}

\* Mutant of EchoRequest: the client takes the slot without noting its uid.
EchoRequest_uid_not_set ==
    /\ At("loop")
    /\ unix_pos <= Len(client_list)
    /\ max_sock' = Raised(Client)
    /\ unix_pos' = unix_pos + 1
    /\ \E u \in FreeSlot : unix_packet' = [unix_packet EXCEPT ![u] = Client]
    /\ UNCHANGED <<running, crashed, open, client_list, uid, debug, mutex, pc, request,
                   out, debug_pos, reply>>

\* A 'p' message: a client whose uid is 0 gets the first free slot, even if 0
\* is the uid it was given before.  A client without a slot is refused,
\* which is reported as an error.
EchoRequest ==
    /\ At("loop")
    /\ unix_pos <= Len(client_list)
    /\ max_sock' = Raised(Client)
    /\ unix_pos' = unix_pos + 1
    /\ IF uid[Client] = 0 /\ FreeSlot # {}
       THEN \E u \in FreeSlot :
              /\ unix_packet' = [unix_packet EXCEPT ![u] = Client]
              /\ uid' = [uid EXCEPT ![Client] = u]
       ELSE UNCHANGED <<unix_packet, uid>>
    /\ \E l \in IF unix_packet'[uid'[Client]] = Client THEN handle_packet ELSE {ErrLevel} :
          out' = [out EXCEPT !["listen"] = l]
    /\ UNCHANGED <<running, crashed, open, client_list, debug, mutex, pc, request, debug_pos, reply>>

\* A 'd' message: the client leaves the level it is on, if any, and joins
\* the one it names, unless that is the same.
DebugRequest(level) ==
    /\ At("loop")
    /\ unix_pos <= Len(client_list)
    /\ max_sock' = Raised(Client)
    /\ request' = level
    /\ pc' = IF debug_level[Client] # 0 THEN "lock_old" ELSE "lock_new"
    /\ UNCHANGED <<running, crashed, open, client_list, uid, unix_packet, debug, mutex, unix_pos,
                   printing, reply>>

\* read fails or finds the connection closed.
HangUp ==
    /\ At("loop")
    /\ unix_pos <= Len(client_list)
    /\ request' = 0
    /\ pc' = IF debug_level[Client] # 0 THEN "lock_old" ELSE "leave"
    /\ \E l \in {0, ErrLevel} : out' = [out EXCEPT !["listen"] = l]
    /\ UNCHANGED <<running, crashed, clients, debug, mutex, unix_pos, debug_pos, reply>>

\* Mutant of LockOld: the list is changed without its mutex.
LockOld_without_mutex ==
    /\ At("lock_old")
    /\ pc' = "unlink"
    /\ UNCHANGED <<running, crashed, clients, debug, mutex, unix_pos, request, printing, reply>>

LockOld ==
    /\ At("lock_old")
    /\ mutex[debug_level[Client]] = Free
    /\ mutex' = [mutex EXCEPT ![debug_level[Client]] = "listen"]
    /\ pc' = "unlink"
    /\ UNCHANGED <<running, crashed, clients, debug, unix_pos, request, printing, reply>>

\* Mutants of Unlink: the mutex stays locked when the client has left; the
\* entry stays in the list when the client has left.
Unlink_keeps_mutex ==
    LET l == debug_level[Client]
    IN  /\ At("unlink")
        /\ fd_list' = [fd_list EXCEPT ![l] = RemoveFirst(@, Client)]
        /\ clients_num' = [clients_num EXCEPT ![l] = @ - 1]
        /\ pc' = IF request = 0 THEN "leave" ELSE "lock_new"
        /\ UNCHANGED <<running, crashed, clients, debug_level, mutex, unix_pos, request, printing, reply>>

Unlink_stays_listed ==
    LET l == debug_level[Client]
    IN  /\ At("unlink")
        /\ mutex' = [mutex EXCEPT ![l] = Free]
        /\ debug_level' = IF request = l THEN [debug_level EXCEPT ![Client] = 0] ELSE debug_level
        /\ pc' = IF request = 0 THEN "leave" ELSE IF request = l THEN "loop" ELSE "lock_new"
        /\ unix_pos' = IF request = l THEN unix_pos + 1 ELSE unix_pos
        /\ UNCHANGED <<running, crashed, clients, fd_list, clients_num, request, printing, reply>>

\* The client's entry leaves its debug list, and the mutex is unlocked.
Unlink ==
    LET l == debug_level[Client]
    IN  /\ At("unlink")
        /\ fd_list' = [fd_list EXCEPT ![l] = RemoveFirst(@, Client)]
        /\ clients_num' = [clients_num EXCEPT ![l] = IF Client \in ToSet(fd_list[l]) THEN @ - 1 ELSE @]
        /\ mutex' = [mutex EXCEPT ![l] = Free]
        /\ debug_level' = IF request = l THEN [debug_level EXCEPT ![Client] = 0] ELSE debug_level
        /\ pc' = IF request = 0 THEN "leave" ELSE IF request = l THEN "loop" ELSE "lock_new"
        /\ unix_pos' = IF request = l THEN unix_pos + 1 ELSE unix_pos
        /\ UNCHANGED <<running, crashed, clients, request, printing, reply>>

LockNew ==
    /\ At("lock_new")
    /\ mutex[request] = Free
    /\ mutex' = [mutex EXCEPT ![request] = "listen"]
    /\ pc' = "add"
    /\ UNCHANGED <<running, crashed, clients, debug, unix_pos, request, printing, reply>>

Add ==
    /\ At("add")
    /\ fd_list' = [fd_list EXCEPT ![request] = <<Client>> \o @]
    /\ clients_num' = [clients_num EXCEPT ![request] = @ + 1]
    /\ debug_level' = [debug_level EXCEPT ![Client] = request]
    /\ mutex' = [mutex EXCEPT ![request] = Free]
    /\ pc' = "loop"
    /\ unix_pos' = unix_pos + 1
    /\ UNCHANGED <<running, crashed, clients, request, printing, reply>>

\* The slot of a client with uid 0 is not cleared.
Leave ==
    /\ At("leave")
    /\ unix_packet' = IF uid[Client] # 0 THEN [unix_packet EXCEPT ![uid[Client]] = NULL] ELSE unix_packet
    /\ out' = [out EXCEPT !["listen"] = ConnLevel]
    /\ pc' = "close"
    /\ UNCHANGED <<running, crashed, open, client_list, max_sock, uid, debug, mutex, unix_pos, request,
                   debug_pos, reply>>

\* Pointers to the memory of client s after it was freed.
Dangling(s) == [u \in Uids |-> IF unix_packet[u] = s THEN Freed ELSE unix_packet[u]]

\* The client is unlinked with the list head as its predecessor, which cuts
\* off the clients in front of it: they stay connected and are not served.
Close ==
    /\ At("close")
    /\ open' = open \ {Client}
    /\ client_list' = SubSeq(client_list, unix_pos + 1, Len(client_list))
    /\ unix_packet' = Dangling(Client)
    /\ pc' = "loop"
    /\ unix_pos' = 1
    /\ UNCHANGED <<running, crashed, max_sock, uid, debug, mutex, request, printing, reply>>

\* The loop ends when the daemon is told to stop, or when select fails.
StartCleanup ==
    /\ At("select")
    /\ \E l \in {0, ErrLevel} :
          /\ ~ running <=> l = 0
          /\ out' = [out EXCEPT !["listen"] = l]
    /\ pc' = "cleanup"
    /\ UNCHANGED <<running, crashed, clients, debug, mutex, unix_pos, request, debug_pos, reply>>

\* All clients are freed, their debug entries without a lock and with the
\* list head as predecessor.
Cleanup ==
    /\ At("cleanup")
    /\ client_list # <<>>
    /\ LET s == Head(client_list)
           l == debug_level[s]
       IN  /\ \/ l = 0 /\ UNCHANGED <<fd_list, clients_num>>
              \/ \E k \in (IF l = 0 THEN {} ELSE DOMAIN fd_list[l]) :
                   /\ fd_list[l][k] = s
                   /\ fd_list' = [fd_list EXCEPT ![l] = SubSeq(@, k + 1, Len(@))]
                   /\ clients_num' = [clients_num EXCEPT ![l] = @ - 1]
              \/ /\ l # 0 /\ s \notin ToSet(fd_list[l])
                 /\ UNCHANGED <<fd_list, clients_num>>
           /\ unix_packet' = Dangling(s)
    /\ client_list' = Tail(client_list)
    /\ UNCHANGED <<running, crashed, open, max_sock, uid, debug_level, mutex, loop, printing, reply>>

Exit ==
    /\ At("cleanup")
    /\ client_list = <<>>
    /\ pc' = "exit"
    /\ UNCHANGED <<running, crashed, clients, debug, mutex, unix_pos, request, printing, reply>>

unix_listen ==
    \/ Accept \/ AcceptFails \/ StartLoop \/ EndLoop
    \/ Idle \/ EchoRequest \/ HangUp
    \/ \E l \in Levels : DebugRequest(l)
    \/ LockOld \/ Unlink \/ LockNew \/ Add
    \/ Leave \/ Close
    \/ StartCleanup \/ Cleanup \/ Exit

-----------------------------------------------------------------------------
(* The main thread *)

\* Anything it does may write to a debug level.
MainOutput(level) ==
    /\ out["main"] = 0 /\ reply = NULL
    /\ out' = [out EXCEPT !["main"] = level]
    /\ UNCHANGED <<running, crashed, clients, debug, mutex, loop, debug_pos, reply>>

\* An echo reply with uid u has come in: the slot is tested ...
ReplyTest(u) ==
    /\ out["main"] = 0 /\ reply = NULL
    /\ unix_packet[u] # NULL
    /\ reply' = u
    /\ UNCHANGED <<running, crashed, clients, debug, mutex, loop, printing>>

\* ... and may be read again for the write.
ReplyWrite ==
    /\ reply # NULL
    /\ reply' = NULL
    /\ crashed' \in {FALSE, unix_packet[reply] = NULL}
    /\ UNCHANGED <<running, clients, debug, mutex, loop, printing>>

\* The signal handler.
Abort ==
    /\ running
    /\ running' = FALSE
    /\ UNCHANGED <<crashed, clients, debug, mutex, loop, printing, reply>>

MainPrints == ~ crashed /\ debug_output("main")

ListenPrints == ~ crashed /\ debug_output("listen")

Listen == ~ crashed /\ unix_listen

Next ==
    \/ MainPrints
    \/ ListenPrints
    \/ Listen
    \/ /\ ~ crashed
       /\ \/ \E l \in Levels : MainOutput(l)
          \/ \E u \in Uids : ReplyTest(u)
          \/ ReplyWrite
          \/ Abort

\* A thread that prints, and unix_listen where it waits for nobody, go on.
Spec ==
    /\ Init /\ [][Next]_vars
    /\ WF_vars(MainPrints) /\ WF_vars(ListenPrints) /\ WF_vars(Listen)

-----------------------------------------------------------------------------
(* Properties, while unix_listen runs its loop *)

Serving == pc \notin {"cleanup", "exit"}

\* The debug lists, their counters and the clients' levels agree at every
\* point of every request: a client is on the list of its level only, once,
\* and is missing there only while unix_listen moves it.  An entry never
\* outlives its client, whose socket number the next client would get.
DebugListsMatch ==
    /\ TypeOK
    /\ Serving =>
        \A l \in Levels :
            /\ clients_num[l] = Len(fd_list[l])
            /\ IsInjective(fd_list[l])
            /\ \A s \in ToSet(fd_list[l]) : debug_level[s] = l /\ s \in open
            /\ \A s \in open : debug_level[s] = l /\ pc \in {"select", "loop"} => s \in ToSet(fd_list[l])

\* The list a thread is writing to does not change under it.
WalkedListIsStable ==
    [][ \A t \in Threads :
          Serving /\ out[t] # 0 /\ debug_pos[t] > 0 => fd_list'[out[t]] = fd_list[out[t]] ]_vars

\* A uid other than 0 belongs to one client: the slot with that number points
\* to it, and the slots of clients that have left are empty again.  (Slot 0
\* is exempt: uid 0 also stands for "none yet".)
SlotsMatchUids ==
    Serving =>
        /\ \A s \in open : uid[s] # 0 /\ pc # "close" => unix_packet[uid[s]] = s
        /\ \A u \in Uids \ {0} : unix_packet[u] # NULL => unix_packet[u] \in open /\ uid[unix_packet[u]] = u

\* No thread keeps a mutex for ever: none waits for another one, or stops,
\* while it holds one.
LocksReleased == \A l \in Levels : mutex[l] # Free ~> (mutex[l] = Free \/ crashed)
=============================================================================
