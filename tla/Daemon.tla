------------------------------- MODULE Daemon -------------------------------
(***************************************************************************)
(* The life of the process and its two threads: main parses its options,   *)
(* takes what it needs step by step (apply_init_args), starts the thread   *)
(* of unix_listen and runs batman(); at the end, or as soon as a step      *)
(* fails, restore_defaults gives everything back and waits for the thread. *)
(* An error inside the memory wrapper calls restore_and_exit in whichever  *)
(* thread it happens.                                                      *)
(*                                                                         *)
(* What the threads do in between is reduced to the memory they allocate   *)
(* and free; unix_listen does so also while it holds the mutex of the      *)
(* debug level that errors are written to.  An interface is named by its   *)
(* chunk; the chunks of debug_clients, which only main allocates and       *)
(* frees while it is alone, are left out of the list.                      *)
(***************************************************************************)
EXTENDS Allocate

CONSTANT
    Options     \* what the daemon may be started with: <<clients of debug level 4, vis server>>

ASSUME DaemonAssumption ==
    /\ Threads = {"main", "listen"}
    /\ Options \subseteq {0, 1} \X BOOLEAN

VARIABLES
    life,           \* per thread: where it is outside the memory wrapper
    returning,      \* main is in the restore_defaults of main(), not of an error
    exited,         \* the process has called exit
    stop,           \* stop
    if_list,        \* if_list
    raw_socks,      \* interfaces whose raw_sock is an open socket
    if_pos,         \* per thread: the interface restore_defaults is at
    vis_server,     \* vis packets are sent
    hna_buff,       \* hna_buff, the list of our hosts
    vis_packet,     \* vis_packet, the last one sent
    tap_sock,       \* the tap device exists
    unix_sock       \* the listening socket is open

taken == <<if_list, raw_socks, if_pos, tap_sock, unix_sock>>
kept == <<hna_buff, vis_packet>>
dvars == <<life, returning, exited, stop, vis_server, kept, taken>>
vars == <<avars, dvars>>

TypeOK ==
    /\ ATypeOK
    /\ life["main"] \in {"args", "debug", "ifs", "add_if", "tap", "vis", "unix", "thread",
                         "batman_init", "batman", "check", "vis_packet", "vis_data", "purge",
                         "restore_ifs", "restore_if", "restore_unix", "join", "cleanup", "leak"}
    /\ life["listen"] \in {"none", "serve", "locked", "unlock", "cleanup", "exit",
                           "restore_ifs", "restore_if", "restore_unix", "join"}
    /\ {returning, exited, stop, vis_server, tap_sock, unix_sock} \subseteq BOOLEAN
    /\ if_list \subseteq Chunks /\ raw_socks \subseteq Chunks
    /\ if_pos \in [Threads -> Chunks \cup {NULL}]
    /\ {hna_buff, vis_packet} \subseteq Chunks \cup {NULL}

Init ==
    /\ AInit
    /\ life = [main |-> "args", listen |-> "none"]
    /\ returning = FALSE /\ exited = FALSE /\ stop = FALSE
    /\ if_list = {} /\ raw_socks = {}
    /\ if_pos = [t \in Threads |-> NULL]
    /\ hna_buff = NULL /\ vis_packet = NULL
    /\ vis_server = FALSE /\ tap_sock = FALSE /\ unix_sock = FALSE

\* A thread is at a label, and not inside the memory wrapper.
At(t, label) == life[t] = label /\ pc[t] = "idle"

Become(t, label) == life' = [life EXCEPT ![t] = label]

-----------------------------------------------------------------------------
(* apply_init_args *)

\* Options that are refused, or that only print something, end the process.
ParseArgs ==
    /\ At("main", "args")
    /\ \/ Become("main", "debug") /\ UNCHANGED exited
       \/ exited' = TRUE /\ UNCHANGED life
    /\ UNCHANGED <<avars, returning, stop, vis_server, kept, taken>>

\* tap_probe reports that it failed before debug_clients is there.
ProbeFails ==
    /\ At("main", "args")
    /\ Goto("main", "report")
    /\ UNCHANGED <<memory, list, chunk_mutex, position, log, faults, dvars>>

\* debug_clients is set up; somebody may be on debug level 4 from now on (as
\* the terminal is with the option -d 4).  The fork may fail.
SetUpDebug ==
    /\ At("main", "debug")
    /\ clients_num' \in {o[1] : o \in Options}
    /\ Become("main", "ifs") \/ Become("main", "restore_ifs")
    /\ UNCHANGED <<memory, list, chunk_mutex, pc, position, log_mutex, crashed, faults,
                   returning, exited, stop, vis_server, kept, taken>>

AllocateInterface ==
    /\ At("main", "ifs")
    /\ debugMalloc("main")
    /\ Become("main", "add_if")
    /\ UNCHANGED <<returning, exited, stop, vis_server, kept, taken>>

\* Mutant of AddInterface: only an interface that works is put into the list.
AddInterface_when_up ==
    /\ At("main", "add_if")
    /\ owned' = [owned EXCEPT !["main"] = {}]
    /\ \/ if_list' = owned["main"] /\ raw_socks' = owned["main"] /\ Become("main", "tap")
       \/ raw_socks' \in {{}, owned["main"]} /\ Become("main", "restore_ifs") /\ UNCHANGED if_list
    /\ UNCHANGED <<allocated, damaged, list, chunk_mutex, pc, position, log, faults,
                   returning, exited, stop, vis_server, kept, if_pos, tap_sock, unix_sock>>

\* init_interface: the interface is in the list before its socket is opened.
\* (A socket that rawsock_create has opened and then given up without closing
\* it is known to nobody.)
AddInterface ==
    /\ At("main", "add_if")
    /\ if_list' = owned["main"]
    /\ owned' = [owned EXCEPT !["main"] = {}]
    /\ \/ raw_socks' = owned["main"] /\ Become("main", "tap")
       \/ raw_socks' \in {{}, owned["main"]} /\ Become("main", "restore_ifs")
    /\ UNCHANGED <<allocated, damaged, list, chunk_mutex, pc, position, log, faults,
                   returning, exited, stop, vis_server, kept, if_pos, tap_sock, unix_sock>>

\* tap_create removes the device itself if it fails half-way.
CreateTap ==
    /\ At("main", "tap")
    /\ \/ tap_sock' = TRUE /\ Become("main", "vis")
       \/ UNCHANGED tap_sock /\ Become("main", "restore_ifs")
    /\ UNCHANGED <<avars, returning, exited, stop, vis_server, kept, if_list, raw_socks, if_pos, unix_sock>>

\* With the option -s vis packets are sent, for which a socket is needed.
CreateVisSocket ==
    /\ At("main", "vis")
    /\ vis_server' \in {o[2] : o \in {p \in Options : p[1] = clients_num}}
    /\ Become("main", "unix") \/ (vis_server' /\ Become("main", "restore_ifs"))
    /\ UNCHANGED <<avars, returning, exited, stop, kept, taken>>

CreateUnixSocket ==
    /\ At("main", "unix")
    /\ unix_sock' = TRUE
    /\ Become("main", "thread") \/ Become("main", "restore_ifs")
    /\ UNCHANGED <<avars, returning, exited, stop, vis_server, kept, if_list, raw_socks, if_pos, tap_sock>>

\* Whether there is a thread now is not looked at.
StartThread ==
    /\ At("main", "thread")
    /\ \E started \in {"serve", "none"} : life' = [main |-> "batman_init", listen |-> started]
    /\ UNCHANGED <<avars, returning, exited, stop, vis_server, kept, taken>>

-----------------------------------------------------------------------------
(* batman *)

Return == Become("main", "restore_ifs") /\ returning' = TRUE

\* The tables are made; if that fails batman() returns.
BatmanInit ==
    /\ At("main", "batman_init")
    /\ (Become("main", "batman") /\ UNCHANGED returning) \/ Return
    /\ UNCHANGED <<avars, exited, stop, vis_server, kept, taken>>

\* What a pointer of main is once the call that has begun returns, which it
\* does not if it has found an error.  (Nobody else looks at it.)
Assigned(pointer) == IF pc'["main"] = "add" THEN chunk'["main"] ELSE pointer

\* A round of the main loop: it writes the list of our hosts into new memory
\* if it has changed, as it has in the first round, and stores originators,
\* neighbours, hosts or packets or drops some ...  (bounds: one of these in a
\* round; one chunk beside hna_buff, which with a vis server is the vis
\* packet; our hosts change later only while hna_buff is alone, and not with
\* a vis server)
hna_update ==
    /\ At("main", "batman")
    /\ ~ stop
    /\ \/ hna_buff = NULL /\ debugMalloc("main")
       \/ hna_buff # NULL /\ ~ vis_server /\ owned["main"] \subseteq {hna_buff}
          /\ debugRealloc("main", hna_buff)
    /\ hna_buff' = Assigned(hna_buff)
    /\ Become("main", "check")
    /\ UNCHANGED <<returning, exited, stop, vis_server, vis_packet, taken>>

Store ==
    /\ At("main", "batman")
    /\ ~ stop /\ ~ vis_server
    /\ hna_buff # NULL
    /\ \/ owned["main"] \subseteq {hna_buff} /\ debugMalloc("main")
       \/ \E c \in owned["main"] \ {hna_buff} : FreeOwn("main", c)
    /\ Become("main", "check")
    /\ UNCHANGED <<returning, exited, stop, vis_server, kept, taken>>

NothingToDo ==
    /\ At("main", "batman")
    /\ ~ stop
    /\ hna_buff # NULL
    /\ Become("main", "check")
    /\ UNCHANGED <<avars, returning, exited, stop, vis_server, kept, taken>>

\* ... and looks at the memory, which it does once a second.
Check ==
    /\ At("main", "check")
    /\ checkIntegrity("main")
    /\ Become("main", IF vis_server THEN "vis_packet" ELSE "batman")
    /\ UNCHANGED <<returning, exited, stop, vis_server, kept, taken>>

\* generate_vis_packet: the packet of the last time is freed and a new one
\* begun, which grows with every neighbour or is freed if there is none.
FreeVisPacket ==
    /\ At("main", "vis_packet")
    /\ vis_packet # NULL
    /\ FreeOwn("main", vis_packet)
    /\ vis_packet' = NULL
    /\ UNCHANGED <<life, returning, exited, stop, vis_server, hna_buff, taken>>

NewVisPacket ==
    /\ At("main", "vis_packet")
    /\ vis_packet = NULL
    /\ debugMalloc("main")
    /\ vis_packet' = Assigned(vis_packet)
    /\ Become("main", "vis_data")
    /\ UNCHANGED <<returning, exited, stop, vis_server, hna_buff, taken>>

FillVisPacket ==
    /\ At("main", "vis_data")
    /\ \/ debugRealloc("main", vis_packet) /\ vis_packet' = Assigned(vis_packet)
       \/ FreeOwn("main", vis_packet) /\ vis_packet' = NULL
    /\ Become("main", "batman")
    /\ UNCHANGED <<returning, exited, stop, vis_server, hna_buff, taken>>

\* batman() was told to stop and frees what it has stored, but neither the
\* list of our hosts nor the last vis packet.
BatmanStops ==
    /\ At("main", "batman")
    /\ stop
    /\ Become("main", "purge")
    /\ UNCHANGED <<avars, returning, exited, stop, vis_server, kept, taken>>

PurgeAll ==
    /\ At("main", "purge")
    /\ \E c \in owned["main"] \ {hna_buff, vis_packet} : FreeOwn("main", c)
    /\ UNCHANGED dvars

BatmanReturns ==
    /\ At("main", "purge")
    /\ owned["main"] \subseteq {hna_buff, vis_packet}
    /\ Return
    /\ UNCHANGED <<avars, exited, stop, vis_server, kept, taken>>

\* Its select fails: batman() returns as it is and nobody is told to stop.
ReceiveFails ==
    /\ At("main", "batman")
    /\ Fault
    /\ Return
    /\ UNCHANGED <<memory, list, chunk_mutex, pc, position, log, exited, stop, vis_server, kept, taken>>

-----------------------------------------------------------------------------
(* unix_listen *)

\* A round of its loop: it is not to stop, and select does not fail.
Serving == At("listen", "serve") /\ ~ stop /\ unix_sock

\* A client comes or leaves (bound: one chunk of unix_listen at a time).
Serve ==
    /\ Serving
    /\ \/ owned["listen"] = {} /\ debugMalloc("listen")
       \/ \E c \in owned["listen"] : FreeOwn("listen", c)
    /\ UNCHANGED dvars

\* Another client joins the debug level that errors are written to, or leaves
\* it.
LockLog ==
    /\ Serving
    /\ log_mutex = Nobody
    /\ log_mutex' = "listen"
    /\ Become("listen", "locked")
    /\ UNCHANGED <<memory, list, chunk_mutex, pc, position, clients_num, crashed, faults,
                   returning, exited, stop, vis_server, kept, taken>>

JoinLevel ==
    /\ At("listen", "locked")
    /\ owned["listen"] = {}
    /\ debugMalloc("listen")
    /\ Become("listen", "unlock")
    /\ UNCHANGED <<returning, exited, stop, vis_server, kept, taken>>

LeaveLevel ==
    /\ At("listen", "locked")
    /\ \E c \in owned["listen"] : FreeOwn("listen", c)
    /\ Become("listen", "unlock")
    /\ UNCHANGED <<returning, exited, stop, vis_server, kept, taken>>

UnlockLog ==
    /\ At("listen", "unlock")
    /\ log_mutex' = Nobody
    /\ Become("listen", "serve")
    /\ UNCHANGED <<memory, list, chunk_mutex, pc, position, clients_num, crashed, faults,
                   returning, exited, stop, vis_server, kept, taken>>

\* The loop ends when stop is set, and when select fails because the
\* listening socket was closed or for another reason.
LeaveLoop ==
    /\ At("listen", "serve")
    /\ stop \/ ~ unix_sock
    /\ Become("listen", "cleanup")
    /\ UNCHANGED <<avars, returning, exited, stop, vis_server, kept, taken>>

SelectFails ==
    /\ At("listen", "serve")
    /\ Fault
    /\ Become("listen", "cleanup")
    /\ UNCHANGED <<memory, list, chunk_mutex, pc, position, log,
                   returning, exited, stop, vis_server, kept, taken>>

FreeClients ==
    /\ At("listen", "cleanup")
    /\ \E c \in owned["listen"] : FreeOwn("listen", c)
    /\ UNCHANGED dvars

EndThread ==
    /\ At("listen", "cleanup")
    /\ owned["listen"] = {}
    /\ Become("listen", "exit")
    /\ UNCHANGED <<avars, returning, exited, stop, vis_server, kept, taken>>

-----------------------------------------------------------------------------
(* restore_defaults, in the thread that stops or that has met an error *)

\* An error: restore_and_exit tells everybody to stop and removes the tap
\* device before it calls restore_defaults.
restore_and_exit(t) ==
    /\ Report(t)
    /\ stop' = TRUE
    /\ tap_sock' = FALSE
    /\ Become(t, "restore_ifs")
    /\ returning' = (returning /\ t # "main")
    /\ UNCHANGED <<exited, vis_server, kept, if_list, raw_socks, if_pos, unix_sock>>

\* Any other thing that cannot be done, or a segmentation fault.
GiveUp(t) ==
    /\ At(t, "batman") \/ At(t, "serve")
    /\ Fault
    /\ Goto(t, "report")
    /\ UNCHANGED <<memory, list, chunk_mutex, position, log, dvars>>

NextInterface(t) ==
    /\ At(t, "restore_ifs")
    /\ \E c \in if_list : if_pos' = [if_pos EXCEPT ![t] = c]
    /\ Become(t, "restore_if")
    /\ UNCHANGED <<avars, returning, exited, stop, vis_server, kept, if_list, raw_socks, tap_sock, unix_sock>>

\* The interface is closed, taken out of the list and freed.
RemoveInterface(t) ==
    /\ At(t, "restore_if")
    /\ raw_socks' = raw_socks \ {if_pos[t]}
    /\ if_list' = if_list \ {if_pos[t]}
    /\ debugFree(t, if_pos[t])
    /\ Become(t, "restore_ifs")
    /\ if_pos' = [if_pos EXCEPT ![t] = NULL]
    /\ UNCHANGED <<owned, clients_num, faults, returning, exited, stop, vis_server, kept, tap_sock, unix_sock>>

\* The other thread has removed it meanwhile: the pointers taken from freed
\* memory may lead anywhere.
RemoveCrashes(t) ==
    /\ At(t, "restore_if")
    /\ if_pos[t] \notin if_list
    /\ crashed' = TRUE
    /\ UNCHANGED <<memory, list, chunk_mutex, pc, position, clients_num, log_mutex, faults, dvars>>

\* No interface is left: tap_destroy.
RestoreTap(t) ==
    /\ At(t, "restore_ifs")
    /\ if_list = {}
    /\ tap_sock' = FALSE
    /\ Become(t, "restore_unix")
    /\ UNCHANGED <<avars, returning, exited, stop, vis_server, kept, if_list, raw_socks, if_pos, unix_sock>>

\* Mutant of RestoreUnix: the thread is waited for before its socket is closed.
RestoreUnix_joins_first(t) ==
    /\ At(t, "restore_unix")
    /\ t = "main" => life["listen"] \in {"none", "exit"}
    /\ unix_sock' = FALSE
    /\ Become(t, "join")
    /\ UNCHANGED <<avars, returning, exited, stop, vis_server, kept, if_list, raw_socks, if_pos, tap_sock>>

RestoreUnix(t) ==
    /\ At(t, "restore_unix")
    /\ unix_sock' = FALSE
    /\ Become(t, "join")
    /\ UNCHANGED <<avars, returning, exited, stop, vis_server, kept, if_list, raw_socks, if_pos, tap_sock>>

\* What a thread does after restore_defaults: exit, unless main() goes on.
AfterRestore(t) ==
    IF t = "main" /\ returning
    THEN Become(t, "cleanup") /\ UNCHANGED exited
    ELSE exited' = TRUE /\ UNCHANGED life

\* Mutant of Join: main does not wait.
Join_without_waiting(t) ==
    /\ At(t, "join")
    /\ AfterRestore(t)
    /\ UNCHANGED <<avars, returning, stop, vis_server, kept, taken>>

\* main waits for unix_listen, if it was started; unix_listen does not wait
\* for itself.
Join(t) ==
    /\ At(t, "join")
    /\ t = "main" => life["listen"] \in {"none", "exit"}
    /\ AfterRestore(t)
    /\ UNCHANGED <<avars, returning, stop, vis_server, kept, taken>>

restore_defaults(t) ==
    \/ restore_and_exit(t)
    \/ NextInterface(t) \/ RemoveInterface(t) \/ RemoveCrashes(t)
    \/ RestoreTap(t) \/ RestoreUnix(t) \/ Join(t)

\* The memory of debug_clients is freed, its mutexes included.
cleanup ==
    /\ At("main", "cleanup")
    /\ clients_num' = Freed
    /\ Become("main", "leak")
    /\ UNCHANGED <<memory, list, chunk_mutex, pc, position, log_mutex, crashed, faults,
                   returning, exited, stop, vis_server, kept, taken>>

\* checkLeak writes what is still allocated to debug_clients, which is freed.
checkLeak ==
    /\ At("main", "leak")
    /\ chunk_mutex = Nobody
    /\ \/ exited' = TRUE /\ UNCHANGED crashed
       \/ chunkList # NULL /\ crashed' = TRUE /\ UNCHANGED exited
    /\ UNCHANGED <<memory, list, chunk_mutex, pc, position, clients_num, log_mutex, faults,
                   life, returning, stop, vis_server, kept, taken>>

-----------------------------------------------------------------------------
(* Both threads *)

Alive == ~ crashed /\ ~ exited

\* The signal handler.
handler ==
    /\ clients_num # NULL
    /\ ~ stop /\ stop' = TRUE
    /\ UNCHANGED <<avars, life, returning, exited, vis_server, kept, taken>>

\* Steps a thread takes without waiting for anything but a mutex or a thread.
MainGoes ==
    /\ Alive
    /\ \/ Allocator("main") /\ UNCHANGED dvars
       \/ restore_defaults("main")
       \/ ParseArgs \/ ProbeFails \/ SetUpDebug
       \/ AllocateInterface \/ AddInterface \/ CreateTap \/ CreateVisSocket \/ CreateUnixSocket
       \/ StartThread \/ BatmanInit
       \/ hna_update \/ Store \/ NothingToDo \/ Check \/ BatmanStops
       \/ FreeVisPacket \/ NewVisPacket \/ FillVisPacket
       \/ PurgeAll \/ BatmanReturns \/ cleanup \/ checkLeak

ListenGoes ==
    /\ Alive
    /\ \/ Allocator("listen") /\ UNCHANGED dvars
       \/ restore_defaults("listen")
       \/ JoinLevel \/ LeaveLevel \/ UnlockLog
       \/ LeaveLoop \/ FreeClients \/ EndThread

\* The labels at which a thread asks for memory.
Allocating == {"debug", "ifs", "batman", "vis_packet", "vis_data", "serve", "locked"}

Faults ==
    \E t \in Threads :
        \/ GiveUp(t)
        \/ life[t] \in Allocating /\ OutOfMemory(t) /\ UNCHANGED dvars
        \/ /\ life[t] \in {"batman", "serve", "locked"}
           /\ Damage(t) \/ \E c \in Chunks : FreeForeign(t, c)
           /\ UNCHANGED dvars

Next ==
    \/ MainGoes
    \/ ListenGoes
    \/ Alive /\ (ReceiveFails \/ Serve \/ LockLog \/ SelectFails \/ handler \/ Faults)

\* Both threads go on, and a thread gets a mutex that is free again and again.
\* (select returns every second in both, and fails on a closed socket.)
Spec ==
    /\ Init /\ [][Next]_vars
    /\ SF_vars(MainGoes) /\ SF_vars(ListenGoes)

-----------------------------------------------------------------------------
(* Properties *)

\* Whatever step of starting, running or stopping fails, and in whichever
\* thread, the process gives back all it has taken before it exits: the tap
\* device, which would stay, the raw sockets and the unix socket.
EverythingReleased == exited => ~ tap_sock /\ ~ unix_sock /\ if_list = {} /\ raw_socks = {}

\* The memory of debug_clients, through which both threads write and lock, is
\* freed when unix_listen has ended or was never started; and if nothing
\* went wrong, nothing is left when main() looks for leaks but the list of our
\* hosts and the last vis packet, which nobody frees.  (Here a client leaves
\* before the next one comes; the memory of clients that are cut off by
\* another one that leaves is lost.)
CleanedUpLast ==
    /\ clients_num = Freed => life["listen"] \in {"none", "exit"}
    /\ At("main", "leak") /\ faults = 0 => allocated \subseteq {hna_buff, vis_packet}

\* The daemon ends when it is told to stop and when it gives up, and no damage
\* to its memory goes unnoticed: neither thread waits for the other for ever.
Ends ==
    \/ stop \/ damaged # {}
    \/ \E t \in Threads : life[t] = "restore_ifs" \/ pc[t] = "report"
    ~> (exited \/ crashed)
=============================================================================
