------------------------------ MODULE Allocate ------------------------------
(***************************************************************************)
(* The wrapper around malloc and free: every chunk carries a magic number  *)
(* in front of it and behind it and is kept in one list, chunkList, which  *)
(* all threads change under chunk_mutex; an error ends the process through *)
(* restore_and_exit.  The list is modelled by its pointers, which live in  *)
(* the memory of the chunks, with one step for each thing another thread   *)
(* could see.                                                              *)
(*                                                                         *)
(* The errors this wrapper is there for are faults of the model: a write   *)
(* in front of or behind a chunk, and a chunk that is freed by someone who *)
(* does not own it (any more).                                             *)
(***************************************************************************)
EXTENDS Integers, FiniteSets

CONSTANTS
    MaxChunks,  \* bound: malloc returns the addresses 1..MaxChunks
    Threads,    \* the threads of the process
    MaxFaults,  \* bound: faults in one run
    NULL,
    Nobody,     \* holds a mutex that is free
    Freed       \* content of freed memory

Chunks == 1..MaxChunks

ASSUME AllocateAssumption ==
    /\ MaxChunks \in Nat /\ MaxFaults \in Nat
    /\ NULL \notin Chunks \cup {Freed, 0, 1} /\ Freed \notin {0, 1}
    /\ Nobody \notin Threads

VARIABLES
    allocated,    \* what malloc has given out
    chunkList,    \* first chunk of the list
    next,         \* chunkHeader->next, which stays in freed memory
    damaged,      \* <<chunk, "header" or "trailer">> without magic number
    owned,        \* per thread: chunks its code has a pointer to
    chunk_mutex,  \* chunk_mutex
    pc,           \* per thread: where in this module it is
    chunk,        \* per thread: chunkHeader
    old,          \* per thread: memoryParameter of debugRealloc, or NULL
    walker, previous, \* per thread: where its walk over the list is
    clients_num,  \* 1: somebody is on debug level 4; NULL before debug_clients is set up, Freed after
    log_mutex,    \* the mutex of debug level 4
    crashed,      \* the process has died inside debug_output
    faults        \* number of faults so far

memory == <<allocated, damaged, owned>>
list == <<chunkList, next>>
position == <<chunk, old, walker, previous>>
log == <<clients_num, log_mutex, crashed>>
avars == <<memory, list, chunk_mutex, pc, position, log, faults>>

ATypeOK ==
    /\ allocated \subseteq Chunks
    /\ chunkList \in Chunks \cup {NULL}
    /\ next \in [Chunks -> Chunks \cup {NULL}]
    /\ damaged \subseteq Chunks \X {"header", "trailer"}
    /\ owned \in [Threads -> SUBSET Chunks]
    /\ chunk_mutex \in Threads \cup {Nobody}
    /\ pc \in [Threads -> {"idle", "add", "link", "lock", "walk", "free", "check", "report"}]
    /\ {chunk, old, walker, previous} \subseteq [Threads -> Chunks \cup {NULL}]
    /\ clients_num \in {NULL, Freed, 0, 1}
    /\ log_mutex \in Threads \cup {Nobody}
    /\ crashed \in BOOLEAN
    /\ faults \in 0..MaxFaults

AInit ==
    /\ allocated = {}
    /\ chunkList = NULL
    /\ next = [c \in Chunks |-> NULL]
    /\ damaged = {}
    /\ owned = [t \in Threads |-> {}]
    /\ chunk_mutex = Nobody
    /\ pc = [t \in Threads |-> "idle"]
    /\ chunk = [t \in Threads |-> NULL]
    /\ old = [t \in Threads |-> NULL]
    /\ walker = [t \in Threads |-> NULL]
    /\ previous = [t \in Threads |-> NULL]
    /\ clients_num = NULL
    /\ log_mutex = Nobody
    /\ crashed = FALSE
    /\ faults = 0

Goto(t, label) == pc' = [pc EXCEPT ![t] = label]

\* A call returns.
Done(t) ==
    /\ Goto(t, "idle")
    /\ chunk' = [chunk EXCEPT ![t] = NULL]
    /\ old' = [old EXCEPT ![t] = NULL]
    /\ walker' = [walker EXCEPT ![t] = NULL]
    /\ previous' = [previous EXCEPT ![t] = NULL]

\* One of the bounded number of faults happens.
Fault == faults < MaxFaults /\ faults' = faults + 1

\* What reading a magic number may yield; freed memory holds anything.
MagicOk(c, part) == IF c \in allocated THEN {<<c, part>> \notin damaged} ELSE BOOLEAN

-----------------------------------------------------------------------------
(* debugMalloc *)

\* malloc, which takes the first memory that is free, and the two magic
\* numbers are written.
NewChunk(t) ==
    /\ \E c \in Chunks \ allocated :
          /\ \A d \in Chunks \ allocated : c <= d
          /\ allocated' = allocated \cup {c}
          /\ damaged' = {d \in damaged : d[1] # c}
          /\ chunk' = [chunk EXCEPT ![t] = c]
    /\ Goto(t, "add")

debugMalloc(t) ==
    /\ pc[t] = "idle"
    /\ NewChunk(t)
    /\ old' = [old EXCEPT ![t] = NULL]
    /\ UNCHANGED <<owned, list, chunk_mutex, walker, previous, log, faults>>

\* Mutant of OutOfMemory: NULL is taken for memory.
OutOfMemory_unnoticed(t) ==
    /\ pc[t] = "idle"
    /\ Fault
    /\ chunk' = [chunk EXCEPT ![t] = NULL]
    /\ Goto(t, "add")
    /\ UNCHANGED <<memory, list, chunk_mutex, old, walker, previous, log>>

OutOfMemory(t) ==
    /\ pc[t] = "idle"
    /\ Fault
    /\ Goto(t, "report")
    /\ UNCHANGED <<memory, list, chunk_mutex, position, log>>

\* Mutant of LockToAdd: the list is changed without its mutex.
LockToAdd_without_mutex(t) ==
    /\ pc[t] = "add"
    /\ next' = [next EXCEPT ![chunk[t]] = chunkList]
    /\ Goto(t, "link")
    /\ UNCHANGED <<memory, chunkList, chunk_mutex, position, log, faults>>

LockToAdd(t) ==
    /\ pc[t] = "add"
    /\ chunk_mutex = Nobody
    /\ chunk_mutex' = t
    /\ next' = [next EXCEPT ![chunk[t]] = chunkList]
    /\ Goto(t, "link")
    /\ UNCHANGED <<memory, chunkList, position, log, faults>>

-----------------------------------------------------------------------------
(* debugFree *)

\* The magic number in front of the chunk is looked at before the lock is
\* taken.
CallFree(t, c) ==
    /\ \E ok \in MagicOk(c, "header") : Goto(t, IF ok THEN "lock" ELSE "report")
    /\ chunk' = [chunk EXCEPT ![t] = c]

debugFree(t, c) ==
    /\ pc[t] = "idle"
    /\ CallFree(t, c)
    /\ old' = [old EXCEPT ![t] = NULL]
    /\ UNCHANGED <<allocated, damaged, list, chunk_mutex, walker, previous, log_mutex, crashed>>

\* A thread frees the memory a pointer of its own leads to.
FreeOwn(t, c) ==
    /\ debugFree(t, c)
    /\ owned' = [owned EXCEPT ![t] = @ \ {c}]
    /\ UNCHANGED <<clients_num, faults>>

\* A chunk is freed by someone who does not own it.
FreeForeign(t, c) ==
    /\ c \notin owned[t]
    /\ debugFree(t, c)
    /\ Fault
    /\ UNCHANGED <<clients_num, owned>>

\* The end of debugMalloc; debugRealloc then frees what it has copied.
Link(t) ==
    /\ pc[t] = "link"
    /\ chunkList' = chunk[t]
    /\ chunk_mutex' = Nobody
    /\ owned' = [owned EXCEPT ![t] = (@ \ {old[t]}) \cup {chunk[t]}]
    /\ IF old[t] = NULL THEN Done(t) ELSE CallFree(t, old[t]) /\ UNCHANGED <<old, walker, previous>>
    /\ UNCHANGED <<allocated, damaged, next, log, faults>>

\* Mutant of LockToFree: the list is walked without its mutex.
LockToFree_without_mutex(t) ==
    /\ pc[t] = "lock"
    /\ walker' = [walker EXCEPT ![t] = chunkList]
    /\ previous' = [previous EXCEPT ![t] = NULL]
    /\ Goto(t, "walk")
    /\ UNCHANGED <<memory, list, chunk_mutex, chunk, old, log, faults>>

LockToFree(t) ==
    /\ pc[t] = "lock"
    /\ chunk_mutex = Nobody
    /\ chunk_mutex' = t
    /\ walker' = [walker EXCEPT ![t] = chunkList]
    /\ previous' = [previous EXCEPT ![t] = NULL]
    /\ Goto(t, "walk")
    /\ UNCHANGED <<memory, list, chunk, old, log, faults>>

WalkOn(t) ==
    /\ pc[t] = "walk"
    /\ walker[t] \notin {NULL, chunk[t]}
    /\ previous' = [previous EXCEPT ![t] = walker[t]]
    /\ walker' = [walker EXCEPT ![t] = next[walker[t]]]
    /\ UNCHANGED <<memory, list, chunk_mutex, pc, chunk, old, log, faults>>

\* Double free detected: reported with the lock held.
NotListed(t) ==
    /\ pc[t] = "walk"
    /\ walker[t] = NULL
    /\ Goto(t, "report")
    /\ UNCHANGED <<memory, list, chunk_mutex, position, log, faults>>

\* The chunk leaves the list; then the number behind it is looked at.
Unlink(t) ==
    /\ pc[t] = "walk"
    /\ walker[t] = chunk[t]
    /\ IF previous[t] = NULL
       THEN chunkList' = next[walker[t]] /\ UNCHANGED next
       ELSE next' = [next EXCEPT ![previous[t]] = next[walker[t]]] /\ UNCHANGED chunkList
    /\ chunk_mutex' = Nobody
    /\ Goto(t, IF <<chunk[t], "trailer">> \in damaged THEN "report" ELSE "free")
    /\ UNCHANGED <<memory, position, log, faults>>

\* What freed memory holds is free()'s business.
free(t) ==
    /\ pc[t] = "free"
    /\ allocated' = allocated \ {chunk[t]}
    /\ next' = [next EXCEPT ![chunk[t]] = NULL]
    /\ Done(t)
    /\ UNCHANGED <<damaged, owned, chunkList, chunk_mutex, log, faults>>

-----------------------------------------------------------------------------
(* debugRealloc *)

\* Both magic numbers are looked at, and the new chunk allocated.
debugRealloc(t, c) ==
    /\ pc[t] = "idle"
    /\ \E header \in MagicOk(c, "header"), trailer \in MagicOk(c, "trailer") :
          IF header /\ trailer
          THEN NewChunk(t) /\ old' = [old EXCEPT ![t] = c]
          ELSE Goto(t, "report") /\ UNCHANGED <<allocated, damaged, chunk, old>>
    /\ UNCHANGED <<owned, list, chunk_mutex, walker, previous, log, faults>>

-----------------------------------------------------------------------------
(* checkIntegrity *)

checkIntegrity(t) ==
    /\ pc[t] = "idle"
    /\ chunk_mutex = Nobody
    /\ chunk_mutex' = t
    /\ walker' = [walker EXCEPT ![t] = chunkList]
    /\ Goto(t, "check")
    /\ UNCHANGED <<memory, list, chunk, old, previous, log, faults>>

CheckChunk(t) ==
    /\ pc[t] = "check"
    /\ walker[t] # NULL
    /\ \E header \in MagicOk(walker[t], "header"), trailer \in MagicOk(walker[t], "trailer") :
          IF header /\ trailer
          THEN walker' = [walker EXCEPT ![t] = next[walker[t]]] /\ UNCHANGED pc
          ELSE Goto(t, "report") /\ UNCHANGED walker
    /\ UNCHANGED <<memory, list, chunk_mutex, chunk, old, previous, log, faults>>

EndCheck(t) ==
    /\ pc[t] = "check"
    /\ walker[t] = NULL
    /\ chunk_mutex' = Nobody
    /\ Done(t)
    /\ UNCHANGED <<memory, list, log, faults>>

-----------------------------------------------------------------------------
(* An error: debug_output(0, ...), unlock, restore_and_exit *)

Unlocked(t) == IF chunk_mutex = t THEN Nobody ELSE chunk_mutex

\* debug_output writes to the clients of level 4, if there are any, and
\* comes back once it has got their mutex.
Report(t) ==
    /\ pc[t] = "report"
    /\ clients_num # NULL
    /\ clients_num = 1 => log_mutex = Nobody
    /\ chunk_mutex' = Unlocked(t)
    /\ Done(t)
    /\ UNCHANGED <<memory, list, log, faults>>

\* debug_output calls itself without end: whoever holds the mutex waits for
\* the thread that tries it.
Stuck(t) ==
    /\ clients_num = 1
    /\ \/ log_mutex = t
       \/ log_mutex # Nobody /\ chunk_mutex = t /\ pc[log_mutex] \in {"add", "lock"}

\* The stack overflows; or clients_num is followed before it is set up or
\* after it was freed.
ReportCrashes(t) ==
    /\ pc[t] = "report"
    /\ Stuck(t) \/ clients_num \in {NULL, Freed}
    /\ crashed' = TRUE
    /\ UNCHANGED <<memory, list, chunk_mutex, pc, position, clients_num, log_mutex, faults>>

-----------------------------------------------------------------------------
(* What a thread does inside this module once it was called, but for the    *)
(* end of an error, which is restore_and_exit                              *)

Allocator(t) ==
    \/ LockToAdd(t) \/ Link(t)
    \/ LockToFree(t) \/ WalkOn(t) \/ NotListed(t) \/ Unlink(t) \/ free(t)
    \/ CheckChunk(t) \/ EndCheck(t)
    \/ ReportCrashes(t)

\* A caller writes in front of its memory or behind it.
Damage(t) ==
    /\ pc[t] = "idle"
    /\ Fault
    /\ \E c \in owned[t], part \in {"header", "trailer"} : damaged' = damaged \cup {<<c, part>>}
    /\ UNCHANGED <<allocated, owned, list, chunk_mutex, pc, position, log>>

-----------------------------------------------------------------------------
(* Properties *)

\* The n-th chunk of the list.
ListAt[n \in 0..Cardinality(Chunks)] ==
    IF n = 0 THEN chunkList
    ELSE IF ListAt[n - 1] = NULL THEN NULL ELSE next[ListAt[n - 1]]

Listed == {ListAt[n] : n \in DOMAIN ListAt} \ {NULL}

\* The list ends, holds allocated chunks only, and holds all of them but the
\* ones a thread is putting in or has just taken out (debugMalloc and
\* debugFree of both threads, at every point of them).
ListIsHeap ==
    /\ ListAt[Cardinality(Chunks)] = NULL
    /\ Listed \subseteq allocated
    /\ \A c \in allocated \ Listed :
          \/ \E t \in Threads : chunk[t] = c /\ pc[t] \in {"add", "link", "free"}
          \/ <<c, "trailer">> \in damaged

\* Whatever the callers do, also if two threads free the same chunk at the
\* same time or one frees a chunk twice: free() gets allocated memory that
\* is not in the list and that no other thread is handing to free() or putting
\* into the list.
NoDoubleFree ==
    \A t \in Threads :
        pc[t] = "free" =>
            /\ chunk[t] \in allocated \ Listed
            /\ \A u \in Threads \ {t} : pc[u] \in {"add", "link", "free"} => chunk[u] # chunk[t]
=============================================================================
