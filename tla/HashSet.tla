------------------------------ MODULE HashSet ------------------------------
(***************************************************************************)
(* What hash.c promises: a finite set of keys that can be added, removed   *)
(* and found, and gone through.  Going through it visits every key once,   *)
(* also if the caller removes keys as it visits them; that the table has   *)
(* buckets, and grows, is not seen.                                        *)
(***************************************************************************)
EXTENDS Integers

CONSTANTS Keys, NULL

VARIABLES
    elems,    \* the keys that hash_find finds
    current,  \* the key the iterator is at, NULL outside an iteration
    todo      \* keys still to be visited

svars == <<elems, current, todo>>

SInit == elems = {} /\ current = NULL /\ todo = {}

Add(k) ==
    /\ current = NULL
    /\ elems' = elems \cup {k}
    /\ UNCHANGED <<current, todo>>

Remove(k) ==
    /\ current = NULL
    /\ elems' = elems \ {k}
    /\ UNCHANGED <<current, todo>>

Clear ==
    /\ current = NULL
    /\ elems' = {}
    /\ UNCHANGED <<current, todo>>

\* The iteration starts with any key, or goes on to one not yet visited.
Visit ==
    LET left == IF current = NULL THEN elems ELSE todo
    IN  \E k \in left :
          /\ current' = k
          /\ todo' = left \ {k}
          /\ UNCHANGED elems

RemoveCurrent ==
    /\ current # NULL
    /\ elems' = elems \ {current}
    /\ UNCHANGED <<current, todo>>

\* The iteration ends when nothing is left.
Done ==
    /\ current # NULL
    /\ todo = {}
    /\ current' = NULL
    /\ UNCHANGED <<elems, todo>>

SNext ==
    \/ \E k \in Keys : Add(k) \/ Remove(k)
    \/ Clear
    \/ Visit \/ RemoveCurrent \/ Done

\* An iteration that has been started is finished.
GoOn == current # NULL /\ (Visit \/ Done)

SSpec == SInit /\ [][SNext]_svars /\ WF_svars(GoOn)
=============================================================================
