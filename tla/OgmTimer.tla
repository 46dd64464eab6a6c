------------------------------ MODULE OgmTimer ------------------------------
(***************************************************************************)
(* What schedule.c promises about the node's own originator messages: each *)
(* interface has a timer of its own; when it expires, the interface's next *)
(* originator message is broadcast and the timer is set again, one jittered*)
(* interval ahead.  No timer is ever lost, whatever else the node relays.  *)
(***************************************************************************)
EXTENDS Integers

CONSTANTS Ifs, Interval, Jitter

VARIABLES
    now,      \* the clock
    armed,    \* interfaces whose timer has been set
    timer,    \* when each armed interface sends next
    nsent,    \* how many messages each interface has sent
    running   \* FALSE once the daemon has stopped

tvars == <<now, armed, timer, nsent, running>>

\* A new expiry time: the interval with a jitter of at most Jitter.
Expiries == (now + Interval - Jitter)..(now + Interval + Jitter)

TInit ==
    /\ now = 0
    /\ armed = {}
    /\ timer = [i \in Ifs |-> 0]
    /\ nsent = [i \in Ifs |-> 0]
    /\ running = TRUE

Arm(i) ==
    /\ running
    /\ i \notin armed
    /\ armed' = armed \cup {i}
    /\ \E t \in Expiries : timer' = [timer EXCEPT ![i] = t]
    /\ UNCHANGED <<now, nsent, running>>

Fire(i) ==
    /\ running
    /\ i \in armed
    /\ timer[i] <= now
    /\ nsent' = [nsent EXCEPT ![i] = @ + 1]
    /\ \E t \in Expiries : timer' = [timer EXCEPT ![i] = t]
    /\ UNCHANGED <<now, armed, running>>

Advance ==
    /\ running
    /\ now' = now + 1
    /\ UNCHANGED <<armed, timer, nsent, running>>

Stop ==
    /\ running
    /\ running' = FALSE
    /\ armed' = {}
    /\ timer' = [i \in Ifs |-> 0]
    /\ UNCHANGED <<now, nsent>>

TNext ==
    \/ \E i \in Ifs : Arm(i) \/ Fire(i)
    \/ Advance
    \/ Stop

\* An expired timer does fire, unless the daemon stops first.
TSpec ==
    /\ TInit
    /\ [][TNext]_tvars
    /\ \A i \in Ifs : WF_tvars(Fire(i))
=============================================================================
