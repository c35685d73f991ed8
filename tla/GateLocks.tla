----------------------------- MODULE GateLocks ------------------------------
(***************************************************************************)
(* What acquire_host promises its callers, without time: a counted permit  *)
(* per request of a host and, inside it, one start mutex.  HostGate and    *)
(* RobotsAdmission implement this specification.                           *)
(***************************************************************************)
EXTENDS Naturals, FiniteSets

CONSTANTS Tasks, NoTask, Permits

VARIABLES
    held,       \* tasks that hold a permit
    owner       \* the task that holds the start mutex

Init == held = {} /\ owner = NoTask

Take(t) ==
    /\ t \notin held
    /\ Cardinality(held) < Permits
    /\ held' = held \cup {t}
    /\ UNCHANGED owner

Lock(t) ==
    /\ t \in held
    /\ owner = NoTask
    /\ owner' = t
    /\ UNCHANGED held

\* The headers have arrived: the next request may start.
Unlock(t) ==
    /\ owner = t
    /\ owner' = NoTask
    /\ UNCHANGED held

\* The permit is dropped, and with it the start mutex if it is held.
Return(t) ==
    /\ t \in held
    /\ held' = held \ {t}
    /\ owner' = IF owner = t THEN NoTask ELSE owner

\* The process is killed.
Reset == held' = {} /\ owner' = NoTask

Next ==
    \/ \E t \in Tasks : Take(t) \/ Lock(t) \/ Unlock(t) \/ Return(t)
    \/ Reset

Spec == Init /\ [][Next]_<<held, owner>>

=============================================================================
