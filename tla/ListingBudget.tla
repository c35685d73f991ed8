---------------------------- MODULE ListingBudget ---------------------------
(***************************************************************************)
(* The listing-site budget of one host: admit_listing counts page attempts *)
(* in a window that is kept in host-state.json, for crawl tasks that share *)
(* the registry, with a clock that may be set, writes that may fail and a  *)
(* process that may be killed.                                             *)
(***************************************************************************)
EXTENDS Integers

CONSTANTS
    Tasks,
    Limit,          \* max_page_attempts_per_24h
    Window,         \* 86 400 s
    MaxTime,        \* bound on the clock
    MaxMishaps      \* bound on clock steps and failed writes

ASSUME BudgetAssumption ==
    /\ Limit \in Nat /\ Window \in Nat \ {0}
    /\ MaxTime \in Nat /\ MaxMishaps \in Nat

VARIABLES
    now,        \* the UTC clock
    mem, disk,  \* the host's state in the registry and in host-state.json
    failed,     \* HostRegistry::failed
    asked,      \* the clock that each task read before it waits for the states
                \* mutex, -1 for a task that does not
    admitted,   \* history: pages admitted so far
    mishaps

vars == <<now, mem, disk, failed, asked, admitted, mishaps>>

(* listing_window_start_utc (-1: none) and listing_attempts; opened is a   *)
(* history variable, the number of pages admitted before the window began. *)
Budgets == [start : -1 .. MaxTime, attempts : 0 .. Limit, opened : Nat]
Nobody == [t \in Tasks |-> -1]
NoWindow == [start |-> -1, attempts |-> 0, opened |-> 0]

Init ==
    /\ now = 0 /\ mem = NoWindow /\ disk = NoWindow
    /\ failed = FALSE /\ asked = Nobody /\ admitted = 0 /\ mishaps = 0

Mishap == mishaps < MaxMishaps /\ mishaps' = mishaps + 1

\* The window that the attempt falls into: the stored one until it is over.
Current(t) ==
    IF mem.start = -1 \/ asked[t] - mem.start >= Window
    THEN [start |-> asked[t], attempts |-> 0, opened |-> admitted]
    ELSE mem

Counted(t) == [Current(t) EXCEPT !.attempts = @ + 1]

\* HostRegistry::update refuses once a write has failed.
Enter(t) ==
    /\ asked[t] = -1
    /\ ~failed
    /\ asked' = [asked EXCEPT ![t] = now]
    /\ UNCHANGED <<now, mem, disk, failed, admitted, mishaps>>

\* Mutant: the state is not written.
AdmitUnsaved(t) ==
    /\ asked[t] # -1
    /\ Current(t).attempts < Limit
    /\ mem' = Counted(t)
    /\ admitted' = admitted + 1
    /\ asked' = [asked EXCEPT ![t] = -1]
    /\ UNCHANGED <<now, disk, failed, mishaps>>

\* The attempt is counted, saved and admitted.
Admit(t) ==
    /\ asked[t] # -1
    /\ Current(t).attempts < Limit
    /\ mem' = Counted(t) /\ disk' = mem'
    /\ admitted' = admitted + 1
    /\ asked' = [asked EXCEPT ![t] = -1]
    /\ UNCHANGED <<now, failed, mishaps>>

\* The write fails, before the rename or after it: the page is refused.
SaveFails(t) ==
    /\ asked[t] # -1
    /\ Current(t).attempts < Limit
    /\ Mishap
    /\ mem' = Counted(t) /\ disk' \in {disk, mem'}
    /\ failed' = TRUE
    /\ asked' = [asked EXCEPT ![t] = -1]
    /\ UNCHANGED <<now, admitted>>

\* ListingBudgetExhausted; the change to the map is kept and not saved.
Refuse(t) ==
    /\ asked[t] # -1
    /\ Current(t).attempts >= Limit
    /\ mem' = Current(t)
    /\ asked' = [asked EXCEPT ![t] = -1]
    /\ UNCHANGED <<now, disk, failed, admitted, mishaps>>

Tick ==
    /\ now < MaxTime
    /\ now' = now + 1
    /\ UNCHANGED <<mem, disk, failed, asked, admitted, mishaps>>

SetBack ==
    /\ now > 0
    /\ Mishap
    /\ now' \in 0 .. now - 1
    /\ UNCHANGED <<mem, disk, failed, asked, admitted>>

\* The process is killed and the registry is opened again.
Restart ==
    /\ mem' = disk /\ failed' = FALSE /\ asked' = Nobody
    /\ UNCHANGED <<now, disk, admitted, mishaps>>

Next ==
    \/ \E t \in Tasks : Enter(t) \/ Admit(t) \/ SaveFails(t) \/ Refuse(t)
    \/ Tick \/ SetBack \/ Restart

Spec == Init /\ [][Next]_vars

-----------------------------------------------------------------------------
\* The types of the registry's state and of the history.
TypeOK ==
    /\ now \in 0 .. MaxTime
    /\ mem \in Budgets /\ disk \in Budgets
    /\ failed \in BOOLEAN
    /\ asked \in [Tasks -> -1 .. MaxTime]
    /\ admitted \in Nat
    /\ mishaps \in 0 .. MaxMishaps

(* Since the window in force was opened, in memory or in the file that a   *)
(* restart would read, at most Limit pages were admitted: admit_listing    *)
(* saves the count before the page is requested, so neither a kill, nor a  *)
(* failed write, nor a task already waiting for the mutex when it failed,  *)
(* lets a page through uncounted.  The windows tumble: a full one may end  *)
(* just before the next begins.                                            *)
WindowBudget ==
    \A budget \in {mem, disk} : admitted - budget.opened <= Limit

=============================================================================
