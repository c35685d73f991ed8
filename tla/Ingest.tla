-------------------------------- MODULE Ingest ------------------------------
(***************************************************************************)
(* The register of ingested documents with the live index it sends them to *)
(* (api/mod.rs, ingest_backend).  A send may be lost, refused, answered too *)
(* late or delivered after the register has given up on it (`late`).       *)
(***************************************************************************)
EXTENDS IngestRegister

CONSTANTS
    DayLength,      \* of LiveIndex
    MaxSegments     \* of LiveIndex

VARIABLES
    late,           \* documents of sends that were given up and may arrive
    ready, wal, index, meta, broken

Live == INSTANCE LiveIndex

server == <<ready, wal, index, meta, broken>>
system == <<vars, late, server>>

\* Everything of the register but the fault counter.
register == <<now, disk, up, memory, requests>>

\* The server handles the request; its answer comes in time or not.
Deliver ==
    /\ tx.step = "send"
    /\ Live!Insert(tx.id)
    /\ Acknowledged \/ Unacknowledged
    /\ UNCHANGED late

\* The request is refused or lost, or arrives when nobody waits any more, if ever.
GiveUp ==
    /\ Unacknowledged
    /\ late' = late \cup {tx.id}
    /\ UNCHANGED server

DeliverLate(i) ==
    /\ i \in late
    /\ Live!Insert(i)
    /\ late' = late \ {i}
    /\ UNCHANGED vars

NodeStops ==
    /\ Fault
    /\ \/ Live!Killed
       \/ Live!InsertKilled /\ (late # {} \/ (tx.step = "send"))
    /\ UNCHANGED <<register, late>>

RegisterStops ==
    /\ Stop
    /\ late' = IF tx.step = "send" THEN late \cup {tx.id} ELSE late
    /\ UNCHANGED server

RegisterSteps ==
    /\ \/ Progress \/ SweepDue \/ Open \/ Shutdown \/ Tick
       \/ \E c \in Clients : Disconnect(c) \/ \E s \in Submissions : Execute(c, s)
    /\ UNCHANGED <<late, server>>

LiveSteps == Live!Manage /\ UNCHANGED <<vars, late>>

SystemInit == Init /\ late = {} /\ Live!LiveInit

SystemNext ==
    \/ RegisterSteps \/ Deliver \/ GiveUp \/ RegisterStops
    \/ LiveSteps \/ NodeStops
    \/ \E i \in Ids : DeliverLate(i)

\* A request gets to the queue.  Whoever holds a mutex goes on: the transaction,
\* whose send ends by its timeout at the latest, and without one the head of the
\* queue.  The timer fires again and again and the API process is started again;
\* and the manager's loop comes round and the node is started.
Fairness ==
    LET Alone(step) == step /\ UNCHANGED <<late, server>>
        Holders     == Complete \/ Sweep \/ ShutdownJoin \/ \E c \in Clients : Submit(c)
    IN  /\ \A c \in Clients : WF_system(Alone(Queue(c)))
        /\ WF_system(Alone(Holders) \/ GiveUp)
        /\ WF_system(Alone(SweepDue \/ Open))
        /\ WF_system(Live!Commit /\ UNCHANGED <<vars, late>>)

SystemSpec == SystemInit /\ [][SystemNext]_system /\ Fairness

-----------------------------------------------------------------------------
(* Properties *)

\* Register and live index are well typed.
TypeOK ==
    /\ RegisterTypeOK
    /\ late \subseteq Ids /\ wal \subseteq Ids
    /\ ready \in BOOLEAN /\ broken \in BOOLEAN
    /\ DOMAIN index \subseteq 1..MaxSegments
    /\ \A s \in DOMAIN meta : meta[s] \in 0..now
    /\ ready => DOMAIN meta = DOMAIN index


\* Nobody waits for ever on the tasks mutex, the state mutex or a transaction:
\* a request is answered, unless its client or the process goes away first.
RequestsEnd == \A c \in Clients : pc[c] # "idle" ~> pc[c] = "idle"

\* Expired metadata is removed by the sweep or at the next start, unless the
\* register is unavailable or stopped.
ExpiredRemoved ==
    Retained(disk, now) # disk ~> Retained(disk, now) = disk \/ unavailable \/ stopping # "no"


=============================================================================
