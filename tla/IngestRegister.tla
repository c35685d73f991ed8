--------------------------- MODULE IngestRegister ---------------------------
(***************************************************************************)
(* The register of ingested documents (api/v1/ingest_register.rs): PUT     *)
(* requests, the transaction that records a version, sends it and marks it *)
(* acknowledged, the periodic sweep of expired entries, shutdown, and      *)
(* kills and failed writes anywhere.                                       *)
(*                                                                         *)
(* `disk` is snapshot.json and survives; the rest is memory.  The state    *)
(* mutex is moved into the running transaction, so `tx` names its holder;  *)
(* the tasks mutex is the queue of those who want it, its head the holder. *)
(* Between taking both mutexes and the outcome of a write nothing happens  *)
(* that others see, so that is one step, and the sweep is another.  The    *)
(* page itself, audits and sizes in bytes are left out.  The backend is    *)
(* Acknowledged and Unacknowledged, which Ingest ties to LiveIndex.        *)
(***************************************************************************)
EXTENDS Integers, Sequences, FiniteSets

CONSTANTS
    Ids,            \* documents
    Submissions,    \* what is PUT: documents with the digest of their HTML
    Clients,        \* concurrent PUT requests
    TTL,            \* live_index::TTL
    MaxEntries,     \* MAX_INGEST_ENTRIES
    MaxVersion,     \* u64::MAX
    MaxTime,        \* bound on the clock
    MaxRequests,    \* bound on PUT requests
    MaxFaults       \* bound on kills and failed writes

ASSUME RegisterAssumption ==
    /\ IsFiniteSet(Ids) /\ \A s \in Submissions : s.id \in Ids
    /\ Clients \cap {"sweep", "shutdown"} = {}
    /\ TTL \in Nat \ {0} /\ MaxEntries \in Nat /\ MaxVersion \in Nat \ {0}
    /\ MaxTime \in Nat /\ MaxRequests \in Nat /\ MaxFaults \in Nat

VARIABLES
    now,            \* UTC, of every process
    disk,           \* snapshot.json
    up,             \* the process runs
    entries,        \* RegisterState.entries
    unavailable,    \* RegisterState.unavailable
    closed,
    tasks,          \* the tasks mutex, served in order
    tx,             \* the transaction that holds the state mutex
    pc,             \* pc[c]: of the request of c
    req,            \* req[c]: its Submission
    sweeper,        \* the maintenance task
    stopping,       \* shutdown
    requests, faults

memory == <<entries, unavailable, closed, tasks, tx, pc, req, sweeper, stopping>>
vars   == <<now, disk, up, memory, requests, faults>>

NoEntry == [version |-> 0]
NoTx    == [step |-> "none"]
NoReq   == [recv |-> -1]

Stored(snapshot) == {i \in Ids : snapshot[i] # NoEntry}

Expired(entry, at) == at >= entry.recv + TTL

Retained(snapshot, at) ==
    [i \in Ids |-> IF snapshot[i] # NoEntry /\ Expired(snapshot[i], at) THEN NoEntry ELSE snapshot[i]]

Fault == faults < MaxFaults /\ faults' = faults + 1

-----------------------------------------------------------------------------
(* Requests *)

\* execute: the receipt time is read before anything is waited for.
Execute(c, s) ==
    /\ up /\ pc[c] = "idle" /\ requests < MaxRequests
    /\ requests' = requests + 1
    /\ req' = [req EXCEPT ![c] = [id |-> s.id, body |-> s.body, recv |-> now]]
    /\ pc' = [pc EXCEPT ![c] = "received"]
    /\ UNCHANGED <<now, disk, up, entries, unavailable, closed, tasks, tx, sweeper, stopping, faults>>

\* submit waits for the tasks mutex ...
Queue(c) ==
    /\ pc[c] = "received"
    /\ tasks' = Append(tasks, c)
    /\ pc' = [pc EXCEPT ![c] = "queued"]
    /\ UNCHANGED <<now, disk, up, entries, unavailable, closed, tx, req, sweeper, stopping,
                   requests, faults>>

\* The client goes away: a spawned transaction runs on.
Disconnect(c) ==
    /\ pc[c] # "idle"
    /\ pc' = [pc EXCEPT ![c] = "idle"]
    /\ req' = [req EXCEPT ![c] = NoReq]
    /\ tasks' = SelectSeq(tasks, LAMBDA waiter : waiter # c)
    /\ UNCHANGED <<now, disk, up, entries, unavailable, closed, tx, sweeper, stopping,
                   requests, faults>>

-----------------------------------------------------------------------------
(* Transactions *)

\* Mutant: a failure after the rename leaves the register available.
PersistAvailable(snapshot) ==
    \/ disk' = snapshot /\ entries' = snapshot /\ UNCHANGED <<unavailable, faults>>
    \/ disk' \in {disk, snapshot} /\ Fault /\ UNCHANGED <<entries, unavailable>>

\* persist and publish: all done; failed before the rename; or failed after it or
\* panicked, when the file may have changed and the memory has not.
Persist(snapshot) ==
    \/ disk' = snapshot /\ entries' = snapshot /\ UNCHANGED <<unavailable, faults>>
    \/ Fault /\ UNCHANGED <<disk, entries, unavailable>>
    \/ Fault /\ disk' \in {disk, snapshot} /\ unavailable' = TRUE /\ UNCHANGED entries

Known(r) == Retained(entries, now)[r.id]

Retry(r) == Known(r) # NoEntry /\ Known(r).body = r.body

\* Refused, or an acknowledged replay.
Ended(r) == unavailable \/ closed \/ (Retry(r) /\ Known(r).acked)

\* Mutant: versions are not counted.
RecordedAnew(r) ==
    [Retained(entries, now) EXCEPT ![r.id] =
        [body |-> r.body, version |-> 1, recv |-> r.recv, acked |-> FALSE]]

Recorded(r) ==
    [Retained(entries, now) EXCEPT ![r.id] =
        [body |-> r.body, version |-> @.version + 1, recv |-> r.recv, acked |-> FALSE]]

\* next_version and reserve
HasCapacity(r) ==
    IF Retry(r) THEN Cardinality(Stored(Retained(entries, now))) <= MaxEntries
    ELSE Known(r).version < MaxVersion /\ Cardinality(Stored(Recorded(r))) <= MaxEntries

Sends(r) == tx' = [step |-> "send", id |-> r.id, body |-> r.body, at |-> now]

\* Mutant: the entry is recorded in memory only.
RecordInMemory(r) ==
    /\ HasCapacity(r)
    /\ entries' = IF Retry(r) THEN entries ELSE Recorded(r)
    /\ Sends(r)
    /\ UNCHANGED <<disk, unavailable, faults>>

\* Mutant: capacity is not checked.
RecordUnbounded(r) ==
    /\ disk' = IF Retry(r) THEN disk ELSE Recorded(r)
    /\ entries' = disk'
    /\ Sends(r)
    /\ UNCHANGED <<unavailable, faults>>

\* transact, up to the dispatch: a new version is durable first; a retry finds its
\* entry there.
Record(r) ==
    \/ ~HasCapacity(r) /\ UNCHANGED <<disk, entries, unavailable, faults, tx>>
    \/ HasCapacity(r) /\ Retry(r) /\ Sends(r) /\ UNCHANGED <<disk, entries, unavailable, faults>>
    \/ /\ HasCapacity(r) /\ ~Retry(r)
       /\ Persist(Recorded(r))
       /\ IF faults' = faults THEN Sends(r) ELSE UNCHANGED tx

\* ... and, with it, for the state mutex: refuse, replay, or spawn a transaction,
\* with which the client then waits.
Submit(c) ==
    /\ pc[c] = "queued" /\ Head(tasks) = c /\ tx = NoTx
    /\ tasks' = Tail(tasks)
    /\ \/ Ended(req[c]) /\ UNCHANGED <<disk, entries, unavailable, faults, tx>>
       \/ ~Ended(req[c]) /\ Record(req[c])
    /\ pc' = [pc EXCEPT ![c] = IF tx' = NoTx THEN "idle" ELSE "waiting"]
    /\ req' = [req EXCEPT ![c] = NoReq]
    /\ UNCHANGED <<now, up, closed, sweeper, stopping, requests>>

\* Mutant: the result is not sent to the client.
EndsSilent == tx' = NoTx /\ UNCHANGED pc

\* The transaction ends; whoever still waits for it has the result.
Ends ==
    /\ tx' = NoTx
    /\ pc' = [c \in Clients |-> IF pc[c] = "waiting" THEN "idle" ELSE pc[c]]

\* The one send of the page is answered, ...
Acknowledged ==
    /\ tx.step = "send"
    /\ tx' = [tx EXCEPT !.step = "complete"]
    /\ UNCHANGED <<now, disk, up, entries, unavailable, closed, tasks, pc, req, sweeper, stopping,
                   requests, faults>>

\* ... or it fails, is refused or times out.
Unacknowledged ==
    /\ tx.step = "send"
    /\ Ends
    /\ UNCHANGED <<now, disk, up, entries, unavailable, closed, tasks, req, sweeper, stopping,
                   requests, faults>>

\* The acknowledgement is durable before the client hears of it.  What is
\* written was computed before the dispatch.
Complete ==
    /\ tx.step = "complete"
    /\ Persist([Retained(entries, tx.at) EXCEPT ![tx.id] = [entries[tx.id] EXCEPT !.acked = TRUE]])
    /\ Ends
    /\ UNCHANGED <<now, up, closed, tasks, req, sweeper, stopping, requests>>

-----------------------------------------------------------------------------
(* Maintenance and shutdown *)

\* The timer fires.
SweepDue ==
    /\ up /\ sweeper = "timer"
    /\ sweeper' = "queued" /\ tasks' = Append(tasks, "sweep")
    /\ UNCHANGED <<now, disk, up, entries, unavailable, closed, tx, pc, req, stopping,
                   requests, faults>>

\* Mutant: expired entries leave the memory only.
SweepInMemory ==
    /\ tasks # <<>> /\ Head(tasks) = "sweep" /\ tx = NoTx
    /\ tasks' = Tail(tasks) /\ sweeper' = "timer"
    /\ entries' = Retained(entries, now)
    /\ UNCHANGED <<now, disk, up, unavailable, closed, tx, pc, req, stopping, requests, faults>>

\* sweep_expired, with both mutexes: any failure ends the maintenance.
Sweep ==
    LET retained == Retained(entries, now)
    IN  /\ tasks # <<>> /\ Head(tasks) = "sweep" /\ tx = NoTx
        /\ tasks' = Tail(tasks)
        /\ \/ /\ unavailable \/ closed
              /\ sweeper' = "ended"
              /\ UNCHANGED <<disk, entries, unavailable, faults>>
           \/ /\ ~unavailable /\ ~closed
              /\ disk' = IF retained = entries THEN disk ELSE retained
              /\ entries' = retained
              /\ sweeper' = "timer"
              /\ UNCHANGED <<unavailable, faults>>
           \/ /\ ~unavailable /\ ~closed /\ retained # entries /\ Fault
              /\ disk' \in {disk, retained}
              /\ unavailable' = TRUE /\ sweeper' = "ended"
              /\ UNCHANGED entries
        /\ UNCHANGED <<now, up, closed, tx, pc, req, stopping, requests>>

\* The listeners have ended; open connections may still bring requests.  Shutdown
\* stops the maintenance, waits for a sweep in progress and closes the register.
\* Until it closes only the maintenance task sees that it was called, so a call
\* during a sweep is one right after it ...
Shutdown ==
    /\ up /\ stopping = "no" /\ sweeper # "queued"
    /\ sweeper' = "ended"
    /\ closed' = TRUE /\ stopping' = "closed"
    /\ tasks' = Append(tasks, "shutdown")
    /\ UNCHANGED <<now, disk, up, entries, unavailable, tx, pc, req, requests, faults>>

\* Mutant: a running transaction is not waited for.
ShutdownUnjoined ==
    /\ stopping = "closed" /\ Head(tasks) = "shutdown"
    /\ tasks' = Tail(tasks) /\ stopping' = "stopped"
    /\ UNCHANGED <<now, disk, up, entries, unavailable, closed, tx, pc, req, sweeper, requests, faults>>

\* ... takes the tasks mutex and joins what has been spawned.
ShutdownJoin ==
    /\ stopping = "closed" /\ Head(tasks) = "shutdown" /\ tx = NoTx
    /\ tasks' = Tail(tasks) /\ stopping' = "stopped"
    /\ UNCHANGED <<now, disk, up, entries, unavailable, closed, tx, pc, req, sweeper, requests, faults>>

-----------------------------------------------------------------------------
(* Processes *)

NoMemory ==
    /\ entries' = [i \in Ids |-> NoEntry]
    /\ unavailable' = FALSE /\ closed' = FALSE
    /\ tasks' = <<>> /\ tx' = NoTx
    /\ pc' = [c \in Clients |-> "idle"]
    /\ req' = [c \in Clients |-> NoReq]
    /\ sweeper' = "timer" /\ stopping' = "no"

\* Killed, or the end of run() after shutdown.
Stop ==
    /\ up /\ up' = FALSE
    /\ IF stopping = "stopped" THEN UNCHANGED faults ELSE Fault
    /\ NoMemory
    /\ UNCHANGED <<now, disk, requests>>

\* validate_snapshot
Loads(snapshot) ==
    /\ Cardinality(Stored(snapshot)) <= MaxEntries
    /\ \A i \in Stored(snapshot) : snapshot[i].version > 0 /\ snapshot[i].recv <= now

\* open, then start_maintenance.
Open ==
    LET retained == Retained(disk, now)
    IN  /\ ~up /\ Loads(disk)
        /\ \/ /\ up' = TRUE
              /\ disk' = retained /\ entries' = retained
              /\ UNCHANGED faults
           \/ /\ Fault
              /\ disk # retained
              /\ disk' \in {disk, retained}
              /\ UNCHANGED <<up, entries>>
        /\ UNCHANGED <<now, unavailable, closed, tasks, tx, pc, req, sweeper, stopping, requests>>

Tick ==
    /\ now < MaxTime
    /\ now' = now + 1
    /\ UNCHANGED <<disk, up, memory, requests, faults>>

Init ==
    /\ now = 0 /\ up = FALSE
    /\ disk = [i \in Ids |-> NoEntry]
    /\ entries = [i \in Ids |-> NoEntry]
    /\ unavailable = FALSE /\ closed = FALSE
    /\ tasks = <<>> /\ tx = NoTx
    /\ pc = [c \in Clients |-> "idle"]
    /\ req = [c \in Clients |-> NoReq]
    /\ sweeper = "timer" /\ stopping = "no"
    /\ requests = 0 /\ faults = 0

\* What the register does when it is left alone.
Progress ==
    \/ \E c \in Clients : Queue(c) \/ Submit(c)
    \/ Complete \/ Sweep \/ ShutdownJoin

Outside ==
    \/ \E c \in Clients : Disconnect(c) \/ \E s \in Submissions : Execute(c, s)
    \/ Shutdown \/ Stop \/ Tick

Next == Progress \/ Outside \/ SweepDue \/ Open \/ Acknowledged \/ Unacknowledged

Spec == Init /\ [][Next]_vars

-----------------------------------------------------------------------------
(* Properties *)

Entry == [body : {s.body : s \in Submissions}, version : 1..MaxVersion, recv : 0..MaxTime, acked : BOOLEAN]

\* The snapshot and its copy are well typed.
RegisterTypeOK ==
    /\ now \in 0..MaxTime
    /\ disk \in [Ids -> Entry \cup {NoEntry}]
    /\ entries \in [Ids -> Entry \cup {NoEntry}]
    /\ tx.step \in {"none", "send", "complete"}
    /\ \A k, l \in DOMAIN tasks : tasks[k] = tasks[l] => k = l
    /\ {tasks[k] : k \in DOMAIN tasks} =
        {c \in Clients : pc[c] = "queued"}
            \cup (IF sweeper = "queued" THEN {"sweep"} ELSE {})
            \cup (IF stopping = "closed" THEN {"shutdown"} ELSE {})
    /\ \A c \in Clients : pc[c] \in {"received", "queued"} <=> req[c] # NoReq
    /\ faults \in 0..MaxFaults

\* ingest_register.rs: "Acknowledged replays do no work".  Replays and versions are
\* decided in memory, so whenever the register is available and idle its
\* memory is the snapshot, whatever writes have failed before.
DecidesFromDurable ==
    up /\ tx = NoTx /\ ~unavailable => entries = disk

\* ingest_register.rs: "Durable recorded metadata precedes the backend invocation",
\* and an acknowledged version is not sent again: what is sent is what
\* snapshot.json records as still to be acknowledged.
SendIsOwed ==
    tx.step = "send" =>
        /\ disk[tx.id] # NoEntry
        /\ disk[tx.id].body = tx.body /\ ~disk[tx.id].acked

\* Through kills, failed writes and retries a document's durable entry only
\* becomes acknowledged, or is followed by the next version, until it expires:
\* then it may go, and versions begin again.
VersionsKept ==
    [][\A i \in Stored(disk) :
          LET old == disk[i]
              new == disk'[i]
          IN  \/ Expired(old, now)
              \/ new = old
              \/ new = [old EXCEPT !.acked = TRUE]
              \/ new.version = old.version + 1 /\ ~new.acked]_vars

\* ingest_register.rs: "A stopped register never starts another timer or accepts
\* another write".
StoppedIsFinal ==
    [][up /\ stopping = "stopped" => disk' = disk /\ tx = NoTx]_vars

\* Every snapshot a process leaves behind is one that the next one reads.
SnapshotLoads == Loads(disk)

=============================================================================
