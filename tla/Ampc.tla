-------------------------------- MODULE Ampc --------------------------------
(***************************************************************************)
(* The coordinator of the AMPC framework and the workers it schedules.     *)
(*                                                                         *)
(* A run is a sequence of rounds; a round hands the workers the round's    *)
(* DHT and makes one pass over the jobs for each mapper.  The coordinator  *)
(* learns what a worker does only by polling current_job, one worker after *)
(* the other; a call fails when the worker is dead and may fail when it is *)
(* slow.  A worker serves requests on one thread and maps on another.      *)
(***************************************************************************)
EXTENDS Naturals, Sequences, SequencesExt

CONSTANTS
    NumWorkers,     \* workers are numbered in the order of the BTreeMap
    Jobs,           \* the sequence of jobs of every pass
    Schedulable,    \* the pairs <<job, worker>> that is_schedulable admits
    Mappers,        \* passes in a round
    MaxRounds,      \* the finisher stops the run by then
    MayDie,         \* workers may die and mappers may panic
    MayRestart,     \* a dead worker may be started again
    MaxFaults,      \* bound on failed calls, panics, deaths and restarts
    NoJob, Failed   \* None and Err of a worker's answer

Workers == 0 .. NumWorkers - 1
JobSet == {Jobs[i] : i \in 1 .. Len(Jobs)}

ASSUME AmpcAssumption ==
    /\ NumWorkers \in Nat
    /\ Jobs \in Seq(JobSet)
    /\ Mappers \in Nat \ {0} /\ MaxRounds \in Nat /\ MaxFaults \in Nat
    /\ NoJob \notin JobSet /\ Failed \notin JobSet /\ NoJob # Failed
    /\ MayDie \in BOOLEAN /\ MayRestart \in BOOLEAN

VARIABLES
    pc,         \* where Coordinator::run is
    round,      \* rounds begun
    mapper,     \* passes of this round begun
    remaining,  \* remaining_jobs
    scheduled,  \* scheduled_jobs: the job last given to each worker
    snap,       \* worker_jobs of this iteration, for the workers polled so far
    told,       \* workers that answered this round's Setup
    up,         \* workers whose server runs
    current,    \* Server::current_job of each worker
    mapping,    \* the job that the worker's mapper thread is executing
    dht,        \* the round of Server::dht, 0 when it is None
    restarted,  \* history: workers that were started again
    mapped,     \* jobs whose mapper returned in this pass
    faults      \* failed calls, panics, deaths and restarts so far

coordinator == <<pc, round, mapper, remaining, scheduled, snap, told>>
workers == <<up, current, mapping, dht, restarted>>
vars == <<coordinator, workers, mapped, faults>>

Idle == [w \in Workers |-> NoJob]
Unpolled == [w \in {} |-> NoJob]
First(S) == CHOOSE w \in S : \A v \in S : w <= v
Polled == DOMAIN snap = Workers

Init ==
    /\ pc = "round" /\ round = 0 /\ mapper = 0
    /\ remaining = <<>> /\ scheduled = Idle /\ snap = Unpolled
    /\ told = {}
    /\ up = Workers
    /\ current = Idle /\ mapping = Idle
    /\ dht = [w \in Workers |-> 0]
    /\ restarted = {} /\ mapped = {} /\ faults = 0

-----------------------------------------------------------------------------
(* The rounds.                                                             *)

\* The finisher ends the run.
Finish ==
    /\ pc = "round"
    /\ pc' = "done"
    /\ UNCHANGED <<round, mapper, remaining, scheduled, snap, told, workers, mapped, faults>>

StartRound ==
    /\ pc = "round"
    /\ round < MaxRounds
    /\ round' = round + 1
    /\ mapper' = 0
    /\ told' = {}
    /\ pc' = "setup"
    /\ UNCHANGED <<remaining, scheduled, snap, workers, mapped, faults>>

\* send_dht_to_workers reaches one worker, in any order.
SendDht(w) ==
    /\ pc = "setup"
    /\ w \in up \ told
    /\ dht' = [dht EXCEPT ![w] = round]
    /\ told' = told \cup {w}
    /\ UNCHANGED <<pc, round, mapper, remaining, scheduled, snap, up, current, mapping,
                   restarted, mapped, faults>>

\* A call whose error ends the run fails: the worker is dead, or slow.
CallFails(w) ==
    /\ IF w \in up THEN faults < MaxFaults /\ faults' = faults + 1
                   ELSE UNCHANGED faults
    /\ pc' = "failed"
    /\ UNCHANGED <<round, mapper, remaining, scheduled, told, workers, mapped>>

SendDhtFails(w) ==
    /\ pc = "setup"
    /\ w \notin told
    /\ CallFails(w)
    /\ UNCHANGED snap

StartPass ==
    /\ \/ pc = "setup" /\ told = Workers
       \/ pc = "passed" /\ mapper < Mappers
    /\ mapper' = mapper + 1
    /\ remaining' = Jobs
    /\ scheduled' = Idle
    /\ mapped' = {}
    /\ pc' = "schedule"
    /\ UNCHANGED <<round, snap, told, workers, faults>>

NextRound ==
    /\ pc = "passed"
    /\ mapper = Mappers
    /\ pc' = "round"
    /\ UNCHANGED <<round, mapper, remaining, scheduled, snap, told, workers, mapped, faults>>

-----------------------------------------------------------------------------
(* One iteration of either loop polls every worker and then acts on what   *)
(* it was told.                                                            *)

Polling == pc = "await" \/ (pc = "schedule" /\ remaining # <<>>)

Answered(w, answer) ==
    snap' = [v \in DOMAIN snap \cup {w} |-> IF v = w THEN answer ELSE snap[v]]

Poll(w) ==
    /\ Polling
    /\ ~Polled /\ w = First(Workers \ DOMAIN snap)
    /\ Answered(w, IF w \in up THEN current[w] ELSE Failed)
    /\ UNCHANGED <<pc, round, mapper, remaining, scheduled, told, workers, mapped, faults>>

\* The answer is late or lost.
PollFails(w) ==
    /\ Polling
    /\ ~Polled /\ w = First(Workers \ DOMAIN snap)
    /\ w \in up
    /\ faults < MaxFaults
    /\ faults' = faults + 1
    /\ Answered(w, Failed)
    /\ UNCHANGED <<pc, round, mapper, remaining, scheduled, told, workers, mapped>>

Potential(job) == {w \in Workers : snap[w] # Failed /\ <<job, w>> \in Schedulable}
Free(job) == {w \in Potential(job) : snap[w] = NoJob}

\* The worker answers ScheduleJob.  Its mapper thread panics at once, and
\* current_job stays set, when the worker has no DHT.
Accept(w, job) ==
    /\ w \in up
    /\ current' = [current EXCEPT ![w] = job]
    /\ mapping' = [mapping EXCEPT ![w] = IF dht[w] = 0 THEN NoJob ELSE job]
    /\ UNCHANGED <<up, dht, restarted>>

\* The failed workers' jobs are pushed to the front, one after the other.
FailedJobs ==
    LET lost == {w \in Workers : snap[w] = Failed /\ scheduled[w] # NoJob}
        order == SetToSortSeq(lost, LAMBDA v, w : v > w)
    IN  [i \in 1 .. Len(order) |-> scheduled[order[i]]]

Kept == [w \in Workers |-> IF snap[w] = Failed THEN NoJob ELSE scheduled[w]]

Schedule ==
    /\ pc = "schedule" /\ remaining # <<>> /\ Polled
    /\ LET job == Head(remaining) IN
         \/ /\ Free(job) # {}
            /\ Accept(First(Free(job)), job)
            /\ scheduled' = [Kept EXCEPT ![First(Free(job))] = job]
            /\ remaining' = FailedJobs \o Tail(remaining)
         \/ /\ Potential(job) # {} /\ Free(job) = {}
            /\ scheduled' = Kept
            /\ remaining' = <<job>> \o FailedJobs \o Tail(remaining)
            /\ UNCHANGED workers
    /\ snap' = Unpolled
    /\ UNCHANGED <<pc, round, mapper, told, mapped, faults>>

\* No worker that answered may take the job, or the call to the free one fails.
NotScheduled(job) ==
    /\ \/ /\ Potential(job) = {}
          /\ pc' = "failed"
          /\ UNCHANGED <<round, mapper, remaining, scheduled, told, workers, mapped, faults>>
       \/ /\ Free(job) # {}
          /\ CallFails(First(Free(job)))
    /\ snap' = Unpolled

ScheduleFails ==
    /\ pc = "schedule" /\ remaining # <<>> /\ Polled
    /\ NotScheduled(Head(remaining))

StartAwait ==
    /\ pc = "schedule" /\ remaining = <<>>
    /\ pc' = "await"
    /\ UNCHANGED <<round, mapper, remaining, scheduled, snap, told, workers, mapped, faults>>

-----------------------------------------------------------------------------
(* await_scheduled_jobs: the loop over the answers stops at the first busy *)
(* worker, or at the first failed one that had a job.                      *)

Stops(w) == snap[w] # NoJob /\ (snap[w] = Failed => scheduled[w] # NoJob)
Stopping == {w \in Workers : Stops(w)}

\* The loop stops at a failed worker, whose job is scheduled again.
Lost(w) ==
    /\ pc = "await" /\ Polled
    /\ w \in Stopping
    /\ w = First(Stopping)
    /\ snap[w] = Failed

\* A free worker takes the job.
Reschedule(w) ==
    /\ Lost(w)
    /\ LET job == scheduled[w] IN
         /\ Free(job) # {}
         /\ Accept(First(Free(job)), job)
         /\ scheduled' = [scheduled EXCEPT ![w] = NoJob, ![First(Free(job))] = job]
    /\ snap' = Unpolled
    /\ UNCHANGED <<pc, round, mapper, remaining, told, mapped, faults>>

\* Every worker that may take the job is busy.
NoAvailableWorkers(w) ==
    /\ Lost(w)
    /\ Potential(scheduled[w]) # {} /\ Free(scheduled[w]) = {}
    /\ scheduled' = [scheduled EXCEPT ![w] = NoJob]
    /\ snap' = Unpolled
    /\ UNCHANGED <<pc, round, mapper, remaining, told, workers, mapped, faults>>

RescheduleFails(w) ==
    /\ Lost(w)
    /\ NotScheduled(scheduled[w])

\* A worker is still busy, or a failed worker has nothing to reschedule.
AwaitAgain ==
    /\ pc = "await" /\ Polled
    /\ \/ Stopping # {} /\ snap[First(Stopping)] # Failed
       \/ Stopping = {} /\ \E w \in Workers : snap[w] = Failed
    /\ snap' = Unpolled
    /\ UNCHANGED <<pc, round, mapper, remaining, scheduled, told, workers, mapped, faults>>

\* Mutant: a worker that does not answer counts as finished.
AwaitDoneFailed ==
    /\ pc = "await" /\ Polled
    /\ \A w \in Workers : snap[w] \in {NoJob, Failed}
    /\ pc' = "passed"
    /\ snap' = Unpolled
    /\ UNCHANGED <<round, mapper, remaining, scheduled, told, workers, mapped, faults>>

\* Mutant: the pass ends when scheduled_jobs is empty.
AwaitDoneCleared ==
    /\ pc = "await" /\ Polled
    /\ \A w \in Workers : snap[w] = NoJob /\ scheduled[w] = NoJob
    /\ pc' = "passed"
    /\ snap' = Unpolled
    /\ UNCHANGED <<round, mapper, remaining, scheduled, told, workers, mapped, faults>>

AwaitDone ==
    /\ pc = "await" /\ Polled
    /\ \A w \in Workers : snap[w] = NoJob
    /\ pc' = "passed"
    /\ snap' = Unpolled
    /\ UNCHANGED <<round, mapper, remaining, scheduled, told, workers, mapped, faults>>

-----------------------------------------------------------------------------
(* The workers.                                                            *)

\* The mapper returns and the thread takes current_job.
Mapped(w) ==
    /\ mapping[w] # NoJob
    /\ mapped' = mapped \cup {mapping[w]}
    /\ mapping' = [mapping EXCEPT ![w] = NoJob]
    /\ current' = [current EXCEPT ![w] = NoJob]
    /\ UNCHANGED <<coordinator, up, dht, restarted, faults>>

\* The mapper panics, on an error of the DHT: current_job is never taken.
Panic(w) ==
    /\ MayDie /\ faults < MaxFaults
    /\ mapping[w] # NoJob
    /\ mapping' = [mapping EXCEPT ![w] = NoJob]
    /\ faults' = faults + 1
    /\ UNCHANGED <<coordinator, up, current, dht, restarted, mapped>>

\* The process ends: it crashed, or Server::run returned the error of a
\* response that could not be written.
Die(w) ==
    /\ MayDie /\ faults < MaxFaults
    /\ w \in up
    /\ up' = up \ {w}
    /\ current' = [current EXCEPT ![w] = NoJob]
    /\ mapping' = [mapping EXCEPT ![w] = NoJob]
    /\ dht' = [dht EXCEPT ![w] = 0]
    /\ faults' = faults + 1
    /\ UNCHANGED <<coordinator, restarted, mapped>>

Restart(w) ==
    /\ MayRestart /\ faults < MaxFaults
    /\ w \notin up
    /\ up' = up \cup {w}
    /\ restarted' = restarted \cup {w}
    /\ faults' = faults + 1
    /\ UNCHANGED <<coordinator, current, mapping, dht, mapped>>

-----------------------------------------------------------------------------
Coordinate ==
    \/ Finish \/ StartRound \/ StartPass \/ NextRound
    \/ Schedule \/ ScheduleFails \/ StartAwait
    \/ AwaitAgain \/ AwaitDone
    \/ \E w \in Workers :
         \/ SendDht(w) \/ SendDhtFails(w) \/ Poll(w) \/ PollFails(w)
         \/ Reschedule(w) \/ NoAvailableWorkers(w) \/ RescheduleFails(w)

\* The run has ended; the workers stay.
Ended == pc \in {"done", "failed"} /\ UNCHANGED vars

Next ==
    \/ Coordinate
    \/ \E w \in Workers : Mapped(w) \/ Panic(w) \/ Die(w) \/ Restart(w)
    \/ Ended

Spec == Init /\ [][Next]_vars

\* The coordinator is a loop on its own thread, and every mapper returns.
FairSpec ==
    /\ Spec
    /\ WF_vars(Coordinate)
    /\ \A w \in Workers : WF_vars(Mapped(w))

-----------------------------------------------------------------------------
(* A worker's mapper always works on the job the worker reports, with the  *)
(* DHT of the round that the coordinator is in: no mapper of an earlier    *)
(* round survives dht.next_round, whatever calls were lost.                *)
MapsCurrentRound ==
    pc # "failed" => \A w \in Workers : mapping[w] # NoJob =>
        /\ current[w] = mapping[w]
        /\ dht[w] = round
        /\ pc \in {"schedule", "await"}

(* The coordinator leaves a pass, for the next mapper or the next round,   *)
(* only when every job's mapper has returned in it, whatever calls are     *)
(* lost and whoever dies.  A worker that was restarted is the exception:   *)
(* it reports no job, which await_scheduled_jobs takes for a finished one. *)
PassComplete ==
    [][pc' = "passed" /\ pc # "passed" /\ restarted = {} => JobSet \subseteq mapped]_vars

(* During a pass every job has been mapped, is queued, is recorded as      *)
(* scheduled or is being mapped: a failed worker's job is scheduled again. *)
JobsTracked ==
    pc \in {"schedule", "await"} =>
        \A job \in JobSet :
            \/ job \in mapped
            \/ \E i \in 1 .. Len(remaining) : remaining[i] = job
            \/ \E w \in Workers : job \in {scheduled[w], mapping[w]}

\* A server is gone, or reports a job that its mapper thread no longer works on.
Hurt == \E w \in Workers : w \notin up \/ (current[w] # NoJob /\ mapping[w] = NoJob)

(* Coordinator::run returns, with the tables or with an error, however     *)
(* many calls fail, unless a worker dies or its mapper panics.             *)
RunEnds == <>(pc \in {"done", "failed"} \/ Hurt)

=============================================================================
