------------------------------ MODULE HostGate ------------------------------
(***************************************************************************)
(* Request admission for ONE host: the HostGate of crawler/politeness.rs   *)
(* (a semaphore, a start mutex and monotonic deadlines) together with the  *)
(* host's persisted record in crawler/host_state.rs.  Every fetch of the   *)
(* crawler passes through acquire_host, is answered, and reports what the  *)
(* host said back to the record.                                           *)
(*                                                                         *)
(* Tasks are concurrent fetches of the host in one process.  The process   *)
(* can be killed at any moment; only `disk` survives.  Three clocks run:   *)
(* `now` is true time (no code reads it), `now - boot` is the process's    *)
(* monotonic clock (Clock::ticks) and `utc` the wall clock (Clock::utc),   *)
(* which an operator or NTP may set.                                       *)
(***************************************************************************)
EXTENDS Integers, FiniteSets

CONSTANTS
    Tasks,          \* concurrent fetches of the host
    NoTask,         \* "nobody holds the start mutex"
    Permits,        \* politeness.max_concurrent_per_host
    Gap,            \* politeness.gap_ms, already floored at HARD_MIN_HOST_GAP_MS
    Delays,         \* publisher Crawl-delays that callers pass (0: none)
    MaxDelay,       \* MAX_ACCEPTED_CRAWL_DELAY_SECS
    Block,          \* politeness.block_secs, floored at MIN_BLOCK_SECS
    Backoff,        \* Backoff[n]: backoff_seconds(n)
    MaxRate,        \* where consecutive_rate_responses saturates
    Answers,        \* responses the host gives, see GateAssumption
    Forever,        \* MAX_UTC; as a Retry-After, a number that does not fit
    Steps,          \* values the wall clock may be set to
    MaxTime,        \* bound on true time
    MaxRuns         \* bound on process starts

\* What observe() tells apart in a response status.  "none" is the 0 that
\* observe_body_challenge passes.
Statuses == {"ok", "unchanged", "denied", "limited", "busy", "other", "none"}

\* An answer is a status, a challenge detected in the headers, and the longest
\* Retry-After as a delta (0: absent, or a date in the past).
ASSUME GateAssumption ==
    /\ IsFiniteSet(Tasks)
    /\ NoTask \notin Tasks
    /\ Permits \in Nat \ {0}
    /\ Gap \in Nat \ {0}
    /\ Delays \subseteq Nat
    /\ MaxDelay \in Nat
    /\ Block \in Nat
    /\ MaxRate \in Nat \ {0}
    /\ Backoff \in [0..MaxRate -> Nat]
    /\ Answers \subseteq [status : Statuses, challenge : BOOLEAN, after : Nat]
    /\ Forever \in Nat
    /\ Steps \subseteq Nat \ {0}
    /\ MaxTime \in Nat
    /\ MaxRuns \in Nat

VARIABLES
    pc,         \* pc[t]: how far task t is in acquire_host / Transport::send
    gap,        \* gap[t]: the gap t asked for (HostPermit.gap_ms)
    wake,       \* wake[t]: the next_start t read before wait_until
    answer,     \* answer[t]: what the response t is handling said
    permits,    \* free permits of the semaphore
    start,      \* holder of the start mutex
    timing,     \* GateTiming, in process ticks
    mem,        \* HostRegistry.states[host]
    disk,       \* host-state.json
    failed,     \* HostRegistry.failed
    now, boot, utc, run,
    seen,       \* ghost: the latest request that reached the host
    began,      \* ghost: when the latest admitted request started
    refused,    \* ghost: latest acknowledged access refusal
    hold        \* ghost: how long this process owes the host silence

tasks  == <<pc, gap, wake, answer, permits, start>>
store  == <<mem, disk, failed>>
clocks == <<now, boot, utc, run>>
ghosts == <<seen, began, refused, hold>>
vars   == <<tasks, timing, store, clocks, ghosts>>

-----------------------------------------------------------------------------

MaxOf(a, b) == IF a >= b THEN a ELSE b

Ticks == now - boot

\* None is 0 in a UTC field (wall time starts at 1) and -1 in last_headers.
FreshState  == [blocked |-> 0, retry |-> 0, rate |-> 0, last |-> 0]
FreshTiming == [next |-> 0, headers |-> -1, blocked |-> 0, ready |-> FALSE]

Remaining(deadline) == IF deadline > utc THEN deadline - utc ELSE 0

\* Mutant: the deadline follows the wall clock down.
SyncFollowingUtc(tm, state, g) ==
    [next    |-> IF tm.headers = -1 THEN tm.next ELSE MaxOf(tm.next, tm.headers + g + 1),
     headers |-> tm.headers,
     blocked |-> Ticks + Remaining(MaxOf(state.blocked, state.retry)),
     ready   |-> TRUE]

\* Mutant: the persisted start is not consulted.
SyncForgettingStart(tm, state, g) ==
    [next    |-> IF tm.headers = -1 THEN tm.next ELSE MaxOf(tm.next, tm.headers + g + 1),
     headers |-> tm.headers,
     blocked |-> MaxOf(tm.blocked, Ticks + Remaining(MaxOf(state.blocked, state.retry))),
     ready   |-> TRUE]

\* HostGate::sync_deadlines: fold the UTC record into the monotonic deadlines.
SyncDeadlines(tm, state, g) ==
    LET deadline == MaxOf(state.blocked, state.retry)
        first    == IF tm.ready \/ state.last = 0
                    THEN tm.next
                    ELSE Ticks + Remaining(state.last + g)
    IN  [next    |-> IF tm.headers = -1
                     THEN first
                     ELSE MaxOf(first, tm.headers + g + 1),
         headers |-> tm.headers,
         blocked |-> IF deadline = 0
                     THEN tm.blocked
                     ELSE MaxOf(tm.blocked, Ticks + Remaining(deadline)),
         ready   |-> TRUE]

\* Mutant: the gap is measured from the reserved start only.
HeadersIgnored(tm, g) == tm

\* HostPermit::headers_received.
HeadersReceived(tm, g) ==
    [next    |-> MaxOf(tm.next, Ticks + g + 1),
     headers |-> Ticks,
     blocked |-> tm.blocked,
     ready   |-> tm.ready]

Blocked(tm) == tm.blocked > Ticks

-----------------------------------------------------------------------------
(* HostRegistry *)

RateLimited(a) == a.status \in {"limited", "busy"}                     \* 429, 503
Refusal(a) == a.status \in {"denied", "limited"} \/ a.challenge  \* 401, 403, 429
BodyChallenge == [status |-> "none", challenge |-> TRUE, after |-> 0]

NextRate(state, a) ==
    IF RateLimited(a)
    THEN IF state.rate = MaxRate THEN MaxRate ELSE state.rate + 1
    ELSE IF a.status = "ok" THEN 0 ELSE state.rate

\* The wait a rate-limiting answer asks for: backoff, or a longer Retry-After.
RateWait(state, a) ==
    MaxOf(Backoff[NextRate(state, a)], IF a.after = Forever THEN 0 ELSE a.after)

\* HostRegistry::observe, the change it makes to the record.
Observed(state, a) ==
    LET retry == IF RateLimited(a) THEN MaxOf(state.retry, utc + RateWait(state, a))
                 ELSE IF a.status = "ok" THEN 0 ELSE state.retry
        held  == IF RateLimited(a) /\ a.after = Forever
                 THEN MaxOf(state.blocked, Forever) ELSE state.blocked
    IN  [blocked |-> IF Refusal(a) THEN MaxOf(MaxOf(held, utc + Block), retry) ELSE held,
         retry   |-> retry,
         rate    |-> NextRate(state, a),
         last    |-> state.last]

\* HostRegistry::valid_not_modified.
RateReset(state) == [blocked |-> state.blocked, retry |-> 0, rate |-> 0, last |-> state.last]

\* Mutant: the change stays in memory.
UpdateInMemory(state) == ~failed /\ mem' = state /\ UNCHANGED <<disk, failed>>

\* HostRegistry::update: the record changes in memory, then is persisted with
\* atomic_write.  A failed write poisons the registry until a restart; the
\* rename may or may not have reached the disk before the failure.
UpdateAcknowledged(state) ==
    /\ ~failed
    /\ mem' = state
    /\ disk' = state
    /\ UNCHANGED failed

UpdateFails(state) ==
    /\ ~failed
    /\ mem' = state
    /\ disk' \in {disk, state}
    /\ failed' = TRUE

UpdateRefused == failed /\ UNCHANGED store

-----------------------------------------------------------------------------
(* acquire_host *)

NoAnswer == [refusal |-> 0, owed |-> 0, unchanged |-> FALSE, reset |-> FALSE]

\* The future ends and its locals are gone.
End(t) ==
    /\ pc' = [pc EXCEPT ![t] = "idle"]
    /\ gap' = [gap EXCEPT ![t] = Gap]
    /\ wake' = [wake EXCEPT ![t] = 0]
    /\ answer' = [answer EXCEPT ![t] = NoAnswer]

\* Mutant: the permit is handed back twice.
ReleasePermitTwice(t) == End(t) /\ permits' = permits + 2

\* It ends (error, refusal or cancellation) holding only a permit.
ReleasePermit(t) == End(t) /\ permits' = permits + 1

\* It ends holding the start mutex too.
ReleaseBoth(t) == ReleasePermit(t) /\ start' = NoTask

\* A fetch arrives with the publisher delay d; a delay above the ceiling is
\* refused and never clamped.
Request(t, d) ==
    /\ pc[t] = "idle"
    /\ d <= MaxDelay
    /\ pc' = [pc EXCEPT ![t] = "permit"]
    /\ gap' = [gap EXCEPT ![t] = MaxOf(Gap, d)]
    /\ UNCHANGED <<wake, answer, permits, start, timing, store, clocks, ghosts>>

\* Mutant: nobody waits for a free permit.
AcquireUnguarded(t) ==
    /\ pc[t] = "permit"
    /\ permits' = permits - 1
    /\ pc' = [pc EXCEPT ![t] = "lock"]
    /\ UNCHANGED <<gap, wake, answer, start, timing, store, clocks, ghosts>>

AcquirePermit(t) ==
    /\ pc[t] = "permit"
    /\ permits > 0
    /\ permits' = permits - 1
    /\ pc' = [pc EXCEPT ![t] = "lock"]
    /\ UNCHANGED <<gap, wake, answer, start, timing, store, clocks, ghosts>>

\* Lock the start mutex, refresh the deadlines and reject a blocked host.
LockStart(t) ==
    /\ pc[t] = "lock"
    /\ start = NoTask
    /\ \/ failed /\ ReleasePermit(t) /\ UNCHANGED <<start, timing>>
       \/ /\ ~failed
          /\ timing' = SyncDeadlines(timing, mem, gap[t])
          /\ \/ Blocked(timing') /\ ReleasePermit(t) /\ UNCHANGED start
             \/ /\ ~Blocked(timing')
                /\ start' = t
                /\ wake' = [wake EXCEPT ![t] = timing'.next]
                /\ pc' = [pc EXCEPT ![t] = "waiting"]
                /\ UNCHANGED <<gap, answer, permits>>
    /\ UNCHANGED <<store, clocks, ghosts>>

\* wait_until has returned: refresh, look again, and reserve the start.
Admit(t) ==
    /\ pc[t] = "waiting"
    /\ Ticks >= wake[t]
    /\ ~failed
    /\ LET tm == SyncDeadlines(timing, mem, gap[t])
       IN  /\ ~Blocked(tm)
           /\ timing' = [tm EXCEPT !.next = Ticks + gap[t]]
    /\ pc' = [pc EXCEPT ![t] = "admitted"]
    /\ UNCHANGED <<gap, wake, answer, permits, start, store, clocks, ghosts>>

TurnAway(t) ==
    /\ pc[t] = "waiting"
    /\ Ticks >= wake[t]
    /\ \/ failed /\ UNCHANGED timing
       \/ /\ ~failed
          /\ timing' = SyncDeadlines(timing, mem, gap[t])
          /\ Blocked(timing')
    /\ ReleaseBoth(t)
    /\ UNCHANGED <<store, clocks, ghosts>>

\* registry.started: persist the start, then hand out the HostPermit.
RecordStart(t) ==
    /\ pc[t] = "admitted"
    /\ LET state == [mem EXCEPT !.last = utc]
       IN  \/ /\ UpdateAcknowledged(state)
              /\ pc' = [pc EXCEPT ![t] = "sending"]
              /\ began' = [at |-> now, gap |-> gap[t], run |-> run]
              /\ UNCHANGED <<gap, wake, answer, permits, start>>
           \/ (UpdateFails(state) \/ UpdateRefused) /\ ReleaseBoth(t) /\ UNCHANGED began
    /\ UNCHANGED <<timing, clocks, seen, refused, hold>>

-----------------------------------------------------------------------------
(* Transport::send and BoundedResponse *)

\* The request reaches the host, any time after it was started.
Arrive(t) ==
    /\ pc[t] = "sending"
    /\ pc' = [pc EXCEPT ![t] = "sent"]
    /\ seen' = [at |-> now, gap |-> gap[t], run |-> run]
    /\ UNCHANGED <<gap, wake, answer, permits, start, timing, store, clocks,
                   began, refused, hold>>

\* HostPermit::drop while the start mutex is still held: a transport error, a
\* cancelled fetch, a robots snapshot that went stale, a failed observe.
DropPermit(t) ==
    /\ ReleaseBoth(t)
    /\ timing' = HeadersReceived(timing, gap[t])

Abandon(t) ==
    /\ pc[t] \in {"sending", "sent"}
    /\ DropPermit(t)
    /\ UNCHANGED <<store, clocks, ghosts>>

\* What an answer obliges the crawler to, in true time: until when an access
\* refusal and a rate limit keep it away.  `reset` becomes true when a 304 resets
\* the rate state while the answer is being handled.
Meaning(state, a) ==
    [refusal   |-> IF Refusal(a) THEN now + Block ELSE 0,
     owed      |-> IF RateLimited(a)
                   THEN now + IF a.after = Forever THEN Remaining(Forever)
                              ELSE RateWait(state, a)
                   ELSE 0,
     unchanged |-> a.status = "unchanged",
     reset     |-> FALSE]

\* Headers arrive and the registry records them.
Respond(t, a) ==
    /\ pc[t] = "sent"
    /\ \/ /\ UpdateAcknowledged(Observed(mem, a))
          /\ pc' = [pc EXCEPT ![t] = "observed"]
          /\ answer' = [answer EXCEPT ![t] = Meaning(mem, a)]
          /\ UNCHANGED <<gap, wake, permits, start, timing>>
       \/ (UpdateFails(Observed(mem, a)) \/ UpdateRefused) /\ DropPermit(t)
    /\ UNCHANGED <<clocks, ghosts>>

\* observe() has returned: from now on the answer binds the process.
Acknowledge(t) ==
    /\ refused' = IF answer[t].refusal > refused.until
                  THEN [until |-> answer[t].refusal, run |-> run] ELSE refused
    /\ hold' = IF answer[t].reset THEN hold ELSE MaxOf(hold, answer[t].owed)
    /\ UNCHANGED <<seen, began>>

\* The rest of HostPermit::observe, then headers_received lets the next
\* request start.
OpenBody(t) ==
    /\ pc[t] = "observed"
    /\ \/ failed /\ DropPermit(t) /\ UNCHANGED ghosts
       \/ /\ ~failed
          /\ timing' = HeadersReceived(SyncDeadlines(timing, mem, gap[t]), gap[t])
          /\ start' = NoTask
          /\ pc' = [pc EXCEPT ![t] = "body"]
          /\ Acknowledge(t)
          /\ UNCHANGED <<gap, wake, answer, permits>>
    /\ UNCHANGED <<store, clocks>>

\* The body is read, refused or abandoned and the connection is closed.  A 304
\* goes on to the executor's check of the earlier copy.
CloseBody(t) ==
    /\ pc[t] = "body"
    /\ permits' = permits + 1
    /\ IF answer[t].unchanged
       THEN pc' = [pc EXCEPT ![t] = "validate"] /\ UNCHANGED <<gap, wake, answer>>
       ELSE End(t)
    /\ UNCHANGED <<start, timing, store, clocks, ghosts>>

\* The body turns out to be a challenge page: observe_body_challenge.
FindChallenge(t) ==
    /\ pc[t] = "body"
    /\ \/ /\ UpdateAcknowledged(Observed(mem, BodyChallenge))
          /\ pc' = [pc EXCEPT ![t] = "challenged"]
          /\ answer' = [answer EXCEPT ![t] = Meaning(mem, BodyChallenge)]
          /\ UNCHANGED <<gap, wake, permits>>
       \/ /\ UpdateFails(Observed(mem, BodyChallenge)) \/ UpdateRefused
          /\ ReleasePermit(t)
    /\ UNCHANGED <<start, timing, clocks, ghosts>>

CloseChallenged(t) ==
    /\ pc[t] = "challenged"
    /\ \/ failed /\ UNCHANGED <<timing, ghosts>>
       \/ /\ ~failed
          /\ timing' = SyncDeadlines(timing, mem, gap[t])
          /\ Acknowledge(t)
    /\ ReleasePermit(t)
    /\ UNCHANGED <<start, store, clocks>>

\* apply_not_modified: a 304 for a representation we hold resets the rate state,
\* and with it what the host is owed for rate limits already recorded.
NotModified(t) ==
    /\ pc[t] = "validate"
    /\ \/ /\ UpdateAcknowledged(RateReset(mem))
          /\ hold' = 0
          /\ pc' = [pc EXCEPT ![t] = "idle"]
          /\ gap' = [gap EXCEPT ![t] = Gap]
          /\ answer' = [u \in Tasks |->
                           IF u = t THEN NoAnswer
                           ELSE IF pc[u] = "observed" THEN [answer[u] EXCEPT !.reset = TRUE]
                           ELSE answer[u]]
          /\ UNCHANGED wake
       \/ (UpdateFails(RateReset(mem)) \/ UpdateRefused) /\ End(t) /\ UNCHANGED hold
    /\ UNCHANGED <<permits, start, timing, clocks, seen, began, refused>>

\* The caller drops a fetch that is still queued: no HostPermit exists yet.
Cancel(t) ==
    /\ \/ pc[t] = "permit" /\ End(t) /\ UNCHANGED <<permits, start>>
       \/ pc[t] = "lock" /\ ReleasePermit(t) /\ UNCHANGED start
       \/ pc[t] = "waiting" /\ ReleaseBoth(t)
    /\ UNCHANGED <<timing, store, clocks, ghosts>>

-----------------------------------------------------------------------------
(* Environment *)

Tick ==
    /\ now < MaxTime
    /\ now' = now + 1
    /\ utc' = utc + 1
    /\ UNCHANGED <<boot, run, tasks, timing, store, ghosts>>

\* The wall clock is set.  observe() reads it twice, to record the answer and to
\* convert it to ticks.  A step of the clock between the two readings is left
\* out: set forward just then, it would shorten the block.
SetClock ==
    /\ \A t \in Tasks : pc[t] \notin {"observed", "challenged"}
    /\ utc' \in Steps \ {utc}
    /\ UNCHANGED <<now, boot, run, tasks, timing, store, ghosts>>

\* The process dies and HostRegistry::open starts a new one from the disk.
Restart ==
    /\ run < MaxRuns
    /\ run' = run + 1
    /\ boot' = now
    /\ pc' = [t \in Tasks |-> "idle"]
    /\ gap' = [t \in Tasks |-> Gap]
    /\ wake' = [t \in Tasks |-> 0]
    /\ answer' = [t \in Tasks |-> NoAnswer]
    /\ permits' = Permits
    /\ start' = NoTask
    /\ timing' = FreshTiming
    /\ mem' = disk
    /\ failed' = FALSE
    /\ hold' = 0
    /\ UNCHANGED <<disk, now, utc, seen, began, refused>>

Init ==
    /\ pc = [t \in Tasks |-> "idle"]
    /\ gap = [t \in Tasks |-> Gap]
    /\ wake = [t \in Tasks |-> 0]
    /\ answer = [t \in Tasks |-> NoAnswer]
    /\ permits = Permits
    /\ start = NoTask
    /\ timing = FreshTiming
    /\ mem = FreshState
    /\ disk = FreshState
    /\ failed = FALSE
    /\ now = 0 /\ boot = 0 /\ utc = 1 /\ run = 1
    /\ seen = [at |-> 0, gap |-> 0, run |-> 0]
    /\ began = [at |-> 0, gap |-> 0, run |-> 0]
    /\ refused = [until |-> 0, run |-> 0]
    /\ hold = 0

TaskNext(t) ==
    \/ \E d \in Delays : Request(t, d)
    \/ AcquirePermit(t)
    \/ LockStart(t)
    \/ Admit(t)
    \/ TurnAway(t)
    \/ RecordStart(t)
    \/ Arrive(t)
    \/ Abandon(t)
    \/ \E a \in Answers : Respond(t, a)
    \/ OpenBody(t)
    \/ CloseBody(t)
    \/ FindChallenge(t)
    \/ CloseChallenged(t)
    \/ NotModified(t)
    \/ Cancel(t)

Next ==
    \/ \E t \in Tasks : TaskNext(t)
    \/ Tick
    \/ SetClock
    \/ Restart

Spec == Init /\ [][Next]_vars

-----------------------------------------------------------------------------
(* Properties *)

InHeaders == {"admitted", "sending", "sent", "observed"}
Holding   == {"lock", "waiting", "body", "challenged"} \cup InHeaders
Connected == {"sending", "sent", "observed", "body", "challenged"}
Stages    == {"idle", "permit", "validate"} \cup Holding

States   == [blocked : Nat, retry : Nat, rate : 0..MaxRate, last : Nat]
Timings  == [next : Nat, headers : Nat \cup {-1}, blocked : Nat, ready : BOOLEAN]
Meanings == [refusal : Nat, owed : Nat, unchanged : BOOLEAN, reset : BOOLEAN]
Marks    == [at : Nat, gap : Nat, run : Nat]

TasksTyped ==
    /\ pc \in [Tasks -> Stages]
    /\ gap \in [Tasks -> Nat]
    /\ wake \in [Tasks -> Nat]
    /\ answer \in [Tasks -> Meanings]
    /\ permits \in Nat
    /\ start \in Tasks \cup {NoTask}

StoreTyped == mem \in States /\ disk \in States /\ failed \in BOOLEAN

ClocksTyped == now \in Nat /\ boot \in 0..now /\ utc \in Nat \ {0} /\ run \in Nat \ {0}

GhostsTyped ==
    /\ seen \in Marks /\ seen.at <= now /\ seen.run <= run
    /\ began \in Marks /\ began.at <= now /\ began.run <= run
    /\ refused \in [until : Nat, run : Nat] /\ refused.run <= run
    /\ hold \in Nat

Typed == TasksTyped /\ timing \in Timings /\ StoreTyped /\ ClocksTyped /\ GhostsTyped

\* Every variable keeps its type, no permit is ever handed back twice, and the
\* clocks and the histories agree on what lies in the past.
TypeOK == Typed /\ permits <= Permits

\* README.md: "at most two connections to it".  Whatever mix of errors,
\* cancellations and refusals the tasks go through, the host never sees more
\* connections than the semaphore has permits.
ConnectionCap == Cardinality({t \in Tasks : pc[t] \in Connected}) <= Permits

\* network.rs: "another same-host request cannot replace this request's DNS pin
\* between admission and connection resolution".  From admission to the
\* recorded headers a request is alone.
PinExclusive ==
    \A t, u \in Tasks : pc[t] \in InHeaders /\ pc[u] \in InHeaders => t = u

Locks == INSTANCE GateLocks WITH held <- {t \in Tasks : pc[t] \in Holding}, owner <- start

\* acquire_host and HostPermit implement the permit and mutex discipline their
\* callers rely on: errors, refusals, cancellations and restarts included.
ImplementsLocks == Locks!Spec

\* The gap holds between ARRIVALS at the host, not just between the moments the
\* process decided to send: within a process two successive requests reach
\* the host more than the larger of their two gaps apart, whatever the connect
\* latency was and whatever the wall clock did.
ArrivalGap ==
    [][\A t \in Tasks :
          Arrive(t) /\ seen.run = run => now > seen.at + MaxOf(seen.gap, gap[t])]_vars

\* Across a restart, with a wall clock nobody sets, the process starts no request
\* within the configured gap of the last one any process started.  That is all a
\* restart keeps: HostState holds neither the time the last request reached the
\* host, which may be later, nor the publisher's Crawl-delay.
RestartGap ==
    [][\A t \in Tasks :
          Admit(t) /\ began.run # 0 => now >= began.at + Gap]_vars

\* README.md: "stops crawling a host for 24 hours after a 401, 403, 429 or a
\* bot challenge".  Once observe() has returned, no request is admitted before
\* the block ends: in this process even if the wall clock is set outside
\* observe() (see SetClock), and after a restart if it is not set at all.
RefusalKept ==
    [][\A t \in Tasks :
          /\ Admit(t)
          /\ refused.run = run \/ Steps = {}
          => now >= refused.until]_vars

\* A 429/503 keeps the process away for the backoff or the Retry-After, the
\* longer of the two, until a valid 304 resets it.
BackoffKept ==
    [][\A t \in Tasks : Admit(t) => now >= hold]_vars

=============================================================================
