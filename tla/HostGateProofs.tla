--------------------------- MODULE HostGateProofs ---------------------------
(***************************************************************************)
(* Theorems about HostGate, for any number of tasks and permits, any gap,  *)
(* delays, block, backoff table and clock steps, and unbounded time.       *)
(***************************************************************************)
EXTENDS HostGate, TLAPS, FiniteSetTheorems

-----------------------------------------------------------------------------
(* The operators stay within their types *)

\* sync_deadlines returns a GateTiming whose block and whose next start never
\* move back once the record has been read.
LEMMA SyncType ==
    ASSUME NEW tm \in Timings, NEW state \in States, NEW g \in Nat, ClocksTyped
    PROVE  /\ SyncDeadlines(tm, state, g) \in Timings
           /\ SyncDeadlines(tm, state, g).blocked >= tm.blocked
           /\ tm.ready = TRUE => SyncDeadlines(tm, state, g).next >= tm.next
           /\ tm.headers # -1 => SyncDeadlines(tm, state, g).next > tm.headers + g
           /\ SyncDeadlines(tm, state, g).headers = tm.headers
           /\ SyncDeadlines(tm, state, g).ready = TRUE
  BY DEF SyncDeadlines, MaxOf, Remaining, Ticks, Timings, States, ClocksTyped

\* headers_received returns a GateTiming.
LEMMA HeadersType ==
    ASSUME NEW tm \in Timings, NEW g \in Nat, ClocksTyped
    PROVE  /\ HeadersReceived(tm, g) \in Timings
           /\ HeadersReceived(tm, g).blocked = tm.blocked
           /\ HeadersReceived(tm, g).headers = Ticks
           /\ HeadersReceived(tm, g).next > Ticks + g
           /\ HeadersReceived(tm, g).next >= tm.next
           /\ HeadersReceived(tm, g).ready = tm.ready
  <1>1. Ticks \in Nat /\ MaxOf(tm.next, Ticks + g + 1) \in Nat
    BY DEF MaxOf, Ticks, Timings, ClocksTyped
  <1>. QED
    BY <1>1 DEF HeadersReceived, MaxOf, Timings

\* observe() keeps the record a record and never moves its block back.
LEMMA ObservedType ==
    ASSUME NEW state \in States,
           NEW a \in [status : Statuses, challenge : BOOLEAN, after : Nat],
           utc \in Nat \ {0}
    PROVE  /\ Observed(state, a) \in States
           /\ Observed(state, a).blocked >= state.blocked
           /\ Observed(state, a).last = state.last
           /\ Refusal(a) => Observed(state, a).blocked >= utc + Block
  <1>1. NextRate(state, a) \in 0..MaxRate
    BY GateAssumption DEF NextRate, States
  <1>2. RateWait(state, a) \in Nat
    BY <1>1, GateAssumption DEF RateWait, MaxOf
  <1>. DEFINE retry == IF RateLimited(a) THEN MaxOf(state.retry, utc + RateWait(state, a))
                       ELSE IF a.status = "ok" THEN 0 ELSE state.retry
              held == IF RateLimited(a) /\ a.after = Forever
                      THEN MaxOf(state.blocked, Forever) ELSE state.blocked
              block == IF Refusal(a) THEN MaxOf(MaxOf(held, utc + Block), retry) ELSE held
  <1>3. retry \in Nat /\ held \in Nat /\ held >= state.blocked
    BY <1>2, GateAssumption DEF MaxOf, States
  <1>4. /\ block \in Nat /\ block >= held
        /\ Refusal(a) => block >= utc + Block
    <2>. HIDE DEF retry, held
    <2>. QED BY <1>3, GateAssumption DEF MaxOf
  <1>5. Observed(state, a) = [blocked |-> block, retry |-> retry,
                              rate |-> NextRate(state, a), last |-> state.last]
    BY DEF Observed
  <1>. HIDE DEF retry, held, block
  <1>. QED
    BY <1>1, <1>3, <1>4, <1>5 DEF States

\* valid_not_modified keeps the record a record and leaves its block alone.
LEMMA ResetType ==
    ASSUME NEW state \in States
    PROVE  /\ RateReset(state) \in States
           /\ RateReset(state).blocked = state.blocked
           /\ RateReset(state).last = state.last
  BY GateAssumption DEF RateReset, States

\* What an answer obliges the crawler to is well typed.
LEMMA MeaningType ==
    ASSUME NEW state \in States,
           NEW a \in [status : Statuses, challenge : BOOLEAN, after : Nat],
           ClocksTyped
    PROVE  Meaning(state, a) \in Meanings
  <1>1. NextRate(state, a) \in 0..MaxRate
    BY GateAssumption DEF NextRate, States
  <1>2. RateWait(state, a) \in Nat /\ Remaining(Forever) \in Nat
    BY <1>1, GateAssumption DEF RateWait, MaxOf, Remaining, ClocksTyped
  <1>. QED
    BY <1>2, GateAssumption DEF Meaning, Meanings, ClocksTyped

\* A registry update, acknowledged or not, leaves records on both sides.
LEMMA UpdateType ==
    ASSUME NEW state \in States, StoreTyped,
           UpdateAcknowledged(state) \/ UpdateFails(state) \/ UpdateRefused
    PROVE  StoreTyped'
  BY Zenon DEF UpdateAcknowledged, UpdateFails, UpdateRefused, store, StoreTyped

\* What a task and the gate look like before a fetch.
LEMMA IdleType ==
    /\ NoAnswer \in Meanings /\ "idle" \in Stages
    /\ Gap \in Nat /\ Permits \in Nat
    /\ NoTask \in Tasks \cup {NoTask}
  <1>1. Gap \in Nat /\ Permits \in Nat
    BY GateAssumption
  <1>2. NoAnswer \in Meanings /\ "idle" \in Stages
    BY DEF NoAnswer, Meanings, Stages
  <1>. QED BY <1>1, <1>2

\* Ending a task leaves well-typed locals.
LEMMA EndType ==
    ASSUME NEW t \in Tasks, TasksTyped, End(t),
           permits' \in Nat, start' \in Tasks \cup {NoTask}
    PROVE  TasksTyped'
  BY IdleType DEF End, TasksTyped

\* Moving a task from one stage to another leaves its locals as they were.
LEMMA StageType ==
    ASSUME NEW t \in Tasks, NEW stage \in Stages, TasksTyped,
           pc' = [pc EXCEPT ![t] = stage],
           gap' \in [Tasks -> Nat], wake' \in [Tasks -> Nat], answer' \in [Tasks -> Meanings],
           permits' \in Nat, start' \in Tasks \cup {NoTask}
    PROVE  TasksTyped'
  BY Zenon DEF TasksTyped

\* Acknowledging an answer keeps the histories in the past.
LEMMA AcknowledgeType ==
    ASSUME NEW t \in Tasks, TasksTyped, ClocksTyped, GhostsTyped, Acknowledge(t), UNCHANGED clocks
    PROVE  GhostsTyped'
  <1>1. answer[t].refusal \in Nat /\ answer[t].owed \in Nat
    BY DEF TasksTyped, Meanings
  <1>2. refused' \in [until : Nat, run : Nat] /\ refused'.run <= run
    BY <1>1 DEF Acknowledge, GhostsTyped, ClocksTyped
  <1>3. hold' \in Nat
    BY <1>1 DEF Acknowledge, GhostsTyped, MaxOf
  <1>. QED
    BY <1>2, <1>3 DEF Acknowledge, GhostsTyped, clocks

-----------------------------------------------------------------------------
(* Types *)

\* The initial state is well typed.
LEMMA InitTyped == Init => Typed
  <1>. SUFFICES ASSUME Init PROVE Typed
    OBVIOUS
  <1>1. TasksTyped
    BY IdleType DEF Init, TasksTyped
  <1>2. timing \in Timings
    BY DEF Init, FreshTiming, Timings
  <1>3. StoreTyped
    <2>1. mem \in States /\ disk \in States
      BY GateAssumption DEF Init, FreshState, States
    <2>2. failed \in BOOLEAN
      BY Zenon DEF Init
    <2>. QED BY <2>1, <2>2 DEF StoreTyped
  <1>4. ClocksTyped /\ GhostsTyped
    BY DEF Init, ClocksTyped, GhostsTyped, Marks
  <1>. QED
    BY <1>1, <1>2, <1>3, <1>4 DEF Typed

\* Every step of a task, of the clocks or of the process keeps the types.
LEMMA NextTyped == Typed /\ [Next]_vars => Typed'
  <1>. SUFFICES ASSUME Typed, [Next]_vars PROVE Typed'
    OBVIOUS
  <1>0. /\ TasksTyped /\ timing \in Timings /\ StoreTyped /\ ClocksTyped /\ GhostsTyped
        /\ mem \in States
        /\ \A t \in Tasks : gap[t] \in Nat
        /\ \A t \in Tasks : SyncDeadlines(timing, mem, gap[t]) \in Timings
        /\ \A t \in Tasks : HeadersReceived(timing, gap[t]) \in Timings
    <2>1. /\ TasksTyped /\ timing \in Timings /\ StoreTyped /\ ClocksTyped /\ GhostsTyped
          /\ mem \in States
          /\ \A t \in Tasks : gap[t] \in Nat
      BY DEF Typed, TasksTyped, StoreTyped
    <2>. QED BY Zenon, <2>1, SyncType, HeadersType
  <1>a. UNCHANGED store => StoreTyped'
    BY <1>0 DEF store, StoreTyped
  <1>b. UNCHANGED clocks => ClocksTyped'
    BY <1>0 DEF clocks, ClocksTyped
  <1>c. UNCHANGED <<clocks, ghosts>> => GhostsTyped'
    BY <1>0 DEF clocks, ghosts, GhostsTyped
  <1>d. ASSUME NEW t \in Tasks, ReleasePermit(t), start' \in Tasks \cup {NoTask}
        PROVE  TasksTyped'
    <2>1. permits' \in Nat
      BY <1>0, <1>d DEF ReleasePermit, TasksTyped
    <2>. QED BY <2>1, <1>0, <1>d, EndType DEF ReleasePermit
  <1>e. ASSUME NEW t \in Tasks, DropPermit(t) PROVE TasksTyped' /\ timing' \in Timings
    BY <1>0, <1>d, <1>e DEF DropPermit, ReleaseBoth
  <1>f. start \in Tasks \cup {NoTask} /\ permits \in Nat
    BY <1>0 DEF TasksTyped
  <1>1. ASSUME NEW t \in Tasks, NEW d \in Delays, Request(t, d) PROVE Typed'
    <2>1. MaxOf(Gap, d) \in Nat
      BY GateAssumption DEF MaxOf
    <2>2. TasksTyped'
      BY <2>1, <1>0, <1>1, StageType DEF Request, TasksTyped, Stages
    <2>. QED BY <2>2, <1>0, <1>a, <1>b, <1>c, <1>1 DEF Request, Typed
  <1>2. ASSUME NEW t \in Tasks, AcquirePermit(t) PROVE Typed'
    <2>1. TasksTyped'
      BY <1>0, <1>2, StageType DEF AcquirePermit, TasksTyped, Stages, Holding
    <2>. QED BY <2>1, <1>0, <1>a, <1>b, <1>c, <1>2 DEF AcquirePermit, Typed
  <1>3. ASSUME NEW t \in Tasks, LockStart(t) PROVE Typed'
    <2>1. timing' \in Timings
      BY <1>0, <1>3 DEF LockStart
    <2>2. timing'.next \in Nat
      BY <2>1 DEF Timings
    <2>3. TasksTyped'
      <3>1. CASE ReleasePermit(t) /\ UNCHANGED start
        BY <3>1, <1>d, <1>f
      <3>2. CASE ~(ReleasePermit(t) /\ UNCHANGED start)
        BY <3>2, <2>2, <1>0, <1>3, StageType DEF LockStart, TasksTyped, Stages, Holding
      <3>. QED BY <3>1, <3>2
    <2>. QED BY <2>1, <2>3, <1>0, <1>a, <1>b, <1>c, <1>3 DEF LockStart, Typed
  <1>4. ASSUME NEW t \in Tasks, Admit(t) PROVE Typed'
    <2>1. Ticks + gap[t] \in Nat
      BY <1>0 DEF Ticks, ClocksTyped
    <2>2. timing' \in Timings
      BY <2>1, <1>0, <1>4 DEF Admit, Timings
    <2>3. TasksTyped'
      BY Zenon, <1>0, <1>4, StageType DEF Admit, TasksTyped, Stages, Holding, InHeaders
    <2>. QED BY <2>2, <2>3, <1>0, <1>a, <1>b, <1>c, <1>4 DEF Admit, Typed
  <1>5. ASSUME NEW t \in Tasks, TurnAway(t) PROVE Typed'
    <2>1. timing' \in Timings
      BY <1>0, <1>5 DEF TurnAway
    <2>2. TasksTyped'
      BY <1>d, <1>5 DEF TurnAway, ReleaseBoth
    <2>. QED BY <2>1, <2>2, <1>0, <1>a, <1>b, <1>c, <1>5 DEF TurnAway, Typed
  <1>6. ASSUME NEW t \in Tasks, RecordStart(t) PROVE Typed'
    <2>. DEFINE state == [mem EXCEPT !.last = utc]
    <2>1. state \in States
      BY <1>0 DEF States, ClocksTyped
    <2>2. UpdateAcknowledged(state) \/ UpdateFails(state) \/ UpdateRefused
      BY <1>6 DEF RecordStart
    <2>3. StoreTyped'
      BY <2>1, <2>2, <1>0, UpdateType
    <2>4. TasksTyped'
      <3>1. CASE ReleaseBoth(t)
        BY <3>1, <1>d DEF ReleaseBoth
      <3>2. CASE ~ReleaseBoth(t)
        BY <3>2, <1>0, <1>6, StageType DEF RecordStart, TasksTyped, Stages, Holding, InHeaders
      <3>. QED BY <3>1, <3>2
    <2>5. GhostsTyped'
      BY <1>0, <1>6 DEF RecordStart, GhostsTyped, Marks, ClocksTyped, clocks
    <2>. QED BY <2>3, <2>4, <2>5, <1>0, <1>b, <1>6 DEF RecordStart, Typed
  <1>7. ASSUME NEW t \in Tasks, Arrive(t) PROVE Typed'
    <2>1. TasksTyped'
      BY Zenon, <1>0, <1>7, StageType DEF Arrive, TasksTyped, Stages, Holding, InHeaders
    <2>2. GhostsTyped'
      BY <1>0, <1>7 DEF Arrive, GhostsTyped, Marks, ClocksTyped, clocks
    <2>. QED BY <2>1, <2>2, <1>0, <1>a, <1>b, <1>7 DEF Arrive, Typed
  <1>8. ASSUME NEW t \in Tasks, Abandon(t) PROVE Typed'
    BY <1>e, <1>0, <1>a, <1>b, <1>c, <1>8 DEF Abandon, Typed
  <1>9. ASSUME NEW t \in Tasks, NEW a \in Answers, Respond(t, a) PROVE Typed'
    <2>1. a \in [status : Statuses, challenge : BOOLEAN, after : Nat]
      BY GateAssumption
    <2>2. Observed(mem, a) \in States /\ Meaning(mem, a) \in Meanings
      BY <2>1, <1>0, ObservedType, MeaningType DEF ClocksTyped
    <2>3. StoreTyped'
      BY <2>2, <1>0, <1>9, UpdateType DEF Respond
    <2>4. TasksTyped' /\ timing' \in Timings
      <3>1. CASE DropPermit(t)
        BY <3>1, <1>e
      <3>2. CASE ~DropPermit(t)
        BY <3>2, <2>2, <1>0, <1>9, StageType
           DEF Respond, TasksTyped, Stages, Holding, InHeaders
      <3>. QED BY <3>1, <3>2
    <2>. QED BY <2>3, <2>4, <1>0, <1>b, <1>c, <1>9 DEF Respond, Typed
  <1>10. ASSUME NEW t \in Tasks, OpenBody(t) PROVE Typed'
    <2>1. CASE DropPermit(t) /\ UNCHANGED ghosts
      BY <2>1, <1>e, <1>0, <1>a, <1>b, <1>c, <1>10 DEF OpenBody, Typed
    <2>2. CASE ~(DropPermit(t) /\ UNCHANGED ghosts)
      <3>1. timing' \in Timings
        BY <2>2, <1>0, <1>10, HeadersType DEF OpenBody
      <3>2. TasksTyped'
        BY <2>2, <1>0, <1>10, StageType DEF OpenBody, TasksTyped, Stages, Holding
      <3>3. GhostsTyped'
        BY <2>2, <1>0, <1>10, AcknowledgeType DEF OpenBody
      <3>. QED BY <3>1, <3>2, <3>3, <1>0, <1>a, <1>b, <1>10 DEF OpenBody, Typed
    <2>. QED BY <2>1, <2>2
  <1>11. ASSUME NEW t \in Tasks, CloseBody(t) PROVE Typed'
    <2>1. permits' \in Nat /\ start' \in Tasks \cup {NoTask}
      BY <1>f, <1>11 DEF CloseBody
    <2>2. TasksTyped'
      <3>1. CASE End(t)
        BY <3>1, <2>1, <1>0, EndType
      <3>2. CASE ~End(t)
        BY <3>2, <2>1, <1>0, <1>11, StageType DEF CloseBody, TasksTyped, Stages
      <3>. QED BY <3>1, <3>2
    <2>. QED BY <2>2, <1>0, <1>a, <1>b, <1>c, <1>11 DEF CloseBody, Typed
  <1>12. ASSUME NEW t \in Tasks, FindChallenge(t) PROVE Typed'
    <2>1. BodyChallenge \in [status : Statuses, challenge : BOOLEAN, after : Nat]
      BY DEF BodyChallenge, Statuses
    <2>2. Observed(mem, BodyChallenge) \in States /\ Meaning(mem, BodyChallenge) \in Meanings
      BY <2>1, <1>0, ObservedType, MeaningType DEF ClocksTyped
    <2>3. StoreTyped'
      BY <2>2, <1>0, <1>12, UpdateType DEF FindChallenge
    <2>4. TasksTyped'
      <3>1. CASE ReleasePermit(t)
        BY <3>1, <1>d, <1>f, <1>12 DEF FindChallenge
      <3>2. CASE ~ReleasePermit(t)
        BY <3>2, <2>2, <1>0, <1>12, StageType DEF FindChallenge, TasksTyped, Stages, Holding
      <3>. QED BY <3>1, <3>2
    <2>. QED BY <2>3, <2>4, <1>0, <1>b, <1>c, <1>12 DEF FindChallenge, Typed
  <1>13. ASSUME NEW t \in Tasks, CloseChallenged(t) PROVE Typed'
    <2>1. timing' \in Timings
      BY <1>0, <1>13 DEF CloseChallenged
    <2>2. TasksTyped'
      BY <1>d, <1>f, <1>13 DEF CloseChallenged
    <2>3. GhostsTyped'
      BY <1>0, <1>c, <1>13, AcknowledgeType DEF CloseChallenged
    <2>. QED BY <2>1, <2>2, <2>3, <1>0, <1>a, <1>b, <1>13 DEF CloseChallenged, Typed
  <1>14. ASSUME NEW t \in Tasks, NotModified(t) PROVE Typed'
    <2>1. StoreTyped'
      BY <1>0, <1>14, ResetType, UpdateType DEF NotModified
    <2>2. NoAnswer \in Meanings
      BY DEF NoAnswer, Meanings
    <2>3. \A u \in Tasks : [answer[u] EXCEPT !.reset = TRUE] \in Meanings
      BY Zenon, <1>0 DEF TasksTyped, Meanings
    <2>4. TasksTyped'
      <3>1. CASE End(t)
        BY <3>1, <1>0, <1>f, <1>14, EndType DEF NotModified
      <3>2. CASE ~End(t)
        <4>1. answer' \in [Tasks -> Meanings]
          BY <3>2, <2>2, <2>3, <1>0, <1>14 DEF NotModified, TasksTyped
        <4>2. Gap \in Nat
          BY GateAssumption
        <4>. QED
          BY <4>1, <4>2, <3>2, <1>0, <1>14, StageType DEF NotModified, TasksTyped, Stages
      <3>. QED BY <3>1, <3>2
    <2>5. GhostsTyped'
      BY <1>0, <1>14 DEF NotModified, GhostsTyped, clocks
    <2>. QED BY <2>1, <2>4, <2>5, <1>0, <1>b, <1>14 DEF NotModified, Typed
  <1>15. ASSUME NEW t \in Tasks, Cancel(t) PROVE Typed'
    <2>1. TasksTyped'
      BY <1>0, <1>d, <1>f, <1>15, EndType DEF Cancel, ReleaseBoth
    <2>. QED BY <2>1, <1>0, <1>a, <1>b, <1>c, <1>15 DEF Cancel, Typed
  <1>16. CASE Tick
    <2>1. TasksTyped'
      BY <1>0, <1>16 DEF Tick, tasks, TasksTyped
    <2>2. ClocksTyped'
      BY <1>0, <1>16 DEF Tick, ClocksTyped
    <2>3. GhostsTyped'
      BY <1>0, <1>16 DEF Tick, ghosts, GhostsTyped, ClocksTyped, Marks
    <2>. QED BY <2>1, <2>2, <2>3, <1>0, <1>a, <1>16 DEF Tick, Typed
  <1>17. CASE SetClock
    <2>1. TasksTyped'
      BY <1>0, <1>17 DEF SetClock, tasks, TasksTyped
    <2>2. ClocksTyped'
      BY Zenon, <1>0, <1>17, GateAssumption DEF SetClock, ClocksTyped
    <2>3. GhostsTyped'
      BY <1>0, <1>17 DEF SetClock, ghosts, GhostsTyped
    <2>. QED BY Zenon, <2>1, <2>2, <2>3, <1>0, <1>a, <1>17 DEF SetClock, Typed
  <1>18. CASE Restart
    <2>1. TasksTyped'
      BY IdleType, <1>18 DEF Restart, TasksTyped
    <2>2. timing' \in Timings
      BY <1>18 DEF Restart, FreshTiming, Timings
    <2>3. StoreTyped' /\ ClocksTyped'
      <3>1. mem' \in States /\ disk' \in States /\ ClocksTyped'
        BY <1>0, <1>18 DEF Restart, StoreTyped, ClocksTyped
      <3>2. failed' \in BOOLEAN
        BY <1>18, Zenon DEF Restart
      <3>. QED BY <3>1, <3>2 DEF StoreTyped
    <2>4. GhostsTyped'
      BY <1>0, <1>18 DEF Restart, GhostsTyped, ClocksTyped, Marks
    <2>. QED BY <2>1, <2>2, <2>3, <2>4 DEF Typed
  <1>19. CASE UNCHANGED vars
    <2>1. TasksTyped'
      BY <1>0, <1>19 DEF vars, tasks, TasksTyped
    <2>. QED BY <2>1, <1>0, <1>a, <1>b, <1>c, <1>19 DEF vars, Typed
  <1>. QED
    BY <1>1, <1>2, <1>3, <1>4, <1>5, <1>6, <1>7, <1>8, <1>9, <1>10, <1>11, <1>12, <1>13,
       <1>14, <1>15, <1>16, <1>17, <1>18, <1>19
    DEF Next, TaskNext

-----------------------------------------------------------------------------
(* The start mutex and the semaphore *)

\* The start mutex is held exactly from the wait for the gap to the headers.
Locked  == {"waiting"} \cup InHeaders
LockInv == \A t \in Tasks : pc[t] \in Locked <=> start = t

\* Permits are neither lost nor invented.
Holders   == {t \in Tasks : pc[t] \in Holding}
PermitInv == permits \in Nat /\ permits + Cardinality(Holders) = Permits

\* Task t moves to stage s, taking or returning what that stage requires.
Move(t, s) ==
    /\ pc' = [pc EXCEPT ![t] = s]
    /\ \/ s \in Locked /\ start \in {t, NoTask} /\ start' = t
       \/ s \notin Locked /\ start = t /\ start' = NoTask
       \/ s \notin Locked /\ start # t /\ start' = start
    /\ \/ pc[t] \in Holding /\ s \in Holding /\ permits' = permits
       \/ pc[t] \notin Holding /\ s \notin Holding /\ permits' = permits
       \/ pc[t] \in Holding /\ s \notin Holding /\ permits' = permits + 1
       \/ pc[t] \notin Holding /\ s \in Holding /\ permits > 0 /\ permits' = permits - 1

\* A move keeps the mutex invariant.
LEMMA MoveLock ==
    ASSUME TasksTyped, LockInv, NEW t \in Tasks, NEW s, Move(t, s)
    PROVE  LockInv'
  <1>1. NoTask \notin Tasks
    BY GateAssumption
  <1>. SUFFICES ASSUME NEW u \in Tasks PROVE pc'[u] \in Locked <=> start' = u
    BY DEF LockInv
  <1>2. pc'[u] = IF u = t THEN s ELSE pc[u]
    BY DEF Move, TasksTyped
  <1>. QED
    BY <1>1, <1>2 DEF Move, LockInv

\* A move keeps the count of permits.
LEMMA MovePermit ==
    ASSUME TasksTyped, PermitInv, NEW t \in Tasks, NEW s, Move(t, s)
    PROVE  PermitInv'
  <1>0. IsFiniteSet(Tasks)
    BY GateAssumption
  <1>1. Holders \subseteq Tasks /\ IsFiniteSet(Holders) /\ Cardinality(Holders) \in Nat
    BY <1>0, FS_Subset, FS_CardinalityType DEF Holders
  <1>2. \A u \in Tasks : pc'[u] = IF u = t THEN s ELSE pc[u]
    BY DEF Move, TasksTyped
  <1>3. CASE (pc[t] \in Holding <=> s \in Holding) /\ permits' = permits
    <2>1. Holders' = Holders
      BY <1>2, <1>3 DEF Holders
    <2>. QED BY <2>1, <1>3 DEF PermitInv
  <1>4. CASE pc[t] \in Holding /\ s \notin Holding /\ permits' = permits + 1
    <2>1. Holders' = Holders \ {t} /\ t \in Holders
      BY <1>2, <1>4 DEF Holders
    <2>2. Cardinality(Holders') = Cardinality(Holders) - 1
      BY <2>1, <1>1, FS_RemoveElement
    <2>. QED BY <2>2, <1>1, <1>4 DEF PermitInv
  <1>5. CASE pc[t] \notin Holding /\ s \in Holding /\ permits > 0 /\ permits' = permits - 1
    <2>1. Holders' = Holders \cup {t} /\ t \notin Holders
      BY <1>2, <1>5 DEF Holders
    <2>2. Cardinality(Holders') = Cardinality(Holders) + 1
      BY <2>1, <1>1, FS_AddElement
    <2>. QED BY <2>2, <1>1, <1>5 DEF PermitInv
  <1>. QED BY <1>3, <1>4, <1>5 DEF Move

\* Every action of a task is such a move: errors, refusals and cancellations
\* return exactly what the task holds.
LEMMA TaskMoves ==
    ASSUME Typed, LockInv, NEW t \in Tasks, TaskNext(t)
    PROVE  \E s : Move(t, s)
  <1>. USE DEF Move, Locked, Holding, InHeaders
  <1>0. NoTask \notin Tasks /\ (pc[t] \in Locked <=> start = t)
    BY GateAssumption DEF LockInv
  <1>a. ASSUME pc[t] \in Locked, ReleaseBoth(t) PROVE Move(t, "idle")
    BY <1>0, <1>a DEF ReleaseBoth, ReleasePermit, End
  <1>b. ASSUME pc[t] \in {"lock", "body", "challenged"}, ReleasePermit(t), UNCHANGED start
        PROVE  Move(t, "idle")
    BY <1>0, <1>b DEF ReleasePermit, End
  <1>1. ASSUME NEW d \in Delays, Request(t, d) PROVE Move(t, "permit")
    BY <1>0, <1>1 DEF Request
  <1>2. CASE AcquirePermit(t)
    BY Zenon, <1>0, <1>2 DEF AcquirePermit
  <1>3. CASE LockStart(t)
    BY <1>0, <1>3 DEF LockStart, ReleasePermit, End
  <1>4. CASE Admit(t)
    BY Zenon, <1>0, <1>4 DEF Admit
  <1>5. CASE TurnAway(t)
    BY <1>a, <1>5 DEF TurnAway
  <1>6. CASE RecordStart(t)
    <2>1. pc[t] = "admitted"
      BY <1>6 DEF RecordStart
    <2>2. CASE ReleaseBoth(t)
      BY <2>1, <2>2, <1>a
    <2>3. CASE ~ReleaseBoth(t)
      <3>1. pc' = [pc EXCEPT ![t] = "sending"] /\ UNCHANGED <<permits, start>>
        BY <2>3, <1>6 DEF RecordStart
      <3>. QED BY Zenon, <3>1, <2>1, <1>0
    <2>. QED BY <2>2, <2>3
  <1>7. CASE Arrive(t)
    BY Zenon, <1>0, <1>7 DEF Arrive
  <1>8. CASE Abandon(t)
    BY <1>a, <1>8 DEF Abandon, DropPermit
  <1>9. ASSUME NEW a \in Answers, Respond(t, a) PROVE \E s : Move(t, s)
    BY <1>0, <1>9 DEF Respond, DropPermit, ReleaseBoth, ReleasePermit, End
  <1>10. CASE OpenBody(t)
    BY <1>0, <1>10 DEF OpenBody, DropPermit, ReleaseBoth, ReleasePermit, End
  <1>11. CASE CloseBody(t)
    BY <1>0, <1>11 DEF CloseBody, End
  <1>12. CASE FindChallenge(t)
    BY <1>0, <1>12 DEF FindChallenge, ReleasePermit, End
  <1>13. CASE CloseChallenged(t)
    BY <1>b, <1>13 DEF CloseChallenged
  <1>14. CASE NotModified(t)
    BY <1>0, <1>14 DEF NotModified, End
  <1>15. CASE Cancel(t)
    BY <1>0, <1>15 DEF Cancel, ReleaseBoth, ReleasePermit, End
  <1>. QED
    BY Zenon, <1>1, <1>2, <1>3, <1>4, <1>5, <1>6, <1>7, <1>8, <1>9, <1>10, <1>11, <1>12, <1>13,
       <1>14, <1>15 DEF TaskNext

\* The mutex and the permits are safe initially, in every step and after a
\* restart.
Guarded == LockInv /\ PermitInv

\* All permits are free and the mutex is unlocked.
LEMMA InitGuarded == Init => Guarded
  <1>. SUFFICES ASSUME Init PROVE Guarded
    OBVIOUS
  <1>1. LockInv
    BY GateAssumption DEF Init, LockInv, Locked, InHeaders
  <1>2. Holders = {}
    BY DEF Init, Holders, Holding, InHeaders
  <1>. QED
    BY <1>1, <1>2, FS_EmptySet, GateAssumption DEF Init, Guarded, PermitInv

\* Every task step moves one task; the clocks move none and a restart all.
LEMMA NextGuarded == Typed /\ Guarded /\ [Next]_vars => Guarded'
  <1>. SUFFICES ASSUME Typed, Guarded, [Next]_vars PROVE Guarded'
    OBVIOUS
  <1>1. ASSUME NEW t \in Tasks, TaskNext(t) PROVE Guarded'
    BY <1>1, TaskMoves, MoveLock, MovePermit DEF Typed, Guarded
  <1>2. ASSUME UNCHANGED tasks PROVE Guarded'
    BY <1>2 DEF tasks, Guarded, LockInv, PermitInv, Holders
  <1>3. CASE Restart
    <2>1. LockInv'
      BY <1>3, GateAssumption DEF Restart, LockInv, Locked, InHeaders
    <2>2. Holders' = {}
      BY <1>3 DEF Restart, Holders, Holding, InHeaders
    <2>. QED
      BY <2>1, <2>2, <1>3, FS_EmptySet, GateAssumption DEF Restart, Guarded, PermitInv
  <1>. QED
    BY <1>1, <1>2, <1>3 DEF Next, Tick, SetClock, vars

\* acquire_host and HostPermit type-check, and no path through them returns a
\* permit it did not take: there are never more free permits than the configured
\* max_concurrent_per_host.
THEOREM TypeCorrect == Spec => []TypeOK
  <1>1. Typed /\ Guarded => TypeOK
    <2>. SUFFICES ASSUME Typed, Guarded PROVE permits <= Permits
      BY DEF TypeOK
    <2>1. Cardinality(Holders) \in Nat
      BY GateAssumption, FS_Subset, FS_CardinalityType DEF Holders
    <2>. QED
      BY <2>1, GateAssumption DEF Guarded, PermitInv
  <1>. QED
    BY <1>1, InitTyped, NextTyped, InitGuarded, NextGuarded, PTL DEF Spec

\* Between admission and the recorded headers a request holds the start mutex, so
\* no other request of the host can replace its DNS pin.
THEOREM PinIsExclusive == Spec => []PinExclusive
  <1>1. Guarded => PinExclusive
    BY DEF Guarded, LockInv, Locked, PinExclusive
  <1>. QED
    BY <1>1, InitTyped, NextTyped, InitGuarded, NextGuarded, PTL DEF Spec

\* Every open connection holds one of the permits.
THEOREM ConnectionsCapped == Spec => []ConnectionCap
  <1>1. Typed /\ Guarded => ConnectionCap
    <2>. SUFFICES ASSUME Typed, Guarded PROVE ConnectionCap
      OBVIOUS
    <2>. DEFINE C == {t \in Tasks : pc[t] \in Connected}
    <2>1. IsFiniteSet(Holders) /\ C \subseteq Holders
      BY GateAssumption, FS_Subset DEF Holders, Connected, Holding, InHeaders
    <2>2. Cardinality(C) <= Cardinality(Holders)
      BY <2>1, FS_Subset
    <2>3. Cardinality(C) \in Nat /\ Cardinality(Holders) \in Nat
      BY <2>1, FS_Subset, FS_CardinalityType
    <2>. QED
      BY <2>2, <2>3, GateAssumption DEF Guarded, PermitInv, ConnectionCap
  <1>. QED
    BY <1>1, InitTyped, NextTyped, InitGuarded, NextGuarded, PTL DEF Spec

=============================================================================
