------------------------- MODULE HostGateDeadlines --------------------------
(***************************************************************************)
(* What the deadlines of a HostGate promise the host, for every gap, delay *)
(* block, backoff table, clock step and number of tasks: the gap between   *)
(* arrivals, and the silence after a refusal or a rate limit.              *)
(***************************************************************************)
EXTENDS HostGateProofs

-----------------------------------------------------------------------------
(* The gap between arrivals *)

\* The holder of the start mutex has a request at the host.
Flying == start # NoTask /\ pc[start] \in {"sent", "observed"}

\* The latest arrival is accounted for in the deadlines, and by whoever has
\* already read them.
Settled ==
    /\ timing.headers # -1 /\ timing.headers + boot >= seen.at
    /\ timing.next + boot > seen.at + seen.gap
    /\ start # NoTask /\ pc[start] = "waiting" =>
          wake[start] + boot > seen.at + MaxOf(seen.gap, gap[start])
    /\ start # NoTask /\ pc[start] \in {"admitted", "sending"} =>
          now > seen.at + MaxOf(seen.gap, gap[start])

GapInv ==
    /\ start # NoTask => timing.ready = TRUE
    /\ seen.run = run =>
         /\ boot <= seen.at /\ timing.ready = TRUE
         /\ Flying => seen.gap = gap[start]
         /\ ~Flying => Settled

\* A step of a task that does not hold the mutex leaves the holder alone.
LEMMA GapOthers ==
    ASSUME TasksTyped, ClocksTyped, GhostsTyped, GapInv, timing \in Timings, timing' \in Timings,
           UNCHANGED <<start, clocks, seen>>,
           start # NoTask => /\ pc'[start] = pc[start]
                             /\ gap'[start] = gap[start]
                             /\ wake'[start] = wake[start],
           timing.ready = TRUE => timing'.ready = TRUE /\ timing'.next >= timing.next,
           timing'.headers = timing.headers
    PROVE  GapInv'
  <1>1. Flying' = Flying
    BY DEF Flying
  <1>2. (start # NoTask => timing.ready = TRUE)'
    BY DEF GapInv
  <1>3. ASSUME Settled, timing.ready = TRUE PROVE Settled'
    <2>1. timing'.next + boot > seen.at + seen.gap
      BY <1>3 DEF Settled, Timings, ClocksTyped, GhostsTyped, Marks
    <2>. QED
      BY <1>3, <2>1 DEF Settled, clocks
  <1>. QED
    BY Zenon, <1>1, <1>2, <1>3 DEF GapInv, clocks, Flying

\* Releasing the mutex is safe once the deadlines account for the arrival.
LEMMA GapReleased ==
    ASSUME TasksTyped, ClocksTyped, GhostsTyped, timing' \in Timings,
           UNCHANGED <<clocks, seen>>, start' = NoTask,
           seen.run = run => /\ boot <= seen.at /\ timing'.ready = TRUE
                             /\ timing'.headers # -1 /\ timing'.headers + boot >= seen.at
                             /\ timing'.next + boot > seen.at + seen.gap
    PROVE  GapInv'
  BY DEF GapInv, Flying, Settled, clocks

\* Dropping a HostPermit before the headers counts as headers received now.
LEMMA GapDropped ==
    ASSUME Typed, GapInv, NEW t \in Tasks, start = t, DropPermit(t), UNCHANGED <<clocks, seen>>
    PROVE  GapInv'
  <1>0. /\ TasksTyped /\ ClocksTyped /\ GhostsTyped /\ timing \in Timings /\ gap[t] \in Nat
        /\ start # NoTask
    BY GateAssumption DEF Typed, TasksTyped
  <1>1. /\ timing' \in Timings /\ timing'.headers = now - boot
        /\ timing'.next > now - boot + gap[t] /\ timing'.next >= timing.next
        /\ timing'.ready = timing.ready
    BY <1>0, HeadersType DEF DropPermit, Ticks
  <1>2. ASSUME seen.run = run
        PROVE  /\ boot <= seen.at /\ timing'.ready = TRUE
               /\ timing'.headers # -1 /\ timing'.headers + boot >= seen.at
               /\ timing'.next + boot > seen.at + seen.gap
    <2>1. boot <= seen.at /\ timing'.ready = TRUE /\ seen.at <= now
      BY <1>0, <1>1, <1>2 DEF GapInv, GhostsTyped
    <2>2. timing'.headers # -1 /\ timing'.headers + boot >= seen.at
      BY <1>0, <1>1, <2>1 DEF ClocksTyped, GhostsTyped, Marks
    <2>3. timing'.next + boot > seen.at + seen.gap
      <3>1. CASE Flying
        BY <3>1, <1>0, <1>1, <1>2, <2>1 DEF GapInv, ClocksTyped, GhostsTyped, Marks, Timings
      <3>2. CASE ~Flying
        BY <3>2, <1>0, <1>1, <1>2, <2>1
           DEF GapInv, Settled, ClocksTyped, GhostsTyped, Marks, Timings
      <3>. QED BY <3>1, <3>2
    <2>. QED BY <2>1, <2>2, <2>3
  <1>3. start' = NoTask
    BY DEF DropPermit, ReleaseBoth
  <1>. QED
    BY Zenon, <1>0, <1>1, <1>2, <1>3, GapReleased

\* No step lets a request start too soon after the latest arrival.
LEMMA NextGap == Typed /\ Typed' /\ Guarded /\ GapInv /\ [Next]_vars => GapInv'
  <1>. SUFFICES ASSUME Typed, Typed', Guarded, GapInv, [Next]_vars PROVE GapInv'
    OBVIOUS
  <1>0. /\ TasksTyped /\ ClocksTyped /\ GhostsTyped /\ timing \in Timings /\ timing' \in Timings
        /\ mem \in States /\ NoTask \notin Tasks
        /\ \A t \in Tasks : gap[t] \in Nat /\ wake[t] \in Nat
        /\ \A t \in Tasks : pc[t] \in Locked <=> start = t
    BY GateAssumption DEF Typed, TasksTyped, StoreTyped, Guarded, LockInv
  <1>a. ASSUME NEW t \in Tasks
        PROVE  LET tm == SyncDeadlines(timing, mem, gap[t])
               IN  /\ tm \in Timings /\ tm.ready = TRUE /\ tm.headers = timing.headers
                   /\ timing.ready = TRUE => tm.next >= timing.next
                   /\ timing.headers # -1 => tm.next > timing.headers + gap[t]
    BY Zenon, <1>0, SyncType
  <1>b. ASSUME UNCHANGED timing
        PROVE  /\ timing'.headers = timing.headers
               /\ timing.ready = TRUE => timing'.ready = TRUE /\ timing'.next >= timing.next
    <2>1. timing.next >= timing.next
      BY <1>0 DEF Timings
    <2>. QED BY <2>1, <1>b
  <1>1. ASSUME NEW t \in Tasks, NEW d \in Delays, Request(t, d) PROVE GapInv'
    <2>1. start # t
      BY <1>0, <1>1 DEF Request, Locked, InHeaders
    <2>2. \A u \in Tasks \ {t} : pc'[u] = pc[u] /\ gap'[u] = gap[u] /\ wake'[u] = wake[u]
      BY <1>0, <1>1 DEF Request, TasksTyped
    <2>3. UNCHANGED <<start, clocks, seen, timing>>
      BY <1>1 DEF Request, ghosts
    <2>. QED BY Zenon, <2>1, <2>2, <2>3, <1>0, <1>b, GapOthers DEF TasksTyped
  <1>2. ASSUME NEW t \in Tasks, AcquirePermit(t) PROVE GapInv'
    <2>1. start # t
      BY <1>0, <1>2 DEF AcquirePermit, Locked, InHeaders
    <2>2. \A u \in Tasks \ {t} : pc'[u] = pc[u] /\ gap'[u] = gap[u] /\ wake'[u] = wake[u]
      BY <1>0, <1>2 DEF AcquirePermit, TasksTyped
    <2>3. UNCHANGED <<start, clocks, seen, timing>>
      BY <1>2 DEF AcquirePermit, ghosts
    <2>. QED BY Zenon, <2>1, <2>2, <2>3, <1>0, <1>b, GapOthers DEF TasksTyped
  <1>3. ASSUME NEW t \in Tasks, LockStart(t) PROVE GapInv'
    <2>0. start = NoTask /\ ~Flying /\ UNCHANGED <<clocks, seen>>
      BY <1>3 DEF LockStart, Flying, ghosts
    <2>1. CASE UNCHANGED start
      <3>1. /\ timing'.headers = timing.headers
            /\ timing.ready = TRUE => timing'.ready = TRUE /\ timing'.next >= timing.next
        BY Zenon, <1>a, <1>b, <1>3 DEF LockStart
      <3>. QED BY Zenon, <3>1, <2>0, <2>1, <1>0, GapOthers
    <2>2. CASE ~UNCHANGED start
      <3>1. /\ timing' = SyncDeadlines(timing, mem, gap[t])
            /\ start' = t /\ pc'[t] = "waiting" /\ wake'[t] = timing'.next /\ gap'[t] = gap[t]
        BY <2>2, <1>0, <1>3 DEF LockStart, TasksTyped
      <3>2. /\ timing'.ready = TRUE /\ timing'.headers = timing.headers
            /\ timing.ready = TRUE => timing'.next >= timing.next
            /\ timing.headers # -1 => timing'.next > timing.headers + gap[t]
        BY Zenon, <3>1, <1>a
      <3>3. ~Flying'
        BY <3>1 DEF Flying
      <3>4. ASSUME seen.run = run PROVE Settled'
        <4>1. Settled /\ timing.ready = TRUE
          BY <2>0, <3>4 DEF GapInv
        <4>2. /\ timing'.next + boot > seen.at + seen.gap
              /\ timing'.next + boot > seen.at + gap[t]
          BY <4>1, <3>2, <1>0 DEF Settled, Timings, ClocksTyped, GhostsTyped, Marks
        <4>3. wake'[t] + boot > seen.at + MaxOf(seen.gap, gap[t])
          BY <4>2, <3>1 DEF MaxOf
        <4>. QED
          BY <4>1, <4>2, <4>3, <3>1, <3>2, <2>0 DEF Settled, clocks
      <3>. QED BY <3>2, <3>3, <3>4, <2>0 DEF GapInv, clocks
    <2>. QED BY <2>1, <2>2
  <1>4. ASSUME NEW t \in Tasks, Admit(t) PROVE GapInv'
    <2>0. /\ start = t /\ start' = t /\ pc[t] = "waiting" /\ pc'[t] = "admitted"
          /\ gap'[t] = gap[t] /\ UNCHANGED <<clocks, seen>> /\ Ticks >= wake[t]
      BY <1>0, <1>4 DEF Admit, ghosts, Locked, TasksTyped
    <2>1. ~Flying /\ ~Flying'
      BY <2>0 DEF Flying
    <2>2. /\ timing'.headers = timing.headers /\ timing'.ready = TRUE
          /\ timing'.next = Ticks + gap[t]
      BY Zenon, <1>a, <1>4 DEF Admit, Timings
    <2>3. ASSUME seen.run = run PROVE Settled'
      <3>1. Settled
        BY <2>1, <2>3 DEF GapInv
      <3>2. wake[t] + boot > seen.at + MaxOf(seen.gap, gap[t])
        BY <3>1, <2>0, <1>0 DEF Settled
      <3>3. now > seen.at + MaxOf(seen.gap, gap[t]) /\ MaxOf(seen.gap, gap[t]) >= seen.gap
        BY <3>2, <2>0, <1>0 DEF Ticks, ClocksTyped, GhostsTyped, Marks, MaxOf
      <3>4. timing'.next + boot > seen.at + seen.gap
        BY <3>3, <2>2, <1>0 DEF Ticks, ClocksTyped, GhostsTyped, Marks, MaxOf
      <3>. QED BY <3>1, <3>3, <3>4, <2>0, <2>2 DEF Settled, clocks
    <2>. QED BY <2>0, <2>1, <2>2, <2>3, <1>0 DEF GapInv, clocks
  <1>5. ASSUME NEW t \in Tasks, TurnAway(t) PROVE GapInv'
    <2>0. /\ start = t /\ start' = NoTask /\ pc[t] = "waiting" /\ UNCHANGED <<clocks, seen>>
      BY <1>0, <1>5 DEF TurnAway, ReleaseBoth, ghosts, Locked
    <2>1. ~Flying
      BY <2>0 DEF Flying
    <2>2. /\ timing'.headers = timing.headers
          /\ timing.ready = TRUE => timing'.ready = TRUE /\ timing'.next >= timing.next
      BY Zenon, <1>a, <1>b, <1>5 DEF TurnAway
    <2>3. ASSUME seen.run = run
          PROVE  /\ boot <= seen.at /\ timing'.ready = TRUE
                 /\ timing'.headers # -1 /\ timing'.headers + boot >= seen.at
                 /\ timing'.next + boot > seen.at + seen.gap
      BY <2>1, <2>2, <2>3, <1>0
         DEF GapInv, Settled, Timings, ClocksTyped, GhostsTyped, Marks
    <2>. QED BY Zenon, <2>0, <2>3, <1>0, GapReleased
  <1>6. ASSUME NEW t \in Tasks, RecordStart(t) PROVE GapInv'
    <2>0. /\ start = t /\ pc[t] = "admitted" /\ UNCHANGED <<clocks, seen, timing>>
      BY <1>0, <1>6 DEF RecordStart, Locked, InHeaders
    <2>1. ~Flying
      BY <2>0 DEF Flying
    <2>2. CASE ReleaseBoth(t)
      <3>1. seen.run = run => /\ boot <= seen.at /\ timing'.ready = TRUE
                 /\ timing'.headers # -1 /\ timing'.headers + boot >= seen.at
                 /\ timing'.next + boot > seen.at + seen.gap
        BY <2>0, <2>1 DEF GapInv, Settled
      <3>2. start' = NoTask
        BY <2>2 DEF ReleaseBoth
      <3>. QED BY Zenon, <3>1, <3>2, <2>0, <1>0, GapReleased
    <2>3. CASE ~ReleaseBoth(t)
      <3>1. pc'[t] = "sending" /\ UNCHANGED <<start, gap, wake>>
        BY <2>3, <1>0, <1>6 DEF RecordStart, TasksTyped
      <3>. QED BY <3>1, <2>0, <2>1 DEF GapInv, Settled, Flying, clocks
    <2>. QED BY <2>2, <2>3
  <1>7. ASSUME NEW t \in Tasks, Arrive(t) PROVE GapInv'
    <2>0. /\ start = t /\ start' = t /\ pc'[t] = "sent" /\ UNCHANGED <<clocks, timing>>
          /\ gap'[t] = gap[t] /\ seen'.at = now /\ seen'.gap = gap[t]
      BY <1>0, <1>7 DEF Arrive, Locked, InHeaders, TasksTyped
    <2>1. Flying'
      BY <2>0, <1>0 DEF Flying
    <2>2. boot <= now /\ timing.ready = TRUE
      BY <2>0, <1>0 DEF GapInv, ClocksTyped
    <2>. QED BY <2>0, <2>1, <2>2 DEF GapInv, clocks
  <1>8. ASSUME NEW t \in Tasks, Abandon(t) PROVE GapInv'
    <2>1. start = t
      BY <1>0, <1>8 DEF Abandon, Locked, InHeaders
    <2>. QED BY <2>1, <1>8, GapDropped DEF Abandon, ghosts
  <1>9. ASSUME NEW t \in Tasks, NEW a \in Answers, Respond(t, a) PROVE GapInv'
    <2>1. start = t /\ pc[t] = "sent" /\ UNCHANGED <<clocks, seen>>
      BY <1>0, <1>9 DEF Respond, Locked, InHeaders, ghosts
    <2>2. CASE DropPermit(t)
      BY <2>1, <2>2, GapDropped
    <2>3. CASE ~DropPermit(t)
      <3>1. pc'[t] = "observed" /\ UNCHANGED <<gap, wake, start, timing>>
        BY <2>3, <1>0, <1>9 DEF Respond, TasksTyped
      <3>2. Flying /\ Flying'
        BY <3>1, <2>1, <1>0 DEF Flying
      <3>. QED BY <3>1, <3>2, <2>1 DEF GapInv, clocks
    <2>. QED BY <2>2, <2>3
  <1>10. ASSUME NEW t \in Tasks, OpenBody(t) PROVE GapInv'
    <2>1. start = t /\ pc[t] = "observed" /\ UNCHANGED <<clocks, seen>>
      BY <1>0, <1>10 DEF OpenBody, Locked, InHeaders, ghosts, Acknowledge
    <2>2. CASE DropPermit(t)
      BY <2>1, <2>2, GapDropped
    <2>3. CASE ~DropPermit(t)
      <3>. DEFINE tm == SyncDeadlines(timing, mem, gap[t])
      <3>1. timing' = HeadersReceived(tm, gap[t]) /\ start' = NoTask
        BY <2>3, <1>10 DEF OpenBody
      <3>2. tm \in Timings /\ tm.ready = TRUE
        BY Zenon, <1>a
      <3>3. /\ timing'.headers = now - boot /\ timing'.next > now - boot + gap[t]
            /\ timing'.ready = TRUE
        <4>. HIDE DEF tm
        <4>. QED BY <3>1, <3>2, <1>0, HeadersType DEF Ticks
      <3>4. ASSUME seen.run = run
            PROVE  /\ boot <= seen.at /\ timing'.ready = TRUE
                   /\ timing'.headers # -1 /\ timing'.headers + boot >= seen.at
                   /\ timing'.next + boot > seen.at + seen.gap
        <4>1. boot <= seen.at /\ seen.gap = gap[t] /\ seen.at <= now
          BY <3>4, <2>1, <1>0 DEF GapInv, Flying, GhostsTyped
        <4>. QED BY <4>1, <3>3, <1>0 DEF ClocksTyped, GhostsTyped, Marks, Timings
      <3>. QED BY Zenon, <3>1, <3>4, <2>1, <1>0, GapReleased
    <2>. QED BY <2>2, <2>3
  <1>11. ASSUME NEW t \in Tasks, CloseBody(t) PROVE GapInv'
    <2>1. start # t /\ UNCHANGED <<clocks, seen, timing, start>>
      BY <1>0, <1>11 DEF CloseBody, Locked, InHeaders, ghosts
    <2>2. \A u \in Tasks \ {t} : pc'[u] = pc[u] /\ gap'[u] = gap[u] /\ wake'[u] = wake[u]
      BY <1>0, <1>11 DEF CloseBody, End, TasksTyped
    <2>. QED BY Zenon, <2>1, <2>2, <1>0, <1>b, GapOthers DEF TasksTyped
  <1>12. ASSUME NEW t \in Tasks, FindChallenge(t) PROVE GapInv'
    <2>1. start # t /\ UNCHANGED <<clocks, seen, timing, start>>
      BY <1>0, <1>12 DEF FindChallenge, Locked, InHeaders, ghosts
    <2>2. \A u \in Tasks \ {t} : pc'[u] = pc[u] /\ gap'[u] = gap[u] /\ wake'[u] = wake[u]
      BY <1>0, <1>12 DEF FindChallenge, ReleasePermit, End, TasksTyped
    <2>. QED BY Zenon, <2>1, <2>2, <1>0, <1>b, GapOthers DEF TasksTyped
  <1>13. ASSUME NEW t \in Tasks, CloseChallenged(t) PROVE GapInv'
    <2>1. start # t /\ UNCHANGED <<clocks, seen, start>>
      BY <1>0, <1>13 DEF CloseChallenged, Locked, InHeaders, ghosts, Acknowledge
    <2>2. \A u \in Tasks \ {t} : pc'[u] = pc[u] /\ gap'[u] = gap[u] /\ wake'[u] = wake[u]
      BY <1>0, <1>13 DEF CloseChallenged, ReleasePermit, End, TasksTyped
    <2>3. /\ timing'.headers = timing.headers
          /\ timing.ready = TRUE => timing'.ready = TRUE /\ timing'.next >= timing.next
      BY Zenon, <1>a, <1>b, <1>13 DEF CloseChallenged
    <2>. QED BY Zenon, <2>1, <2>2, <2>3, <1>0, GapOthers DEF TasksTyped
  <1>14. ASSUME NEW t \in Tasks, NotModified(t) PROVE GapInv'
    <2>1. start # t /\ UNCHANGED <<clocks, seen, timing, start>>
      BY <1>0, <1>14 DEF NotModified, Locked, InHeaders
    <2>2. \A u \in Tasks \ {t} : pc'[u] = pc[u] /\ gap'[u] = gap[u] /\ wake'[u] = wake[u]
      BY <1>0, <1>14 DEF NotModified, End, TasksTyped
    <2>. QED BY Zenon, <2>1, <2>2, <1>0, <1>b, GapOthers DEF TasksTyped
  <1>15. ASSUME NEW t \in Tasks, Cancel(t) PROVE GapInv'
    <2>0. UNCHANGED <<clocks, seen, timing>>
      BY <1>15 DEF Cancel, ghosts
    <2>1. CASE start # t
      <3>1. UNCHANGED start
        BY <2>1, <1>0, <1>15 DEF Cancel, Locked
      <3>2. \A u \in Tasks \ {t} : pc'[u] = pc[u] /\ gap'[u] = gap[u] /\ wake'[u] = wake[u]
        BY <1>0, <1>15 DEF Cancel, ReleaseBoth, ReleasePermit, End, TasksTyped
      <3>. QED BY Zenon, <3>1, <3>2, <2>0, <2>1, <1>0, <1>b, GapOthers DEF TasksTyped
    <2>2. CASE start = t
      <3>1. pc[t] = "waiting" /\ start' = NoTask
        BY <2>2, <1>0, <1>15 DEF Cancel, ReleaseBoth, Locked, InHeaders
      <3>2. ~Flying
        BY <3>1, <2>2 DEF Flying
      <3>3. seen.run = run => /\ boot <= seen.at /\ timing'.ready = TRUE
                 /\ timing'.headers # -1 /\ timing'.headers + boot >= seen.at
                 /\ timing'.next + boot > seen.at + seen.gap
        BY <3>2, <2>0 DEF GapInv, Settled
      <3>. QED BY Zenon, <3>1, <3>3, <2>0, <1>0, GapReleased
    <2>. QED BY <2>1, <2>2
  <1>16. CASE Tick
    <2>1. now' = now + 1 /\ UNCHANGED <<boot, run, pc, gap, wake, start, timing, seen>>
      BY <1>16 DEF Tick, tasks, ghosts
    <2>2. Settled => Settled'
      <3>1. \A n : now > n /\ n \in Nat => now' > n
        BY <2>1, <1>0 DEF ClocksTyped
      <3>2. \A g \in Nat : seen.at + MaxOf(seen.gap, g) \in Nat
        BY <1>0 DEF GhostsTyped, Marks, MaxOf
      <3>3. start # NoTask => gap[start] \in Nat
        BY <1>0 DEF TasksTyped
      <3>. QED BY <2>1, <3>1, <3>2, <3>3 DEF Settled
    <2>3. Flying' = Flying
      BY <2>1 DEF Flying
    <2>. QED BY <2>1, <2>2, <2>3 DEF GapInv
  <1>17. CASE SetClock
    BY <1>17 DEF SetClock, GapInv, Settled, Flying, tasks, ghosts
  <1>18. CASE Restart
    <2>1. seen'.run # run' /\ start' = NoTask
      BY <1>0, <1>18 DEF Restart, GhostsTyped, ClocksTyped, Marks
    <2>. QED BY <2>1 DEF GapInv
  <1>19. CASE UNCHANGED vars
    BY <1>19 DEF vars, tasks, clocks, ghosts, GapInv, Settled, Flying
  <1>. QED
    BY <1>1, <1>2, <1>3, <1>4, <1>5, <1>6, <1>7, <1>8, <1>9, <1>10, <1>11, <1>12, <1>13,
       <1>14, <1>15, <1>16, <1>17, <1>18, <1>19
    DEF Next, TaskNext

\* Nothing has arrived yet.
LEMMA InitGap == Init => GapInv
  BY DEF Init, GapInv

\* A well-formed gate whose latest arrival is accounted for.
LEMMA GapAlways == Spec => [](Typed /\ Guarded /\ GapInv)
  BY InitTyped, NextTyped, InitGuarded, NextGuarded, InitGap, NextGap, PTL DEF Spec

\* acquire_host and headers_received keep successive arrivals at the host more
\* than the larger of their gaps apart, for any latency, cancellation or clock
\* step.
THEOREM ArrivalsApart == Spec => ArrivalGap
  <1>1. Typed /\ Guarded /\ GapInv /\ [Next]_vars =>
          [\A t \in Tasks :
              Arrive(t) /\ seen.run = run => now > seen.at + MaxOf(seen.gap, gap[t])]_vars
    <2>. SUFFICES ASSUME Typed, Guarded, GapInv, NEW t \in Tasks, Arrive(t), seen.run = run
                  PROVE  now > seen.at + MaxOf(seen.gap, gap[t])
      OBVIOUS
    <2>1. start = t /\ start # NoTask /\ pc[t] = "sending"
      BY GateAssumption DEF Arrive, Guarded, LockInv, Locked, InHeaders
    <2>. QED BY <2>1 DEF GapInv, Flying, Settled
  <1>. QED
    BY <1>1, GapAlways, PTL DEF Spec, ArrivalGap

=============================================================================
