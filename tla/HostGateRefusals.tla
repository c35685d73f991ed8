-------------------------- MODULE HostGateRefusals --------------------------
(***************************************************************************)
(* What a refusal or a rate limit promises the host, for every block,      *)
(* backoff table, clock step and number of tasks: no request is admitted   *)
(* before it has run out.                                                  *)
(***************************************************************************)
EXTENDS HostGateProofs

\* A wall-clock deadline of the record reaches as far as true time `until`.
Covers(deadline, until) == until = 0 \/ (deadline > 0 /\ deadline + now >= until + utc)

Longest(state) == MaxOf(state.blocked, state.retry)

\* sync_deadlines never loses a deadline the record covers, and never moves the
\* monotonic block back.
LEMMA SyncCovers ==
    ASSUME NEW tm \in Timings, NEW state \in States, NEW g \in Nat, NEW until \in Nat,
           ClocksTyped, Covers(Longest(state), until)
    PROVE  SyncDeadlines(tm, state, g).blocked + boot >= until
  <1>. DEFINE b == IF Longest(state) = 0 THEN tm.blocked
                   ELSE MaxOf(tm.blocked, Ticks + Remaining(Longest(state)))
  <1>1. SyncDeadlines(tm, state, g).blocked = b
    BY DEF SyncDeadlines, Longest
  <1>2. Longest(state) \in Nat
    BY DEF Longest, MaxOf, States
  <1>3. b + boot >= until
    BY <1>2 DEF Covers, MaxOf, Remaining, Ticks, ClocksTyped, Timings
  <1>. QED BY <1>1, <1>3

\* A deadline that grows keeps covering what it covered.
LEMMA CoversMore ==
    ASSUME ClocksTyped, NEW d \in Nat, NEW e \in Nat, NEW until \in Nat, Covers(d, until), e >= d
    PROVE  Covers(e, until)
  BY DEF Covers, ClocksTyped

\* The stages in which an answer has been recorded but does not bind yet.
Heard == {"observed", "challenged"}

RefusalInv ==
    /\ refused.run = run => timing.blocked + boot >= refused.until
    /\ \A t \in Tasks : pc[t] \in Heard =>
          /\ Covers(mem.blocked, answer[t].refusal)
          /\ Covers(disk.blocked, answer[t].refusal)
    /\ Steps = {} =>
          /\ Covers(mem.blocked, refused.until)
          /\ Covers(disk.blocked, refused.until)

-----------------------------------------------------------------------------

\* The record moves only to states that block at least as long as memory does.
Growing ==
    \E state \in States :
        state.blocked >= mem.blocked /\ mem' \in {mem, state} /\ disk' \in {disk, state}

\* No update of the registry shortens a block: not a later answer, not a reset,
\* not a write that failed halfway.
LEMMA UpdateGrows ==
    ASSUME StoreTyped, NEW state \in States, state.blocked >= mem.blocked,
           UpdateAcknowledged(state) \/ UpdateFails(state) \/ UpdateRefused
    PROVE  Growing
  BY DEF UpdateAcknowledged, UpdateFails, UpdateRefused, store, Growing

\* What a step of a task has to do to keep the refusals.
LEMMA RefusalStep ==
    ASSUME Typed, Typed', RefusalInv, UNCHANGED clocks, Growing,
           timing'.blocked >= timing.blocked,
           \A u \in Tasks : pc'[u] \in Heard =>
              \/ pc[u] \in Heard /\ answer'[u].refusal = answer[u].refusal
              \/ /\ Covers(mem'.blocked, answer'[u].refusal)
                 /\ Covers(disk'.blocked, answer'[u].refusal),
           \/ refused' = refused
           \/ /\ timing'.blocked + boot >= refused'.until
              /\ Covers(mem'.blocked, refused'.until)
              /\ Covers(disk'.blocked, refused'.until)
    PROVE  RefusalInv'
  <1>0. /\ ClocksTyped /\ mem.blocked \in Nat /\ disk.blocked \in Nat /\ timing.blocked \in Nat
        /\ mem'.blocked \in Nat /\ disk'.blocked \in Nat /\ timing'.blocked \in Nat
        /\ refused.until \in Nat /\ \A u \in Tasks : answer[u].refusal \in Nat
    BY DEF Typed, StoreTyped, States, Timings, GhostsTyped, TasksTyped, Meanings
  <1>1. ASSUME NEW until \in Nat, Covers(mem.blocked, until), Covers(disk.blocked, until)
        PROVE  Covers(mem'.blocked, until) /\ Covers(disk'.blocked, until)
    <2>1. PICK state \in States :
             state.blocked >= mem.blocked /\ mem' \in {mem, state} /\ disk' \in {disk, state}
      BY DEF Growing
    <2>2. state.blocked \in Nat
      BY DEF States
    <2>3. Covers(state.blocked, until)
      BY <2>1, <2>2, <1>0, <1>1, CoversMore
    <2>. QED BY <2>1, <2>3, <1>1
  <1>3. (refused.run = run => timing.blocked + boot >= refused.until)'
    BY <1>0 DEF RefusalInv, clocks, ClocksTyped
  <1>4. \A u \in Tasks : pc'[u] \in Heard =>
           Covers(mem'.blocked, answer'[u].refusal) /\ Covers(disk'.blocked, answer'[u].refusal)
    BY <1>0, <1>1 DEF RefusalInv
  <1>5. Steps = {} => Covers(mem'.blocked, refused'.until) /\ Covers(disk'.blocked, refused'.until)
    BY <1>0, <1>1 DEF RefusalInv
  <1>. QED
    BY <1>3, <1>4, <1>5 DEF RefusalInv, Covers, clocks

\* A task that is not about to be heard leaves what was heard alone.
Quiet(t) ==
    \A u \in Tasks : /\ u = t => pc'[u] \notin Heard
                     /\ u # t => pc'[u] = pc[u] /\ answer'[u].refusal = answer[u].refusal

\* Ending a fetch is quiet.
LEMMA EndQuiet == ASSUME TasksTyped, NEW t \in Tasks, End(t) PROVE Quiet(t)
  BY DEF End, Quiet, TasksTyped, Heard

\* No step forgets a refusal.
LEMMA NextRefusal == Typed /\ Typed' /\ RefusalInv /\ [Next]_vars => RefusalInv'
  <1>. SUFFICES ASSUME Typed, Typed', RefusalInv, [Next]_vars PROVE RefusalInv'
    OBVIOUS
  <1>0. /\ TasksTyped /\ StoreTyped /\ ClocksTyped /\ GhostsTyped
        /\ timing \in Timings /\ timing' \in Timings /\ mem \in States /\ disk \in States
        /\ timing.blocked \in Nat /\ mem.blocked \in Nat
        /\ \A t \in Tasks : gap[t] \in Nat
        /\ \A t \in Tasks : answer[t].refusal \in Nat
    BY DEF Typed, TasksTyped, StoreTyped, States, Timings, Meanings
  <1>a. UNCHANGED store => Growing
    BY <1>0 DEF store, Growing
  <1>b. /\ UNCHANGED timing => timing'.blocked >= timing.blocked
        /\ \A t \in Tasks : timing' = SyncDeadlines(timing, mem, gap[t]) =>
              timing'.blocked >= timing.blocked
        /\ \A t \in Tasks : timing' = HeadersReceived(timing, gap[t]) =>
              timing'.blocked >= timing.blocked
    <2>1. timing.blocked >= timing.blocked
      BY <1>0
    <2>2. \A t \in Tasks : SyncDeadlines(timing, mem, gap[t]).blocked >= timing.blocked
      BY Zenon, <1>0, SyncType
    <2>3. \A t \in Tasks : HeadersReceived(timing, gap[t]).blocked = timing.blocked
      BY <1>0, HeadersType
    <2>. QED BY <2>1, <2>2, <2>3
  <1>c. ASSUME NEW t \in Tasks, UNCHANGED clocks, Growing, timing'.blocked >= timing.blocked,
               Quiet(t), refused' = refused
        PROVE  RefusalInv'
    BY <1>0, <1>c, RefusalStep DEF Quiet
  <1>d. ASSUME NEW t \in Tasks, DropPermit(t)
        PROVE  timing'.blocked >= timing.blocked /\ Quiet(t)
    BY <1>0, <1>b, <1>d, EndQuiet DEF DropPermit, ReleaseBoth, ReleasePermit
  \* The part of an acknowledgement both OpenBody and CloseChallenged share.
  <1>e. ASSUME NEW t \in Tasks, pc[t] \in Heard, Acknowledge(t), UNCHANGED <<clocks, store>>,
               Quiet(t), timing'.blocked >= timing.blocked,
               timing'.blocked = SyncDeadlines(timing, mem, gap[t]).blocked
        PROVE  RefusalInv'
    <2>1. Covers(mem.blocked, answer[t].refusal) /\ Covers(disk.blocked, answer[t].refusal)
      BY <1>e DEF RefusalInv
    <2>2. Covers(Longest(mem), answer[t].refusal)
      <3>1. Longest(mem) \in Nat /\ Longest(mem) >= mem.blocked
        BY <1>0 DEF Longest, MaxOf, States
      <3>. QED BY <3>1, <2>1, <1>0, CoversMore
    <2>3. timing'.blocked + boot >= answer[t].refusal
      BY <2>2, <1>0, <1>e, SyncCovers
    <2>4. refused' = refused \/ refused'.until = answer[t].refusal
      BY <1>e DEF Acknowledge
    <2>5. \/ refused' = refused
          \/ /\ timing'.blocked + boot >= refused'.until
             /\ Covers(mem'.blocked, refused'.until)
             /\ Covers(disk'.blocked, refused'.until)
      BY <2>1, <2>3, <2>4, <1>e DEF store
    <2>. QED BY <2>5, <1>a, <1>e, RefusalStep DEF Quiet
  <1>1. ASSUME NEW t \in Tasks, NEW d \in Delays, Request(t, d) PROVE RefusalInv'
    <2>1. Quiet(t)
      BY <1>0, <1>1 DEF Request, Quiet, TasksTyped, Heard
    <2>. QED BY <2>1, <1>a, <1>b, <1>c, <1>1 DEF Request, ghosts
  <1>2. ASSUME NEW t \in Tasks, AcquirePermit(t) PROVE RefusalInv'
    <2>1. Quiet(t)
      BY <1>0, <1>2 DEF AcquirePermit, Quiet, TasksTyped, Heard
    <2>. QED BY <2>1, <1>a, <1>b, <1>c, <1>2 DEF AcquirePermit, ghosts
  <1>3. ASSUME NEW t \in Tasks, LockStart(t) PROVE RefusalInv'
    <2>1. timing'.blocked >= timing.blocked
      BY <1>b, <1>3 DEF LockStart
    <2>2. Quiet(t)
      <3>1. CASE End(t)
        BY <3>1, <1>0, EndQuiet
      <3>2. CASE ~End(t)
        BY <3>2, <1>0, <1>3 DEF LockStart, ReleasePermit, Quiet, TasksTyped, Heard
      <3>. QED BY <3>1, <3>2
    <2>. QED BY <2>1, <2>2, <1>a, <1>c, <1>3 DEF LockStart, ghosts
  <1>4. ASSUME NEW t \in Tasks, Admit(t) PROVE RefusalInv'
    <2>1. timing'.blocked >= timing.blocked
      <3>1. SyncDeadlines(timing, mem, gap[t]) \in Timings
        BY Zenon, <1>0, SyncType
      <3>2. timing'.blocked = SyncDeadlines(timing, mem, gap[t]).blocked
        BY <3>1, <1>4 DEF Admit, Timings
      <3>. QED BY Zenon, <3>2, <1>0, SyncType
    <2>2. Quiet(t)
      BY <1>0, <1>4 DEF Admit, Quiet, TasksTyped, Heard
    <2>. QED BY <2>1, <2>2, <1>a, <1>c, <1>4 DEF Admit, ghosts
  <1>5. ASSUME NEW t \in Tasks, TurnAway(t) PROVE RefusalInv'
    <2>1. timing'.blocked >= timing.blocked /\ Quiet(t)
      BY <1>0, <1>b, <1>5, EndQuiet DEF TurnAway, ReleaseBoth, ReleasePermit
    <2>. QED BY <2>1, <1>a, <1>c, <1>5 DEF TurnAway, ghosts
  <1>6. ASSUME NEW t \in Tasks, RecordStart(t) PROVE RefusalInv'
    <2>. DEFINE state == [mem EXCEPT !.last = utc]
    <2>1. state \in States /\ state.blocked >= mem.blocked
      BY <1>0 DEF States, ClocksTyped
    <2>2. Growing
      BY Zenon, <2>1, <1>0, <1>6, UpdateGrows DEF RecordStart
    <2>3. Quiet(t)
      <3>1. CASE ReleaseBoth(t)
        BY <3>1, <1>0, EndQuiet DEF ReleaseBoth, ReleasePermit
      <3>2. CASE ~ReleaseBoth(t)
        BY <3>2, <1>0, <1>6 DEF RecordStart, Quiet, TasksTyped, Heard
      <3>. QED BY <3>1, <3>2
    <2>. QED BY <2>2, <2>3, <1>b, <1>c, <1>6 DEF RecordStart
  <1>7. ASSUME NEW t \in Tasks, Arrive(t) PROVE RefusalInv'
    <2>1. Quiet(t)
      BY <1>0, <1>7 DEF Arrive, Quiet, TasksTyped, Heard
    <2>. QED BY <2>1, <1>a, <1>b, <1>c, <1>7 DEF Arrive
  <1>8. ASSUME NEW t \in Tasks, Abandon(t) PROVE RefusalInv'
    BY <1>a, <1>c, <1>d, <1>8 DEF Abandon, ghosts
  <1>f. ASSUME NEW a \in [status : Statuses, challenge : BOOLEAN, after : Nat]
        PROVE  /\ Observed(mem, a) \in States /\ Observed(mem, a).blocked >= mem.blocked
               /\ Covers(Observed(mem, a).blocked, Meaning(mem, a).refusal)
    <2>1. /\ Observed(mem, a) \in States /\ Observed(mem, a).blocked >= mem.blocked
          /\ Refusal(a) => Observed(mem, a).blocked >= utc + Block
      BY <1>0, ObservedType DEF ClocksTyped
    <2>2. Meaning(mem, a).refusal = IF Refusal(a) THEN now + Block ELSE 0
      BY DEF Meaning
    <2>3. Observed(mem, a).blocked \in Nat /\ Block \in Nat
      BY <2>1, GateAssumption DEF States
    <2>. QED BY <2>1, <2>2, <2>3, <1>0 DEF Covers, ClocksTyped
  <1>9. ASSUME NEW t \in Tasks, NEW a \in Answers, Respond(t, a) PROVE RefusalInv'
    <2>1. a \in [status : Statuses, challenge : BOOLEAN, after : Nat]
      BY GateAssumption
    <2>2. Growing
      BY <2>1, <1>0, <1>f, <1>9, UpdateGrows DEF Respond
    <2>3. CASE DropPermit(t)
      BY <2>2, <2>3, <1>c, <1>d, <1>9 DEF Respond, ghosts
    <2>4. CASE ~DropPermit(t)
      <3>1. /\ mem' = Observed(mem, a) /\ disk' = Observed(mem, a) /\ timing' = timing
            /\ answer'[t] = Meaning(mem, a) /\ refused' = refused /\ UNCHANGED clocks
            /\ \A u \in Tasks \ {t} : pc'[u] = pc[u] /\ answer'[u] = answer[u]
        BY <2>4, <1>0, <1>9 DEF Respond, UpdateAcknowledged, TasksTyped, ghosts
      <3>. QED BY <3>1, <2>1, <2>2, <1>b, <1>f, RefusalStep
    <2>. QED BY <2>3, <2>4
  <1>10. ASSUME NEW t \in Tasks, OpenBody(t) PROVE RefusalInv'
    <2>1. CASE DropPermit(t) /\ UNCHANGED ghosts
      BY <2>1, <1>a, <1>c, <1>d, <1>10 DEF OpenBody, ghosts
    <2>2. CASE ~(DropPermit(t) /\ UNCHANGED ghosts)
      <3>1. timing' = HeadersReceived(SyncDeadlines(timing, mem, gap[t]), gap[t])
        BY <2>2, <1>10 DEF OpenBody
      <3>2. /\ timing'.blocked = SyncDeadlines(timing, mem, gap[t]).blocked
            /\ timing'.blocked >= timing.blocked
        <4>. DEFINE tm == SyncDeadlines(timing, mem, gap[t])
        <4>1. tm \in Timings /\ tm.blocked >= timing.blocked
          BY Zenon, <1>0, SyncType
        <4>2. HeadersReceived(tm, gap[t]).blocked = tm.blocked
          <5>. HIDE DEF tm
          <5>. QED BY Zenon, <4>1, <1>0, HeadersType
        <4>. QED BY <4>1, <4>2, <3>1
      <3>3. Quiet(t)
        BY <2>2, <1>0, <1>10 DEF OpenBody, Quiet, TasksTyped, Heard
      <3>4. pc[t] \in Heard /\ Acknowledge(t) /\ UNCHANGED <<clocks, store>>
        BY <2>2, <1>10 DEF OpenBody, Heard
      <3>. QED BY <3>2, <3>3, <3>4, <1>e
    <2>. QED BY <2>1, <2>2
  <1>11. ASSUME NEW t \in Tasks, CloseBody(t) PROVE RefusalInv'
    <2>1. Quiet(t)
      <3>1. CASE End(t)
        BY <3>1, <1>0, EndQuiet
      <3>2. CASE ~End(t)
        BY <3>2, <1>0, <1>11 DEF CloseBody, Quiet, TasksTyped, Heard
      <3>. QED BY <3>1, <3>2
    <2>. QED BY <2>1, <1>a, <1>b, <1>c, <1>11 DEF CloseBody, ghosts
  <1>12. ASSUME NEW t \in Tasks, FindChallenge(t) PROVE RefusalInv'
    <2>1. BodyChallenge \in [status : Statuses, challenge : BOOLEAN, after : Nat]
      BY DEF BodyChallenge, Statuses
    <2>2. Growing
      BY <2>1, <1>0, <1>f, <1>12, UpdateGrows DEF FindChallenge
    <2>3. CASE ReleasePermit(t)
      <3>1. Quiet(t)
        BY <2>3, <1>0, EndQuiet DEF ReleasePermit
      <3>. QED BY <3>1, <2>2, <1>b, <1>c, <1>12 DEF FindChallenge, ghosts
    <2>4. CASE ~ReleasePermit(t)
      <3>1. /\ mem' = Observed(mem, BodyChallenge) /\ disk' = Observed(mem, BodyChallenge)
            /\ timing' = timing /\ refused' = refused /\ UNCHANGED clocks
            /\ answer'[t] = Meaning(mem, BodyChallenge)
            /\ \A u \in Tasks \ {t} : pc'[u] = pc[u] /\ answer'[u] = answer[u]
        BY <2>4, <1>0, <1>12 DEF FindChallenge, UpdateAcknowledged, TasksTyped, ghosts
      <3>. QED BY <3>1, <2>1, <2>2, <1>b, <1>f, RefusalStep
    <2>. QED BY <2>3, <2>4
  <1>13. ASSUME NEW t \in Tasks, CloseChallenged(t) PROVE RefusalInv'
    <2>1. Quiet(t) /\ pc[t] \in Heard /\ UNCHANGED <<clocks, store>>
      BY <1>0, <1>13, EndQuiet DEF CloseChallenged, ReleasePermit, Heard
    <2>2. CASE UNCHANGED <<timing, ghosts>>
      BY <2>1, <2>2, <1>a, <1>b, <1>c DEF ghosts
    <2>3. CASE ~UNCHANGED <<timing, ghosts>>
      BY <2>1, <2>3, <1>b, <1>e, <1>13 DEF CloseChallenged
    <2>. QED BY <2>2, <2>3
  <1>14. ASSUME NEW t \in Tasks, NotModified(t) PROVE RefusalInv'
    <2>1. Growing
      <3>1. RateReset(mem) \in States /\ RateReset(mem).blocked >= mem.blocked
        BY <1>0, ResetType
      <3>. QED BY <3>1, <1>0, <1>14, UpdateGrows DEF NotModified
    <2>2. Quiet(t)
      <3>1. CASE End(t)
        BY <3>1, <1>0, EndQuiet
      <3>2. CASE ~End(t)
        <4>1. \A u \in Tasks : [answer[u] EXCEPT !.reset = TRUE].refusal = answer[u].refusal
          BY <1>0 DEF TasksTyped, Meanings
        <4>. QED
          BY Zenon, <4>1, <3>2, <1>0, <1>14 DEF NotModified, Quiet, TasksTyped, Heard
      <3>. QED BY <3>1, <3>2
    <2>. QED BY <2>1, <2>2, <1>b, <1>c, <1>14 DEF NotModified
  <1>15. ASSUME NEW t \in Tasks, Cancel(t) PROVE RefusalInv'
    <2>1. Quiet(t)
      BY <1>0, <1>15, EndQuiet DEF Cancel, ReleaseBoth, ReleasePermit
    <2>. QED BY <2>1, <1>a, <1>b, <1>c, <1>15 DEF Cancel, ghosts
  <1>16. CASE Tick
    <2>1. /\ now' = now + 1 /\ utc' = utc + 1
          /\ UNCHANGED <<boot, run, pc, answer, timing, mem, disk, refused>>
      BY <1>16 DEF Tick, tasks, store, ghosts
    <2>2. \A d, until \in Nat : Covers(d, until) =>
             until = 0 \/ (d > 0 /\ d + now' >= until + utc')
      BY <2>1, <1>0 DEF Covers, ClocksTyped
    <2>3. disk.blocked \in Nat /\ refused.until \in Nat
      BY <1>0 DEF States, GhostsTyped
    <2>. QED BY <2>1, <2>2, <2>3, <1>0 DEF RefusalInv, Covers
  <1>17. CASE SetClock
    <2>1. /\ Steps # {} /\ \A t \in Tasks : pc'[t] \notin Heard
          /\ UNCHANGED <<boot, run, timing, refused>>
      BY <1>17 DEF SetClock, tasks, ghosts, Heard
    <2>. QED BY <2>1 DEF RefusalInv
  <1>18. CASE Restart
    <2>1. /\ refused'.run # run' /\ mem' = disk /\ UNCHANGED <<disk, now, utc, refused>>
          /\ \A t \in Tasks : pc'[t] \notin Heard
      BY <1>0, <1>18 DEF Restart, GhostsTyped, ClocksTyped, Heard
    <2>. QED BY <2>1 DEF RefusalInv, Covers
  <1>19. CASE UNCHANGED vars
    BY <1>19 DEF vars, tasks, store, clocks, ghosts, RefusalInv, Covers
  <1>. QED
    BY <1>1, <1>2, <1>3, <1>4, <1>5, <1>6, <1>7, <1>8, <1>9, <1>10, <1>11, <1>12, <1>13,
       <1>14, <1>15, <1>16, <1>17, <1>18, <1>19
    DEF Next, TaskNext

\* Nothing has been refused yet.
LEMMA InitRefusal == Init => RefusalInv
  BY DEF Init, RefusalInv, Covers, Heard

\* observe() makes a refusal last: once it has returned, no request is admitted
\* before the block ends: in this process whatever the wall clock is set to outside
\* observe(), and in later ones if it is not set.
THEOREM RefusalsKept == Spec => RefusalKept
  <1>1. Typed /\ RefusalInv /\ [Next]_vars =>
          [\A t \in Tasks : /\ Admit(t)
                            /\ refused.run = run \/ Steps = {}
                            => now >= refused.until]_vars
    <2>. SUFFICES ASSUME Typed, RefusalInv, NEW t \in Tasks, Admit(t),
                         refused.run = run \/ Steps = {}
                  PROVE  now >= refused.until
      OBVIOUS
    <2>. DEFINE tm == SyncDeadlines(timing, mem, gap[t])
    <2>1. /\ timing \in Timings /\ mem \in States /\ gap[t] \in Nat /\ ClocksTyped
          /\ refused.until \in Nat
      BY DEF Typed, TasksTyped, StoreTyped, GhostsTyped
    <2>2. tm.blocked \in Nat /\ tm.blocked >= timing.blocked
      BY Zenon, <2>1, SyncType DEF Timings
    <2>3. tm.blocked + boot <= now
      <3>. HIDE DEF tm
      <3>1. ~Blocked(tm)
        BY DEF Admit, tm
      <3>. QED BY <3>1, <2>1, <2>2 DEF Blocked, Ticks, ClocksTyped
    <2>4. CASE refused.run = run
      <3>. HIDE DEF tm
      <3>. QED BY <2>1, <2>2, <2>3, <2>4 DEF RefusalInv, ClocksTyped, Timings
    <2>5. CASE Steps = {}
      <3>1. Covers(mem.blocked, refused.until)
        BY <2>5 DEF RefusalInv
      <3>2. Longest(mem) \in Nat /\ mem.blocked \in Nat /\ Longest(mem) >= mem.blocked
        BY <2>1 DEF Longest, MaxOf, States
      <3>3. tm.blocked + boot >= refused.until
        BY <3>1, <3>2, <2>1, CoversMore, SyncCovers
      <3>. HIDE DEF tm
      <3>. QED BY <3>3, <2>1, <2>2, <2>3 DEF ClocksTyped
    <2>. QED BY <2>4, <2>5
  <1>2. Spec => [](Typed /\ RefusalInv)
    BY InitTyped, NextTyped, InitRefusal, NextRefusal, PTL DEF Spec
  <1>. QED
    BY <1>1, <1>2, PTL DEF Spec, RefusalKept

=============================================================================
