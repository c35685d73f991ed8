----------------------------- MODULE AmpcProofs -----------------------------
(* Ampc never lets a mapper outlive its pass, for any number of workers,   *)
(* jobs, mappers, rounds and faults.                                       *)
EXTENDS Ampc, TLAPS

\* What a mapper thread works on is what its worker reports.
Reported ==
    \A w \in Workers : mapping[w] # NoJob => w \in up /\ current[w] = mapping[w]

\* A worker that was polled idle stays idle until the coordinator acts.
IdleStays ==
    \A w \in Workers : w \in DOMAIN snap /\ snap[w] = NoJob => current[w] = NoJob

\* A worker that answered Setup has the round's DHT, or none.
Handed ==
    /\ pc = "setup" => \A w \in told : dht[w] \in {0, round}
    /\ pc \in {"schedule", "await", "passed"} =>
           \A w \in Workers : dht[w] \in {0, round}

\* The part of the types the argument needs.
Shapes ==
    /\ DOMAIN current = Workers /\ DOMAIN mapping = Workers /\ DOMAIN dht = Workers
    /\ up \subseteq Workers

RoundInv == Shapes /\ Reported /\ IdleStays /\ Handed /\ MapsCurrentRound

(* The run starts with idle workers.                                       *)
LEMMA InitRound == Init => RoundInv
BY DEF Init, RoundInv, Shapes, Reported, IdleStays, Handed, MapsCurrentRound, Idle, Unpolled

(* Each handler and each fault keeps the invariant.                        *)
LEMMA RoundStep == RoundInv /\ [Next]_vars => RoundInv'
<1> SUFFICES ASSUME RoundInv, [Next]_vars PROVE RoundInv'
    OBVIOUS
<1> USE DEF RoundInv, Shapes, Reported, IdleStays, Handed, MapsCurrentRound
<1>1. CASE Finish \/ NextRound \/ StartAwait
    BY <1>1 DEF Finish, NextRound, StartAwait, workers
<1>2. CASE StartRound
    BY <1>2 DEF StartRound, workers
<1>3. ASSUME NEW w \in Workers, SendDht(w) PROVE RoundInv'
    BY <1>3 DEF SendDht
<1>4. ASSUME NEW w \in Workers, SendDhtFails(w) PROVE RoundInv'
    BY <1>4 DEF SendDhtFails, CallFails, workers
<1>5. CASE StartPass
    BY <1>5 DEF StartPass, workers
<1>6. ASSUME NEW w \in Workers, Poll(w) \/ PollFails(w) PROVE RoundInv'
  <2>1. PICK answer : Answered(w, answer) /\ (answer = NoJob => current[w] = NoJob)
      BY <1>6, AmpcAssumption DEF Poll, PollFails
  <2>2. IdleStays'
      BY <1>6, <2>1 DEF Answered, Poll, PollFails, workers
  <2> QED
      BY <1>6, <2>2 DEF Poll, PollFails, workers
<1>7. CASE Schedule
    BY <1>7 DEF Schedule, Accept, Unpolled, workers
<1>8. CASE ScheduleFails
    BY <1>8 DEF ScheduleFails, NotScheduled, CallFails, Unpolled, workers
<1>9. ASSUME NEW w \in Workers, Reschedule(w) PROVE RoundInv'
    BY <1>9 DEF Reschedule, Lost, Accept, Unpolled, workers
<1>10. ASSUME NEW w \in Workers, NoAvailableWorkers(w) PROVE RoundInv'
    BY <1>10 DEF NoAvailableWorkers, Lost, Unpolled, workers
<1>11. ASSUME NEW w \in Workers, RescheduleFails(w) PROVE RoundInv'
    BY <1>11 DEF RescheduleFails, NotScheduled, CallFails, Unpolled, workers
<1>12. CASE AwaitAgain
    BY <1>12 DEF AwaitAgain, Unpolled, workers
<1>13. CASE AwaitDone
    BY <1>13 DEF AwaitDone, Polled, Unpolled, workers
<1>14. ASSUME NEW w \in Workers, Mapped(w) PROVE RoundInv'
    BY <1>14 DEF Mapped, coordinator
<1>15. ASSUME NEW w \in Workers, Panic(w) PROVE RoundInv'
    BY <1>15 DEF Panic, coordinator
<1>16. ASSUME NEW w \in Workers, Die(w) PROVE RoundInv'
    BY <1>16 DEF Die, coordinator
<1>17. ASSUME NEW w \in Workers, Restart(w) PROVE RoundInv'
    BY <1>17 DEF Restart, coordinator
<1>18. CASE UNCHANGED vars
    BY <1>18 DEF vars, coordinator, workers
<1> QED
    BY <1>1, <1>2, <1>3, <1>4, <1>5, <1>6, <1>7, <1>8, <1>9, <1>10, <1>11, <1>12, <1>13,
       <1>14, <1>15, <1>16, <1>17, <1>18, Zenon
    DEF Next, Coordinate, Ended

(* No mapper outlives its pass or works on an older round's DHT, whatever  *)
(* calls Coordinator::run loses and whichever workers die or restart.      *)
THEOREM RoundsSeparate == Spec => []MapsCurrentRound
<1>1. RoundInv => MapsCurrentRound
    BY DEF RoundInv
<1> QED
    BY <1>1, InitRound, RoundStep, PTL DEF Spec

=============================================================================
