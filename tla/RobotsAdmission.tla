--------------------------- MODULE RobotsAdmission ---------------------------
(***************************************************************************)
(* How a content request of one host gets from RequestBuilder::send to the *)
(* wire: the robots.txt cache of its origin (crawler/robots_txt.rs), the   *)
(* host's gate, and the revalidation between them (robot_client.rs).       *)
(*                                                                         *)
(* Time is left out: a cached answer may expire at any moment and a wait   *)
(* may take any time.  What is kept is who holds which lock while waiting  *)
(* for which other: the origin's cache mutex is held across the robots.txt *)
(* fetch, and the permit and start mutex of the gate across the            *)
(* revalidation.                                                           *)
(***************************************************************************)
EXTENDS Naturals, FiniteSets

CONSTANTS
    Tasks,          \* concurrent fetches of the host, one URL each
    NoTask,         \* "nobody holds it"
    Origins,        \* origins (scheme and port) of the host
    OriginOf,       \* OriginOf[t]: the origin of t's URL
    Permits,        \* politeness.max_concurrent_per_host
    Budget,         \* politeness.retry_budget
    MaxHops,        \* robots.txt redirects followed (10)
    MaxExpiries     \* bound on cache expiries

ASSUME RobotsAssumption ==
    /\ IsFiniteSet(Tasks) /\ NoTask \notin Tasks
    /\ OriginOf \in [Tasks -> Origins]
    /\ Permits \in Nat \ {0}
    /\ Budget \in Nat /\ MaxHops \in Nat \ {0} /\ MaxExpiries \in Nat

VARIABLES
    pc,         \* pc[t]: what t awaits or does
    tries,      \* tries[t]: passes of the retry loop left after this one
    hops,       \* hops[t]: robots.txt redirects followed in this refresh
    reply,      \* reply[t]: what the robots.txt t is reading allows
    snap,       \* snap[t]: generation of the snapshot t decided on
    cache,      \* cache[o]: generation (0: none), freshness, URLs allowed
    locker,     \* locker[o]: holder of the origin's cache mutex
    permits,    \* free permits of the host's semaphore
    start,      \* holder of the host's start mutex
    expiries,   \* cache expiries so far
    served      \* ghost: served[o]: what the host's latest robots.txt allows

gate == <<permits, start>>
vars == <<pc, tries, hops, reply, snap, cache, locker, permits, start, expiries, served>>

Goto(t, stage) == pc' = [pc EXCEPT ![t] = stage]

-----------------------------------------------------------------------------
(* RequestBuilder::send and ensure_robots *)

Begin(t) ==
    /\ pc[t] = "idle"
    /\ tries' = [tries EXCEPT ![t] = Budget]
    /\ Goto(t, "lookup")
    /\ UNCHANGED <<hops, reply, snap, cache, locker, gate, expiries, served>>

\* With the cache mutex in hand: keep the snapshot's generation, then queue for
\* the host if it allows the URL and end if not.
Decide(t, entry) ==
    /\ snap' = [snap EXCEPT ![t] = entry.gen]
    /\ Goto(t, IF t \in entry.allowed THEN "permit" ELSE "idle")

\* snapshot_traced with a fresh entry: the mutex is taken and released without
\* waiting for anything in between.
ReadCached(t) ==
    LET o == OriginOf[t]
    IN  /\ pc[t] = "lookup"
        /\ locker[o] = NoTask
        /\ cache[o].fresh
        /\ Decide(t, cache[o])
        /\ UNCHANGED <<tries, hops, reply, cache, locker, gate, expiries, served>>

\* Mutant: the mutex is not held across the refresh.
StartRefreshUnlocked(t) ==
    LET o == OriginOf[t]
    IN  /\ pc[t] = "lookup"
        /\ locker[o] = NoTask
        /\ ~cache[o].fresh
        /\ hops' = [hops EXCEPT ![t] = 0]
        /\ Goto(t, "robots permit")
        /\ UNCHANGED <<tries, reply, snap, cache, locker, gate, expiries, served>>

\* snapshot_traced with no entry or an expired one: the mutex stays held.
StartRefresh(t) ==
    LET o == OriginOf[t]
    IN  /\ pc[t] = "lookup"
        /\ locker[o] = NoTask
        /\ ~cache[o].fresh
        /\ locker' = [locker EXCEPT ![o] = t]
        /\ hops' = [hops EXCEPT ![t] = 0]
        /\ Goto(t, "robots permit")
        /\ UNCHANGED <<tries, reply, snap, cache, gate, expiries, served>>

-----------------------------------------------------------------------------
(* RobotsTxtManager::refresh *)

RobotsPermit(t) ==
    /\ pc[t] = "robots permit"
    /\ permits > 0
    /\ permits' = permits - 1
    /\ Goto(t, "robots start")
    /\ UNCHANGED <<tries, hops, reply, snap, cache, locker, start, expiries, served>>

RobotsStart(t) ==
    /\ pc[t] = "robots start"
    /\ start = NoTask
    /\ start' = t
    /\ Goto(t, "robots sent")
    /\ UNCHANGED <<tries, hops, reply, snap, cache, locker, permits, expiries, served>>

\* Headers of the robots.txt response: the start mutex is released, the permit
\* is kept for the body.  A redirect says nothing yet.
RobotsHeaders(t) ==
    /\ pc[t] = "robots sent"
    /\ start' = NoTask
    /\ \/ \E allowed \in SUBSET Tasks :
             /\ reply' = [reply EXCEPT ![t] = allowed]
             /\ served' = [served EXCEPT ![OriginOf[t]] = allowed]
             /\ Goto(t, "robots body")
       \/ Goto(t, "robots redirect") /\ UNCHANGED <<reply, served>>
    /\ UNCHANGED <<tries, hops, snap, cache, locker, permits, expiries>>

\* The result of the refresh enters the cache, the mutex is released and the
\* caller decides.
CacheResult(t, allowed) ==
    LET o     == OriginOf[t]
        entry == [gen |-> cache[o].gen + 1, fresh |-> TRUE, allowed |-> allowed]
    IN  /\ cache' = [cache EXCEPT ![o] = entry]
        /\ locker' = [locker EXCEPT ![o] = NoTask]
        /\ Decide(t, entry)

RobotsBody(t) ==
    /\ pc[t] = "robots body"
    /\ permits' = permits + 1
    /\ CacheResult(t, reply[t])
    /\ UNCHANGED <<tries, hops, reply, start, expiries, served>>

\* A redirect starts over at the next target; a loop or the eleventh hop leaves
\* the origin unreachable.
RobotsRedirect(t) ==
    /\ pc[t] = "robots redirect"
    /\ permits' = permits + 1
    /\ \/ /\ hops[t] + 1 < MaxHops
          /\ hops' = [hops EXCEPT ![t] = @ + 1]
          /\ Goto(t, "robots permit")
          /\ UNCHANGED <<snap, cache, locker>>
       \/ CacheResult(t, {}) /\ UNCHANGED hops
    /\ UNCHANGED <<tries, reply, start, expiries, served>>

InRefresh == {"robots permit", "robots start", "robots sent", "robots body", "robots redirect"}

\* Holding a permit, and holding the start mutex.
Holding == {"robots start", "robots sent", "robots body", "robots redirect",
            "start", "revalidate", "send", "sent", "body"}
Starting == {"robots sent", "revalidate", "send", "sent"}

\* Dropping a HostPermit, a semaphore permit or nothing, by what t holds.
DropGate(t) ==
    /\ permits' = IF pc[t] \in Holding THEN permits + 1 ELSE permits
    /\ start' = IF pc[t] \in Starting THEN NoTask ELSE start

\* DNS, a blocked host, a transport or a body error: nothing is allowed until the
\* next refresh.
RobotsUnreachable(t) ==
    /\ pc[t] \in InRefresh
    /\ DropGate(t)
    /\ CacheResult(t, {})
    /\ UNCHANGED <<tries, hops, reply, expiries, served>>

\* A registry that cannot write, or an exclusion: refresh returns the error, the
\* cache keeps what it had and the mutex is released.
RobotsError(t) ==
    /\ pc[t] \in InRefresh
    /\ DropGate(t)
    /\ locker' = [locker EXCEPT ![OriginOf[t]] = NoTask]
    /\ Goto(t, "idle")
    /\ UNCHANGED <<tries, hops, reply, snap, cache, expiries, served>>

-----------------------------------------------------------------------------
(* acquire_host, revalidation and Transport::send *)

AcquirePermit(t) ==
    /\ pc[t] = "permit"
    /\ permits > 0
    /\ permits' = permits - 1
    /\ Goto(t, "start")
    /\ UNCHANGED <<tries, hops, reply, snap, cache, locker, start, expiries, served>>

\* The start mutex, the gap and the persisted start; acquire_host returns.
AcquireStart(t) ==
    /\ pc[t] = "start"
    /\ start = NoTask
    /\ start' = t
    /\ Goto(t, "revalidate")
    /\ UNCHANGED <<tries, hops, reply, snap, cache, locker, permits, expiries, served>>

\* Mutant: the snapshot is trusted after the wait.
RevalidateNothing(t) ==
    /\ pc[t] = "revalidate"
    /\ Goto(t, "send")
    /\ UNCHANGED <<tries, hops, reply, snap, cache, locker, gate, expiries, served>>

\* Mutant: a stale snapshot gives the permit back but not the start mutex.
RevalidateKeepingStart(t) ==
    LET o == OriginOf[t]
    IN  /\ pc[t] = "revalidate"
        /\ locker[o] = NoTask
        /\ \/ cache[o].fresh /\ cache[o].gen = snap[t] /\ Goto(t, "send") /\ UNCHANGED permits
           \/ /\ ~(cache[o].fresh /\ cache[o].gen = snap[t])
              /\ permits' = permits + 1
              /\ Goto(t, "idle")
        /\ UNCHANGED <<tries, hops, reply, snap, cache, locker, start, expiries, served>>

\* revalidate_snapshot_before_send: the same answer must still be fresh, else the
\* permit is dropped and the loop starts over while it has passes left.
Revalidate(t) ==
    LET o == OriginOf[t]
    IN  /\ pc[t] = "revalidate"
        /\ locker[o] = NoTask
        /\ \/ /\ cache[o].fresh /\ cache[o].gen = snap[t]
              /\ Goto(t, "send")
              /\ UNCHANGED <<tries, gate>>
           \/ /\ ~(cache[o].fresh /\ cache[o].gen = snap[t])
              /\ DropGate(t)
              /\ Goto(t, IF tries[t] = 0 THEN "idle" ELSE "lookup")
              /\ tries' = [tries EXCEPT ![t] = IF @ = 0 THEN 0 ELSE @ - 1]
        /\ UNCHANGED <<hops, reply, snap, cache, locker, expiries, served>>

\* The request reaches the host.
Arrive(t) ==
    /\ pc[t] = "send"
    /\ Goto(t, "sent")
    /\ UNCHANGED <<tries, hops, reply, snap, cache, locker, gate, expiries, served>>

Headers(t) ==
    /\ pc[t] = "sent"
    /\ start' = NoTask
    /\ Goto(t, "body")
    /\ UNCHANGED <<tries, hops, reply, snap, cache, locker, permits, expiries, served>>

ReadBody(t) ==
    /\ pc[t] = "body"
    /\ permits' = permits + 1
    /\ Goto(t, "idle")
    /\ UNCHANGED <<tries, hops, reply, snap, cache, locker, start, expiries, served>>

\* send() returns early: DNS, a blocked host, a transport or registry error.
GiveUp(t) ==
    /\ pc[t] \in {"permit", "start", "send", "sent"}
    /\ DropGate(t)
    /\ Goto(t, "idle")
    /\ UNCHANGED <<tries, hops, reply, snap, cache, locker, expiries, served>>

\* The run is cancelled: process_admitted drops the future wherever it waits.
Cancel(t) ==
    /\ pc[t] # "idle"
    /\ DropGate(t)
    /\ locker' = [o \in Origins |-> IF locker[o] = t THEN NoTask ELSE locker[o]]
    /\ Goto(t, "idle")
    /\ UNCHANGED <<tries, hops, reply, snap, cache, expiries, served>>

\* Cached::expired turns true.
Expire(o) ==
    /\ cache[o].fresh
    /\ expiries < MaxExpiries
    /\ expiries' = expiries + 1
    /\ cache' = [cache EXCEPT ![o].fresh = FALSE]
    /\ UNCHANGED <<pc, tries, hops, reply, snap, locker, gate, served>>

Init ==
    /\ pc = [t \in Tasks |-> "idle"]
    /\ tries = [t \in Tasks |-> 0]
    /\ hops = [t \in Tasks |-> 0]
    /\ reply = [t \in Tasks |-> {}]
    /\ snap = [t \in Tasks |-> 0]
    /\ cache = [o \in Origins |-> [gen |-> 0, fresh |-> FALSE, allowed |-> {}]]
    /\ locker = [o \in Origins |-> NoTask]
    /\ permits = Permits
    /\ start = NoTask
    /\ expiries = 0
    /\ served = [o \in Origins |-> {}]

\* Steps that wait for nobody, and steps that wait for a lock.
Own(t) ==
    \/ RobotsHeaders(t) \/ RobotsBody(t) \/ RobotsRedirect(t)
    \/ Arrive(t) \/ Headers(t) \/ ReadBody(t)
Acquire(t) ==
    \/ ReadCached(t) \/ StartRefresh(t) \/ RobotsPermit(t) \/ RobotsStart(t)
    \/ AcquirePermit(t) \/ AcquireStart(t) \/ Revalidate(t)

TaskNext(t) ==
    \/ Begin(t) \/ Acquire(t) \/ Own(t)
    \/ RobotsUnreachable(t) \/ RobotsError(t) \/ GiveUp(t) \/ Cancel(t)

Next == (\E t \in Tasks : TaskNext(t)) \/ (\E o \in Origins : Expire(o))

Spec == Init /\ [][Next]_vars

\* A task runs on when nothing holds it up, the host or the client's timeout ends
\* every exchange, and tokio's semaphore and mutexes serve their queues in order.
\* Nobody has to start a fetch, cancel one, fail or let an answer expire.
Fairness == \A t \in Tasks : WF_vars(Own(t)) /\ SF_vars(Acquire(t))

FairSpec == Spec /\ Fairness

-----------------------------------------------------------------------------
(* Properties *)

\* README.md: the crawler "reads `robots.txt` before any URL on an origin".  When a
\* request reaches the host, the latest robots.txt the host served for that
\* origin, even one that arrived while the request was queued, allows its URL.
NewestRobotsObeyed ==
    [][\A t \in Tasks : Arrive(t) => t \in served[OriginOf[t]]]_vars

\* robots_txt.rs: "concurrent misses perform only one refresh".  At any time at
\* most one task per origin is fetching robots.txt.
SingleFlight ==
    \A t, u \in Tasks :
        pc[t] \in InRefresh /\ pc[u] \in InRefresh /\ OriginOf[t] = OriginOf[u] => t = u

Locks == INSTANCE GateLocks WITH held <- {t \in Tasks : pc[t] \in Holding}, owner <- start

\* Through retries, redirects, errors and cancellations a fetch uses the gate of
\* its host as acquire_host and HostPermit prescribe.
UsesGate == Locks!Spec

\* worker.rs: every admitted input "completes exactly one row": a fetch that was
\* begun ends.
FetchesEnd == \A t \in Tasks : (pc[t] # "idle") ~> (pc[t] = "idle")

=============================================================================
