----------------------------- MODULE CrawlStore ------------------------------
(***************************************************************************)
(* The crawler's local store: the target journal and its projection        *)
(* (crawler/ledger.rs), the raw bodies and their manifests                 *)
(* (crawler/local_sink.rs) and their retention (crawler/retention.rs),     *)
(* under concurrent targets, failing writes and kills at any step.         *)
(*                                                                         *)
(* A target is one admission; its id is never used again.  `disk`, `lines`,*)
(* `torn`, `body` and `stray` survive a kill, the rest is memory.          *)
(* atomic_write either happens or not; a failed one may have happened, and *)
(* a killed one may leave its temporary file in manifests/ (`stray`).      *)
(***************************************************************************)
EXTENDS Naturals, FiniteSets

CONSTANTS
    Targets,        \* admissions, over all runs
    KeyOf,          \* KeyOf[t]: url_key of the target's URL
    NoTarget,
    Results,        \* what fetches come to, within {"saved", "unretained", "other"}
    MayExpire,      \* whether a body may reach its raw deadline
    KilledWriting,  \* whether a kill may fall inside atomic_write of a manifest
    MaxMishaps      \* bound on kills and failed writes together

ASSUME StoreAssumption ==
    /\ IsFiniteSet(Targets) /\ NoTarget \notin Targets
    /\ Results \subseteq {"saved", "unretained", "other"}
    /\ MayExpire \in BOOLEAN /\ KilledWriting \in BOOLEAN
    /\ MaxMishaps \in Nat

VARIABLES
    stage,      \* of the process
    pc,         \* pc[t]: of the task that handles t
    row,        \* row[t]: the outcome t is about to complete with
    journal,    \* LedgerState.journal: what it says of each target
    projected,  \* LedgerState.projected
    poisoned,   \* Ledger.failed
    io,         \* holder of LocalSink.io
    todo,       \* manifests the purge or sweep has still to visit
    cursor,     \* the manifest whose objects it is deleting
    backlog,    \* the sweep has counted a failure
    disk,       \* attempts.journal
    lines,      \* lines[t]: whole lines of t in ledger.jsonl
    torn,       \* ledger.jsonl holds a broken line
    body,       \* body[t]: manifest of t and its raw object
    stray,      \* a temporary file is left in manifests/
    due,        \* bodies past their raw deadline
    mishaps

ledger  == <<journal, projected, poisoned, disk, lines, torn>>
sink    == <<io, todo, cursor, backlog, body, stray, due>>
vars    == <<stage, pc, row, ledger, sink, mishaps>>

Goto(t, where) == pc' = [pc EXCEPT ![t] = where]

\* A write fails, or the process is killed.
Mishap == mishaps < MaxMishaps /\ mishaps' = mishaps + 1

-----------------------------------------------------------------------------
(* Ledger *)

Terminal == {"saved", "unretained", "other", "failed", "cancelled"}

Locked == \E t \in Targets : pc[t] = "project"

\* Ledger::persist of a changed journal.
Persist(changed) ==
    /\ journal' = changed
    /\ disk' = changed
    /\ UNCHANGED <<poisoned, mishaps>>

PersistFails(changed) ==
    /\ journal' = changed
    /\ disk' \in {disk, changed}
    /\ poisoned' = TRUE
    /\ Mishap

\* admit_ordinal and complete look at `failed` before they queue for the lock.
CheckLedger(t) ==
    /\ stage = "up"
    /\ \/ pc[t] = "new" /\ journal[t] = "none" /\ Goto(t, IF poisoned THEN "lost" ELSE "admit")
       \/ pc[t] = "row" /\ Goto(t, IF poisoned THEN "lost" ELSE "complete")
    /\ UNCHANGED <<stage, row, ledger, sink, mishaps>>

Admit(t) ==
    LET changed == [journal EXCEPT ![t] = "open"]
    IN  /\ pc[t] = "admit" /\ ~Locked
        /\ \/ Persist(changed) /\ Goto(t, "fetch")
           \/ PersistFails(changed) /\ Goto(t, "lost")
        /\ UNCHANGED <<stage, row, projected, lines, torn, sink>>

\* Mutant: the row is appended to the projection before it is in the journal.
CompleteUnjournaled(t) ==
    /\ pc[t] = "complete" /\ ~Locked
    /\ journal' = [journal EXCEPT ![t] = row[t]]
    /\ Goto(t, "project")
    /\ UNCHANGED <<stage, row, projected, poisoned, disk, lines, torn, sink, mishaps>>

\* complete: the row enters the journal, which is persisted ...
Complete(t) ==
    LET changed == [journal EXCEPT ![t] = row[t]]
    IN  /\ pc[t] = "complete" /\ ~Locked
        /\ \/ Persist(changed) /\ Goto(t, "project")
           \/ PersistFails(changed) /\ Goto(t, "lost")
        /\ UNCHANGED <<stage, row, projected, lines, torn, sink>>

\* ... and then, under the same lock, is appended to ledger.jsonl.
Project(t) ==
    LET appended == [lines EXCEPT ![t] = @ + 1]
    IN  /\ pc[t] = "project"
        /\ \/ /\ lines' = appended
              /\ projected' = projected \cup {t}
              /\ Goto(t, "done")
              /\ UNCHANGED <<poisoned, torn, mishaps>>
           \/ /\ Mishap
              /\ \/ lines' = appended /\ UNCHANGED torn
                 \/ torn' = TRUE /\ UNCHANGED lines
              /\ poisoned' = TRUE
              /\ Goto(t, "lost")
              /\ UNCHANGED projected
        /\ UNCHANGED <<stage, row, journal, disk, sink>>

-----------------------------------------------------------------------------
(* JobExecutor::run_target, as far as the store is concerned *)

Ready(t, outcome) == Goto(t, "row") /\ row' = [row EXCEPT ![t] = outcome]

Fetch(t, result) ==
    /\ pc[t] = "fetch"
    /\ \/ result = "saved" /\ Goto(t, "write") /\ UNCHANGED row
       \/ result = "unretained" /\ Goto(t, "purge") /\ UNCHANGED row
       \/ result = "other" /\ Ready(t, "other")
    /\ UNCHANGED <<stage, ledger, sink, mishaps>>

\* The run is cancelled while the target waits for the network.
CancelTarget(t) ==
    /\ pc[t] = "fetch"
    /\ Ready(t, "cancelled")
    /\ UNCHANGED <<stage, ledger, sink, mishaps>>

-----------------------------------------------------------------------------
(* LocalSink::write_durable *)

Manifests == {t \in Targets : body[t].state # "none"}

\* Steps of write_durable fail into SinkWriteFailed and give the mutex back.
WriteFails(t) ==
    /\ Mishap
    /\ Ready(t, "failed")
    /\ io' = NoTarget

\* Mutant: the staging file comes first.
WriteUnmanaged(t) ==
    /\ pc[t] = "write" /\ io = NoTarget
    /\ body' = [body EXCEPT ![t].file = "staging"]
    /\ io' = t /\ Goto(t, "publish")
    /\ UNCHANGED <<stage, row, ledger, todo, cursor, backlog, stray, due, mishaps>>

\* The pending manifest precedes the staging file.
WritePending(t) ==
    LET pending == [body EXCEPT ![t] = [state |-> "pending", kept |-> TRUE, file |-> "none"]]
    IN  /\ pc[t] = "write" /\ io = NoTarget
        /\ \/ body' = pending /\ io' = t /\ Goto(t, "stage") /\ UNCHANGED <<row, mishaps>>
           \/ body' \in {body, pending} /\ WriteFails(t)
        /\ UNCHANGED <<stage, ledger, todo, cursor, backlog, stray, due>>

WriteStaging(t) ==
    LET staged == [body EXCEPT ![t].file = "staging"]
    IN  /\ pc[t] = "stage"
        /\ \/ body' = staged /\ Goto(t, "publish") /\ UNCHANGED <<row, io, mishaps>>
           \/ body' \in {body, staged} /\ WriteFails(t)
        /\ UNCHANGED <<stage, ledger, todo, cursor, backlog, stray, due>>

\* Mutant: the sink acknowledges before the body has its final name.
PublishLate(t) ==
    /\ pc[t] = "publish"
    /\ body' = [body EXCEPT ![t].state = "retained"]
    /\ Ready(t, "saved")
    /\ io' = NoTarget
    /\ UNCHANGED <<stage, ledger, todo, cursor, backlog, stray, due, mishaps>>

Publish(t) ==
    LET published == [body EXCEPT ![t].file = "final"]
    IN  /\ pc[t] = "publish"
        /\ \/ body' = published /\ Goto(t, "seal") /\ UNCHANGED <<row, io, mishaps>>
           \/ body' \in {body, published} /\ WriteFails(t)
        /\ UNCHANGED <<stage, ledger, todo, cursor, backlog, stray, due>>

\* The retained manifest acknowledges the body.
Seal(t) ==
    LET sealed == [body EXCEPT ![t].state = "retained"]
    IN  /\ pc[t] = "seal"
        /\ \/ body' = sealed /\ Ready(t, "saved") /\ io' = NoTarget /\ UNCHANGED mishaps
           \/ body' \in {body, sealed} /\ WriteFails(t)
        /\ UNCHANGED <<stage, ledger, todo, cursor, backlog, stray, due>>

-----------------------------------------------------------------------------
(* delete_manifest_objects, LocalSink::purge and retention::run *)

\* Objects go first, the manifest says so afterwards.
RemoveObjects(t) == body' = [body EXCEPT ![t].file = "none"]

Deleted(t) == [body EXCEPT ![t].state = "deleted", ![t].kept = FALSE]

\* no-store, rights reserved, gone: every manifest of the URL, oldest or newest.
PurgeBegin(t) ==
    /\ pc[t] = "purge" /\ io = NoTarget
    /\ IF stray
       THEN Ready(t, "failed") /\ UNCHANGED <<io, todo>>
       ELSE /\ io' = t
            /\ todo' = {u \in Manifests : KeyOf[u] = KeyOf[t]}
            /\ Goto(t, "mark")
            /\ UNCHANGED row
    /\ UNCHANGED <<stage, ledger, cursor, backlog, body, stray, due, mishaps>>

PurgeFails(t) == WriteFails(t) /\ todo' = {} /\ cursor' = NoTarget

PurgeMark(t, u) ==
    LET marked == [body EXCEPT ![u].kept = FALSE]
    IN  /\ pc[t] = "mark" /\ u \in todo
        /\ \/ /\ body' = marked
              /\ cursor' = u /\ Goto(t, "remove")
              /\ UNCHANGED <<row, io, todo, mishaps>>
           \/ body' \in {body, marked} /\ PurgeFails(t)
        /\ UNCHANGED <<stage, ledger, backlog, stray, due>>

PurgeRemove(t) ==
    /\ pc[t] = "remove"
    /\ \/ RemoveObjects(cursor) /\ Goto(t, "acknowledge") /\ UNCHANGED <<row, io, todo, cursor, mishaps>>
       \/ UNCHANGED body /\ PurgeFails(t)
    /\ UNCHANGED <<stage, ledger, backlog, stray, due>>

PurgeAcknowledge(t) ==
    /\ pc[t] = "acknowledge"
    /\ \/ /\ body' = Deleted(cursor)
          /\ todo' = todo \ {cursor} /\ cursor' = NoTarget
          /\ Goto(t, "mark")
          /\ UNCHANGED <<row, io, mishaps>>
       \/ body' \in {body, Deleted(cursor)} /\ PurgeFails(t)
    /\ UNCHANGED <<stage, ledger, backlog, stray, due>>

PurgeEnd(t) ==
    /\ pc[t] = "mark" /\ todo = {}
    /\ io' = NoTarget
    /\ Ready(t, "unretained")
    /\ UNCHANGED <<stage, ledger, todo, cursor, backlog, body, stray, due, mishaps>>

\* A raw deadline passes.
Expire(t) ==
    /\ MayExpire /\ body[t].state # "none" /\ t \notin due
    /\ due' = due \cup {t}
    /\ UNCHANGED <<stage, pc, row, ledger, io, todo, cursor, backlog, body, stray, mishaps>>

IsDue(t) == t \in due \/ ~body[t].kept \/ body[t].state # "retained"

Sweeping == stage \in {"sweep", "closing"}

\* A manifest whose objects are gone or need not go.
SweepSkip(t) ==
    /\ Sweeping /\ cursor = NoTarget /\ t \in todo
    /\ \/ body[t].file # "none" /\ ~IsDue(t) /\ UNCHANGED backlog
       \/ body[t].file = "none" /\ body[t].state = "deleted" /\ UNCHANGED backlog
       \/ body[t].file = "none" /\ body[t].state = "retained" /\ backlog' = TRUE
    /\ todo' = todo \ {t}
    /\ UNCHANGED <<stage, pc, row, ledger, io, cursor, body, stray, due, mishaps>>

\* Mutant: a pending manifest without objects is left alone.
SweepPendingIgnored(t) ==
    /\ Sweeping /\ cursor = NoTarget /\ t \in todo
    /\ body[t].file = "none" /\ body[t].state = "pending"
    /\ todo' = todo \ {t}
    /\ UNCHANGED <<stage, pc, row, ledger, io, cursor, backlog, body, stray, due, mishaps>>

\* The manifest of an interrupted write that never got to its objects; a failed
\* write ends the sweep and with it the process.
SweepPending(t) ==
    LET forgotten == [body EXCEPT ![t].state = "deleted"]
    IN  /\ Sweeping /\ cursor = NoTarget /\ t \in todo
        /\ body[t].file = "none" /\ body[t].state = "pending"
        /\ \/ body' = forgotten /\ todo' = todo \ {t} /\ UNCHANGED <<stage, mishaps>>
           \/ body' \in {body, forgotten} /\ Mishap /\ todo' = {} /\ stage' = "down"
        /\ UNCHANGED <<pc, row, ledger, io, cursor, backlog, stray, due>>

SweepRemove(t) ==
    /\ Sweeping /\ cursor = NoTarget /\ t \in todo
    /\ body[t].file # "none" /\ IsDue(t)
    /\ \/ RemoveObjects(t) /\ cursor' = t /\ UNCHANGED <<todo, backlog, mishaps>>
       \/ Mishap /\ backlog' = TRUE /\ todo' = todo \ {t} /\ UNCHANGED <<body, cursor>>
    /\ UNCHANGED <<stage, pc, row, ledger, io, stray, due>>

SweepAcknowledge ==
    /\ Sweeping /\ cursor # NoTarget
    /\ \/ body' = Deleted(cursor) /\ UNCHANGED <<backlog, mishaps>>
       \/ body' \in {body, Deleted(cursor)} /\ Mishap /\ backlog' = TRUE
    /\ todo' = todo \ {cursor} /\ cursor' = NoTarget
    /\ UNCHANGED <<stage, pc, row, ledger, io, stray, due>>

\* ensure_success: no failure, no object without a manifest.  The closing sweep is
\* followed by an independent scan.
Clean ==
    /\ ~backlog
    /\ \A t \in Targets : body[t].file # "none" => t \in Manifests
    /\ stage = "closing" =>
          \A t \in Manifests : IF body[t].file = "none" THEN body[t].state # "retained" ELSE ~IsDue(t)

SweepEnd ==
    /\ Sweeping /\ cursor = NoTarget /\ todo = {}
    /\ stage' = IF ~Clean THEN "down" ELSE IF stage = "sweep" THEN "recover" ELSE "check"
    /\ UNCHANGED <<pc, row, ledger, sink, mishaps>>

-----------------------------------------------------------------------------
(* RobotClient::construct, Crawler::run and kills *)

\* What a process starts with.
FreshMemory ==
    /\ pc' = [t \in Targets |-> "new"]
    /\ row' = [t \in Targets |-> "none"]
    /\ journal' = disk
    /\ projected' = {}
    /\ poisoned' = FALSE
    /\ io' = NoTarget
    /\ cursor' = NoTarget
    /\ backlog' = FALSE

\* LocalSink::open lists the manifests, or refuses the store for a file that is
\* no manifest.
Open ==
    /\ stage = "down"
    /\ IF stray THEN stage' = "down" /\ todo' = {} ELSE stage' = "sweep" /\ todo' = Manifests
    /\ FreshMemory
    /\ UNCHANGED <<disk, lines, torn, body, stray, due, mishaps>>

\* Mutant: incomplete targets are left open.
RecoverNothing ==
    /\ stage = "recover"
    /\ stage' = "rebuild"
    /\ UNCHANGED <<pc, row, ledger, sink, mishaps>>

\* Mutant: what is not in the projection counts as incomplete.
RecoverUnprojected ==
    LET recovered == [t \in Targets |-> IF disk[t] # "none" /\ lines[t] = 0
                                        THEN "cancelled" ELSE disk[t]]
    IN  /\ stage = "recover"
        /\ journal' = recovered /\ disk' = recovered
        /\ stage' = "rebuild"
        /\ UNCHANGED <<pc, row, projected, poisoned, lines, torn, sink, mishaps>>

\* Ledger::open: incomplete targets of earlier runs become cancelled, durably ...
Recover ==
    LET recovered == [t \in Targets |-> IF disk[t] = "open" THEN "cancelled" ELSE disk[t]]
    IN  /\ stage = "recover"
        /\ journal' = recovered
        /\ \/ disk' = recovered /\ stage' = "rebuild" /\ UNCHANGED mishaps
           \/ disk' \in {disk, recovered} /\ Mishap /\ stage' = "down"
        /\ UNCHANGED <<pc, row, projected, poisoned, lines, torn, sink>>

\* ... and the projection is rewritten from the journal.
Rebuild ==
    LET rebuilt == [t \in Targets |-> IF journal[t] \in Terminal THEN 1 ELSE 0]
    IN  /\ stage = "rebuild"
        /\ \/ /\ lines' = rebuilt /\ torn' = FALSE
              /\ projected' = {t \in Targets : journal[t] \in Terminal}
              /\ stage' = "up"
              /\ UNCHANGED mishaps
           \/ /\ Mishap
              /\ UNCHANGED <<lines, torn>> \/ (lines' = rebuilt /\ torn' = FALSE)
              /\ stage' = "down"
              /\ UNCHANGED projected
        /\ UNCHANGED <<pc, row, journal, poisoned, disk, sink>>

\* Every task has ended well: LocalSink::finish, then Ledger::finish.
Close ==
    /\ stage = "up"
    /\ \A t \in Targets : pc[t] \in {"new", "done"}
    /\ stage' = IF stray THEN "down" ELSE "closing"
    /\ todo' = IF stray THEN {} ELSE Manifests
    /\ backlog' = FALSE
    /\ UNCHANGED <<pc, row, ledger, io, cursor, body, stray, due, mishaps>>

\* Ledger::finish: no target is pending, and the lines read back are the
\* projected targets, once each.
Finish ==
    /\ stage = "check"
    /\ stage' = IF /\ ~poisoned /\ ~torn
                   /\ \A t \in Targets : journal[t] # "none" => journal[t] \in Terminal /\ t \in projected
                   /\ \A t \in Targets : lines[t] = IF t \in projected THEN 1 ELSE 0
                THEN "complete" ELSE "down"
    /\ UNCHANGED <<pc, row, ledger, sink, mishaps>>

\* The process ends: after a complete run, or because a task returned an error
\* while the others wait for the network.
Exit ==
    /\ \/ stage = "complete"
       \/ /\ stage = "up"
          /\ \E t \in Targets : pc[t] = "lost"
          /\ \A t \in Targets : pc[t] \in {"new", "fetch", "done", "lost"}
    /\ stage' = "down" /\ todo' = {}
    /\ FreshMemory
    /\ UNCHANGED <<disk, lines, torn, body, stray, due, mishaps>>

\* A manifest is being written.
Writing ==
    \/ \E t \in Targets : pc[t] = "write" /\ io = NoTarget
    \/ \E t \in Targets : pc[t] \in {"seal", "acknowledge"} \/ (pc[t] = "mark" /\ todo # {})
    \/ Sweeping /\ cursor # NoTarget
    \/ Sweeping /\ \E t \in todo : body[t].file = "none" /\ body[t].state = "pending"

Kill ==
    /\ stage # "down"
    /\ Mishap
    /\ stage' = "down" /\ todo' = {}
    /\ FreshMemory
    /\ stray' \in IF KilledWriting /\ Writing THEN {stray, TRUE} ELSE {stray}
    /\ torn' \in IF Locked THEN {torn, TRUE} ELSE {torn}
    /\ UNCHANGED <<disk, lines, body, due>>

Init ==
    /\ stage = "down"
    /\ pc = [t \in Targets |-> "new"]
    /\ row = [t \in Targets |-> "none"]
    /\ journal = [t \in Targets |-> "none"]
    /\ disk = [t \in Targets |-> "none"]
    /\ projected = {} /\ poisoned = FALSE
    /\ io = NoTarget /\ todo = {} /\ cursor = NoTarget /\ backlog = FALSE
    /\ lines = [t \in Targets |-> 0] /\ torn = FALSE
    /\ body = [t \in Targets |-> [state |-> "none", kept |-> FALSE, file |-> "none"]]
    /\ stray = FALSE /\ due = {} /\ mishaps = 0

TaskNext(t) ==
    \/ CheckLedger(t) \/ Admit(t) \/ Complete(t) \/ Project(t)
    \/ \E result \in Results : Fetch(t, result)
    \/ CancelTarget(t)
    \/ WritePending(t) \/ WriteStaging(t) \/ Publish(t) \/ Seal(t)
    \/ PurgeBegin(t)
    \/ \E u \in Targets : PurgeMark(t, u)
    \/ PurgeRemove(t) \/ PurgeAcknowledge(t) \/ PurgeEnd(t)

Sweep ==
    \/ \E t \in Targets : SweepSkip(t) \/ SweepPending(t) \/ SweepRemove(t)
    \/ SweepAcknowledge \/ SweepEnd

Next ==
    \/ \E t \in Targets : TaskNext(t) \/ Expire(t)
    \/ Sweep \/ Open \/ Recover \/ Rebuild \/ Close \/ Finish \/ Exit \/ Kill

Spec == Init /\ [][Next]_vars

\* Whenever the crawler is down somebody starts it again, and start-up runs on.
Fairness == WF_vars(Open) /\ WF_vars(Sweep) /\ WF_vars(Recover) /\ WF_vars(Rebuild)

FairSpec == Spec /\ Fairness

-----------------------------------------------------------------------------
(* Properties *)

\* ledger.rs: the journal "projects exactly one durable terminal row per target".
\* When a run is reported complete, every target the durable journal has
\* admitted, in this run or before, has its terminal row there and exactly one
\* line in ledger.jsonl.
CompleteMeansOneRow ==
    stage = "complete" =>
        \A t \in Targets :
            /\ disk[t] = journal[t]
            /\ disk[t] # "none" => disk[t] \in Terminal /\ lines[t] = 1

\* No sequence of failed writes, kills and recoveries changes an outcome once
\* the durable journal holds it.
OutcomeFinal ==
    [][\A t \in Targets : disk[t] \in Terminal => disk'[t] = disk[t]]_vars

\* robot_client.rs: sink "acknowledgement precedes any Saved outcome".  As long as
\* a saved body is neither expired nor purged, its manifest is retained and
\* its object is on the disk under its final name.
SavedBodyOnDisk ==
    \A t \in Targets :
        disk[t] = "saved" /\ body[t].kept /\ t \notin due =>
            body[t].state = "retained" /\ body[t].file = "final"

\* local_sink.rs: "interrupted raw writes remain individually managed".  No raw
\* bytes are on the disk without a manifest that still accounts for them.
RawManaged ==
    \A t \in Targets : body[t].file # "none" => body[t].state \in {"pending", "retained"}

\* ledger.rs: open "recovers incomplete prior inputs as cancelled".
IncompleteRecovered ==
    \A t \in Targets :
        stage = "down" /\ disk[t] = "open" ~> disk[t] \in Terminal

\* A store that LocalSink::open refuses: a stray file among the manifests, or a
\* retained manifest whose object is gone.
Refused ==
    /\ stage = "down"
    /\ stray \/ \E t \in Targets : body[t].state = "retained" /\ body[t].file = "none"

\* The same for every store that start-up accepts: a crawler that is started
\* again comes to recover each interrupted target.
RecoveredUnlessRefused ==
    \A t \in Targets :
        stage = "down" /\ disk[t] = "open" ~> disk[t] \in Terminal \/ Refused

\* retention.rs: of a pending manifest, "any interrupted write is purged", in
\* every store that start-up accepts.
InterruptedPurged ==
    \A t \in Targets :
        stage = "down" /\ body[t].state = "pending" ~> body[t].state = "deleted" \/ Refused

=============================================================================
