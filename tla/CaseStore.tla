----------------------------- MODULE CaseStore ------------------------------
(***************************************************************************)
(* The durable compliance case store (compliance/tickets.rs, recovery.rs,  *)
(* journal.rs, payload.rs, rules.rs).                                      *)
(*                                                                         *)
(* One operation at a time builds a plan: a personal revision to write, a  *)
(* few journal rows, and a rules snapshot or a purge that takes effect     *)
(* after the plan's intent row.  Each durable step of a plan is an action, *)
(* so the process may be killed, or an I/O call may fail, between any two. *)
(* Start-up replays the journal, verifies it against the files and the     *)
(* rules, and finishes what an earlier process left half done.             *)
(***************************************************************************)
EXTENDS Transitions

CONSTANTS
    Intakes,     \* the families of reports explored: sequences of [route, docs]
    Commands,    \* the administration events offered
    Decisions,   \* the decisions offered
    Lead,        \* months from receipt to the provisional intimate rule
    MaxEvents,   \* max_ticket_events
    SpareEvents, \* ReservedEvents
    MaxRows,     \* max_journal_bytes, in rows
    SpareRows,   \* ReservedJournalBytes, in rows
    MaxTime,     \* the clock's last month
    MaxFaults,   \* kills, I/O failures and clock steps together
    FaultKinds   \* the faults of the instance

ASSUME CaseAssumption ==
    /\ \A reports \in Intakes : DOMAIN reports = 1..Len(reports)
    /\ {Lead, MaxTime, MaxFaults, SpareEvents, SpareRows} \subseteq Nat
    /\ MaxEvents \in Nat /\ SpareEvents <= MaxEvents
    /\ MaxRows \in Nat /\ SpareRows <= MaxRows
    /\ FaultKinds \subseteq {"kill", "io", "clock"}

VARIABLES
    intake,    \* the reports of this behaviour, in ticket-id order; fixed by Init
    journal,   \* durable: the complete rows of events.jsonl
    torn,      \* durable: an incomplete last line
    head,      \* durable: head.json, the sequence it commits to
    files,     \* durable: [Tickets -> [Revisions -> personal revision]]
    rules,     \* durable: snapshot.json, [rules, markers]
    status,    \* "down", "recovering", "open" or "failed" (unavailable)
    tickets,   \* the projection
    served,    \* the snapshot search is gated with; Withheld when unavailable
    plan,      \* the plan being executed
    pc,        \* its next durable step
    todo,      \* what reconcile has left to visit
    atOpen,    \* rules_at_open, while reconciling
    tail,      \* recovered_tail: a torn line was quarantined by this start-up
    now,       \* UTC
    faults     \* faults so far

durable == <<journal, torn, head, files, rules>>
memory  == <<status, tickets, served, plan, pc, todo, atOpen, tail>>
vars    == <<intake, durable, memory, now, faults>>

Tickets   == DOMAIN intake
Revisions == 1..MaxEvents

Absent   == [event |-> "absent"]
Damaged  == [event |-> "damaged"]
NoRules  == [rules |-> {}, markers |-> {}]
Withheld == [rules |-> {}, markers |-> {}, unavailable |-> TRUE]
NoPlan   == [t |-> 0, rows |-> <<>>]

-----------------------------------------------------------------------------
(* Replay: rebuild, and the projection reserve computes for a plan.         *)
Step(known, row) ==
    IF row.t = 0 THEN known
    ELSE [known EXCEPT ![row.t] =
            IF row.event = "received"
            THEN IF @ = Unknown THEN Received(row) ELSE Refused
            ELSE Apply(@, row)]

After(known, rows) ==
    LET run[n \in 0..Len(rows)] == IF n = 0 THEN known ELSE Step(run[n - 1], rows[n])
    IN  run[Len(rows)]

Replay(rows) == After([t \in Tickets |-> Unknown], rows)

Rebuilt(known) == \A t \in Tickets :
    known[t] # Refused /\ (known[t] # Unknown => known[t].events <= MaxEvents)

-----------------------------------------------------------------------------
(* Suppression rules.                                                       *)
Delta(intent) ==
    [kind   |-> IF intent.event = "reversal_intent" THEN "reverse"
                ELSE IF intent.dec = "not_intimate_image" THEN "remove" ELSE "install",
     t      |-> intent.t,
     docs   |-> intake[intent.t].docs,
     ground |-> intent.ground,
     eff    |-> intent.eff,
     iseq   |-> intent.iseq]

\* Mutant: markers are not consulted.
ApplicableAnywhere(snap, d) == TRUE

\* apply_delta refuses to install where a reversal left a marker.
Applicable(snap, d) ==
    d.kind = "install" => \A doc \in d.docs : <<doc, d.ground>> \notin snap.markers

\* Mutant: a reversal clears the documents for every ticket.
ApplyDeltaByDocument(snap, d) ==
    LET mine(r) == r.t = d.t
    IN  CASE d.kind = "install" ->
               [snap EXCEPT !.rules = {r \in @ : ~mine(r)} \cup
                   {[t |-> d.t, doc |-> doc, ground |-> d.ground, eff |-> d.eff, iseq |-> d.iseq] :
                        doc \in d.docs}]
          [] d.kind = "remove" -> [snap EXCEPT !.rules = {r \in @ : ~mine(r)}]
          [] d.kind = "reverse" ->
               [snap EXCEPT !.rules = {r \in @ : ~(r.doc \in d.docs /\ r.ground = d.ground)},
                            !.markers = @ \cup {<<doc, d.ground>> : doc \in d.docs}]

ApplyDelta(snap, d) ==
    LET mine(r) == r.t = d.t
        same(r) == r.t = d.t /\ r.doc \in d.docs /\ r.ground = d.ground
        earliest(doc) ==
            LET prior == {r.eff : r \in {q \in snap.rules : same(q) /\ q.doc = doc}}
            IN  CHOOSE e \in prior \cup {d.eff} : \A f \in prior \cup {d.eff} : e <= f
    IN  CASE d.kind = "install" ->
               [snap EXCEPT !.rules = {r \in @ : ~same(r)} \cup
                   {[t |-> d.t, doc |-> doc, ground |-> d.ground, eff |-> earliest(doc),
                     iseq |-> d.iseq] : doc \in d.docs}]
          [] d.kind = "remove" -> [snap EXCEPT !.rules = {r \in @ : ~mine(r)}]
          [] d.kind = "reverse" ->
               [snap EXCEPT !.rules = {r \in @ : ~mine(r)},
                            !.markers = @ \cup {<<doc, d.ground>> : doc \in d.docs}]

\* Mutant: a rule counts only while its document carries no marker.
VerifiesUnmarked(snap, d) ==
    CASE d.kind = "install" ->
           \A doc \in d.docs :
               /\ \E r \in snap.rules : r.t = d.t /\ r.doc = doc /\ r.iseq = d.iseq
               /\ <<doc, d.ground>> \notin snap.markers
      [] d.kind = "remove" -> \A r \in snap.rules : r.t # d.t
      [] d.kind = "reverse" -> \A r \in snap.rules : r.t # d.t

Verifies(snap, d) ==
    CASE d.kind = "install" ->
           \A doc \in d.docs : \E r \in snap.rules :
               r.t = d.t /\ r.doc = doc /\ r.ground = d.ground /\ r.iseq = d.iseq /\ r.eff <= d.eff
      [] d.kind = "remove" -> \A r \in snap.rules : r.t # d.t
      [] d.kind = "reverse" ->
           /\ \A r \in snap.rules : r.t # d.t
           /\ \A doc \in d.docs : <<doc, d.ground>> \in snap.markers

-----------------------------------------------------------------------------
(* Rows and plans.                                                          *)
EventRow(t, k, event, at) ==
    [seq |-> 0, t |-> t, event |-> event, route |-> k.route, recv |-> k.recv, at |-> at,
     state |-> Successor(k.state, event), dec |-> "", ground |-> "", eff |-> 0,
     iseq |-> 0, pay |-> 0]

Completion(t, k, intent, at) ==
    [EventRow(t, k, CompletionOf(intent), at) EXCEPT
        !.iseq = intent.iseq, !.ground = intent.ground, !.dec = intent.dec, !.eff = intent.eff]

\* prepare_rows numbers the rows; `at` may neither precede the last row nor be in the future.
Numbered(rows) == [i \in DOMAIN rows |-> [rows[i] EXCEPT !.seq = Len(journal) + i]]

LastAt == IF journal = <<>> THEN 0 ELSE journal[Len(journal)].at

Timely(rows) == \A i \in DOMAIN rows : LastAt <= rows[i].at /\ rows[i].at <= now

\* The rule-changing intent of a plan, if it has one.
RuleIntents(rows) == {i \in DOMAIN rows : rows[i].event \in {"action_intent", "reversal_intent"}}

PlanDelta(rows) == Delta(rows[CHOOSE i \in RuleIntents(rows) : TRUE])

Projected(rows) == After(tickets, rows)[rows[1].t]

Reserve(rows, reserved) ==
    /\ Projected(rows) # Refused
    /\ Projected(rows).events <= MaxEvents - (IF reserved THEN 0 ELSE SpareEvents)
    /\ Len(journal) + Len(rows) <= MaxRows - (IF reserved THEN 0 ELSE SpareRows)

\* What materialize_plan and execute_plan refuse before the first write.
Feasible(rows, reserved) ==
    /\ Timely(rows)
    /\ Reserve(rows, reserved)
    /\ RuleIntents(rows) # {} => served # Withheld /\ Applicable(served, PlanDelta(rows))

Plan(t, rows, pay, content) ==
    [t |-> t, rows |-> rows, pay |-> pay, content |-> content,
     snap |-> IF RuleIntents(rows) = {} THEN NoRules ELSE ApplyDelta(served, PlanDelta(rows)),
     proj |-> Projected(rows)]

\* execute_plan as far as its first durable step.
Execute(p) ==
    /\ plan' = p
    /\ pc' = IF p.pay = 0 THEN "append" ELSE "payload"

-----------------------------------------------------------------------------
Init ==
    /\ intake \in Intakes
    /\ journal = <<>> /\ torn = FALSE /\ head = 0
    /\ files = [t \in Tickets |-> [s \in Revisions |-> Absent]]
    /\ rules = NoRules
    /\ status = "open" /\ tickets = [t \in Tickets |-> Unknown]
    /\ served = NoRules /\ plan = NoPlan /\ pc = "idle" /\ todo = <<>>
    /\ atOpen = NoRules /\ tail = FALSE
    /\ now = 0 /\ faults = 0

Ready == status = "open" /\ pc = "idle"

Content(event, dec, dup) == [event |-> event, dec |-> dec, dup |-> dup]

\* Mutant: the provisional rule is dated from the write instead of the receipt.
AdmitRowsFromWrite(t, recv) ==
    LET k0 == [route |-> intake[t].route, recv |-> recv, state |-> "received"]
        received == [EventRow(t, k0, "action_intent", now) EXCEPT !.event = "received", !.pay = 1]
        intent == [EventRow(t, k0, "action_intent", now) EXCEPT
                      !.iseq = Len(journal) + 2, !.ground = "intimate_images",
                      !.eff = now + Lead, !.pay = 1]
        ack    == EventRow(t, k0, "acknowledged", now)
        queued == [ack EXCEPT !.event = "queued", !.state = "queued"]
    IN  <<received>>
        \o (IF k0.route = "intimate_images" THEN <<intent, Completion(t, k0, intent, now)>> ELSE <<>>)
        \o <<ack, queued>>

AdmitRows(t, recv) ==
    LET k0 == [route |-> intake[t].route, recv |-> recv, state |-> "received"]
        received == [EventRow(t, k0, "action_intent", now) EXCEPT !.event = "received", !.pay = 1]
        intent == [EventRow(t, k0, "action_intent", now) EXCEPT
                      !.iseq = Len(journal) + 2, !.ground = "intimate_images",
                      !.eff = recv + Lead, !.pay = 1]
        ack    == EventRow(t, k0, "acknowledged", now)
        queued == [ack EXCEPT !.event = "queued", !.state = "queued"]
    IN  <<received>>
        \o (IF k0.route = "intimate_images" THEN <<intent, Completion(t, k0, intent, now)>> ELSE <<>>)
        \o <<ack, queued>>

\* A new report; its receipt time was taken before the wait for the store.
Admit(t, recv) ==
    /\ Ready
    /\ tickets[t] = Unknown
    /\ recv <= now
    /\ LET rows == Numbered(AdmitRows(t, recv))
       IN  /\ Feasible(rows, FALSE)
           /\ Execute(Plan(t, rows, 1, Content("received", "", 0)))
    /\ UNCHANGED <<durable, status, tickets, served, todo, atOpen, tail, now, faults>>

\* administer's event row: prepare_personal fills in what the event carries.
AdminRow(t, event, dec) ==
    LET k == tickets[t]
        base == [EventRow(t, k, event, now) EXCEPT !.pay = k.refs + 1]
    IN  CASE event = "decided" ->
               [base EXCEPT !.dec = dec,
                            !.ground = IF dec \in {"granted", "not_intimate_image"}
                                       THEN GroundOf(k.route) ELSE ""]
          [] event = "reversal_intent" ->
               [base EXCEPT !.dec = k.dec, !.ground = k.ground, !.eff = now,
                            !.iseq = Len(journal) + 1]
          [] OTHER -> base

\* prepare_action: what follows the event row.
ActionRows(t, row) ==
    LET k        == Reduce(tickets[t], row)
        enforced == row.event = "decided" /\ row.ground # ""
        intent   == [row EXCEPT !.event = "action_intent", !.iseq = Len(journal) + 2, !.eff = row.at]
    IN  CASE enforced -> <<intent, Completion(t, k, intent, row.at)>>
          [] row.event = "reversal_intent" -> <<Completion(t, tickets[t], row, row.at)>>
          [] OTHER -> <<>>

\* An administration event of one of the Commands.
Administer(t, event, dec, dup) ==
    /\ Ready
    /\ tickets[t] # Unknown /\ ~tickets[t].purged
    /\ files[t][1] \notin {Absent, Damaged}
    /\ HasSuccessor(tickets[t].state, event)
    /\ event = "decided" => DecisionAllowed(tickets[t], dec, dup, tickets)
    /\ event = "reversal_intent" => tickets[t].dec # "" /\ tickets[t].ground # ""
    /\ LET row == AdminRow(t, event, dec)
       IN  /\ Accepts(tickets[t], Numbered(<<row>>)[1])
           /\ LET rows == Numbered(<<row>> \o ActionRows(t, row))
              IN  /\ Feasible(rows, FALSE)
                  /\ Execute(Plan(t, rows, row.pay, Content(event, dec, dup)))
    /\ UNCHANGED <<durable, status, tickets, served, todo, atOpen, tail, now, faults>>

\* Mutant: a purge is held to the allowance of live events.
PurgeUnreserved(t) ==
    /\ Ready
    /\ tickets[t] # Unknown /\ ~tickets[t].purged
    /\ PurgeDue(tickets[t], now)
    /\ LET intent == [EventRow(t, tickets[t], "purge_intent", now) EXCEPT !.iseq = Len(journal) + 1]
           rows   == Numbered(<<intent, Completion(t, tickets[t], intent, now)>>)
       IN  /\ Feasible(rows, FALSE)
           /\ Execute(Plan(t, rows, 0, Absent))
    /\ UNCHANGED <<durable, status, tickets, served, todo, atOpen, tail, now, faults>>

\* purge of a ticket whose retention has passed.
Purge(t) ==
    /\ Ready
    /\ tickets[t] # Unknown /\ ~tickets[t].purged
    /\ PurgeDue(tickets[t], now)
    /\ LET intent == [EventRow(t, tickets[t], "purge_intent", now) EXCEPT !.iseq = Len(journal) + 1]
           rows   == Numbered(<<intent, Completion(t, tickets[t], intent, now)>>)
       IN  /\ Feasible(rows, TRUE)
           /\ Execute(Plan(t, rows, 0, Absent))
    /\ UNCHANGED <<durable, status, tickets, served, todo, atOpen, tail, now, faults>>

-----------------------------------------------------------------------------
(* execute_plan, one durable step at a time.                                *)
WritePayload ==
    /\ pc = "payload"
    /\ files[plan.t][plan.pay] = Absent                    \* CreateNew
    /\ files' = [files EXCEPT ![plan.t][plan.pay] = plan.content]
    /\ pc' = "append"
    /\ UNCHANGED <<journal, torn, head, rules, status, tickets, served, plan, todo, atOpen, tail, now, faults>>

\* The row, complete and synced; the clock is read again.
AppendRow ==
    /\ pc = "append"
    /\ Timely(<<plan.rows[1]>>)
    /\ Len(journal) < MaxRows
    /\ journal' = Append(journal, plan.rows[1])
    /\ pc' = "head"
    /\ UNCHANGED <<torn, head, files, rules, status, tickets, served, plan, todo, atOpen, tail, now, faults>>

\* What the intent that was just journalled asks for, or the next row, or the end of the plan.
Follow(p) ==
    IF p.rows[1].event \in Intents THEN "apply"
    ELSE IF Len(p.rows) > 1 THEN "append" ELSE "idle"

\* Mutant: work finished during start-up is not published.
FinishUnpublished(p) ==
    IF Follow(p) = "idle"
    THEN /\ tickets' = IF p.t = 0 \/ status # "open" THEN tickets ELSE [tickets EXCEPT ![p.t] = p.proj]
         /\ plan' = NoPlan
    ELSE /\ plan' = IF Follow(p) = "append" THEN [p EXCEPT !.rows = Tail(@)] ELSE p
         /\ UNCHANGED tickets

Finish(p) ==
    IF Follow(p) = "idle"
    THEN /\ tickets' = IF p.t = 0 THEN tickets ELSE [tickets EXCEPT ![p.t] = p.proj]
         /\ plan' = NoPlan
    ELSE /\ plan' = IF Follow(p) = "append" THEN [p EXCEPT !.rows = Tail(@)] ELSE p
         /\ UNCHANGED tickets

WriteHead ==
    /\ pc = "head"
    /\ head' = Len(journal)
    /\ pc' = Follow(plan)
    /\ Finish(plan)
    /\ UNCHANGED <<journal, torn, files, rules, status, served, todo, atOpen, tail, now, faults>>

\* The intent's effect is durable; a recovered intent has no row after it.
Applied ==
    IF Len(plan.rows) = 1 THEN pc' = "idle" /\ plan' = NoPlan
    ELSE pc' = "append" /\ plan' = [plan EXCEPT !.rows = Tail(@)]

CommitRules ==
    /\ pc = "apply" /\ plan.rows[1].event # "purge_intent"
    /\ rules' = plan.snap /\ served' = plan.snap
    /\ Applied
    /\ UNCHANGED <<journal, torn, head, files, status, tickets, todo, atOpen, tail, now, faults>>

\* payloads.purge: ascending, one file at a time.
Erasable(t) == {s \in Revisions : files[t][s] # Absent /\ s <= plan.proj.refs}

\* Mutant: only the intake is erased.
EraseIntakeOnly ==
    /\ pc = "apply" /\ plan.rows[1].event = "purge_intent"
    /\ files' = [files EXCEPT ![plan.t][1] = Absent]
    /\ Applied
    /\ UNCHANGED <<journal, torn, head, rules, status, tickets, served, todo, atOpen, tail, now, faults>>

EraseFile ==
    /\ pc = "apply" /\ plan.rows[1].event = "purge_intent"
    /\ IF Erasable(plan.t) = {}
       THEN Applied /\ UNCHANGED files
       ELSE /\ files' = [files EXCEPT ![plan.t][CHOOSE s \in Erasable(plan.t) :
                                                   \A r \in Erasable(plan.t) : s <= r] = Absent]
            /\ UNCHANGED <<plan, pc>>
    /\ UNCHANGED <<journal, torn, head, rules, status, tickets, served, todo, atOpen, tail, now, faults>>

-----------------------------------------------------------------------------
(* Start-up.                                                                *)
Blank ==
    /\ tickets' = [t \in Tickets |-> Unknown]
    /\ plan' = NoPlan /\ pc' = "idle" /\ todo' = <<>> /\ atOpen' = NoRules /\ tail' = FALSE

\* The process is gone.
Stopped == status' = "down" /\ served' = NoRules /\ Blank

\* Only the case store is unavailable: search is still gated with `snap`.
Unavailable(snap) == status' = "failed" /\ served' = snap /\ Blank

ChainVerified ==
    /\ head <= Len(journal)
    /\ \A i \in DOMAIN journal : journal[i].at <= now /\ (i > 1 => journal[i - 1].at <= journal[i].at)

\* Mutant: an interrupted purge does not excuse missing revisions.
ErasureComplete(k) == k.purged

ErasureAuthorized(k) == k.purged \/ (k.pending # NoRow /\ k.pending.event = "purge_intent")

Impersonal == {"acknowledged", "queued", "action_intent"} \cup Completions

\* verify_personal_row; `known` are the tickets before the row.
RowVerified(row, known) ==
    LET f == files[row.t][row.pay]
    IN  IF row.pay = 0 THEN row.event \in Impersonal
        ELSE /\ \/ row.event = f.event
                \/ row.event = "action_intent" /\ f.event \in {"received", "decided"}
             /\ f.event = "decided" => row.dec = f.dec
             /\ row.event = "decided" => DecisionAllowed(known[row.t], f.dec, f.dup, known)

PayloadsVerified(known) ==
    /\ \A t \in Tickets : known[t] # Unknown =>
        \A s \in 1..known[t].refs :
            /\ files[t][s] # Damaged
            /\ files[t][s] = Absent => ErasureAuthorized(known[t])
    /\ \A i \in DOMAIN journal :
        \/ journal[i].t = 0
        \/ ErasureAuthorized(known[journal[i].t])
        \/ RowVerified(journal[i], Replay(SubSeq(journal, 1, i - 1)))

\* Mutant: receipts and decisions are not taken up again.
VisitsPendingOnly(known) ==
    LET step(i) == <<"effect", "done">>[((i - 1) % 2) + 1]
        all == [i \in 1..2 * Len(intake) |-> [t |-> ((i - 1) \div 2) + 1, step |-> step(i)]]
    IN  SelectSeq(all, LAMBDA v : known[v.t] # Unknown)

\* reconcile's visits: each ticket in id order.
Visits(known) ==
    LET step(i) == <<"effect", "done", "resume">>[((i - 1) % 3) + 1]
        all == [i \in 1..3 * Len(intake) |-> [t |-> ((i - 1) \div 3) + 1, step |-> step(i)]]
    IN  SelectSeq(all, LAMBDA v : known[v.t] # Unknown)

\* Load, quarantine the torn line, rebuild, verify, remove unreferenced revisions.
Open ==
    /\ status = "down"
    /\ \E known \in {Replay(journal)} :
           IF ~ChainVerified THEN Unavailable(rules) /\ UNCHANGED <<torn, files>>
           ELSE /\ torn' = FALSE
                /\ IF ~(Rebuilt(known) /\ PayloadsVerified(known))
                   THEN Unavailable(rules) /\ UNCHANGED files
                   ELSE /\ status' = "recovering" /\ tickets' = known /\ served' = rules
                        /\ atOpen' = rules /\ tail' = torn /\ todo' = Visits(known)
                        /\ files' = [t \in Tickets |-> [s \in Revisions |->
                               IF known[t] # Unknown /\ s <= known[t].refs THEN files[t][s] ELSE Absent]]
                        /\ UNCHANGED <<plan, pc>>
    /\ UNCHANGED <<journal, head, rules, now, faults>>

Visiting(step) == status = "recovering" /\ pc = "idle" /\ todo # <<>> /\ todo[1].step = step

Visited ==
    /\ todo' = Tail(todo)
    /\ UNCHANGED <<status, tickets, served, atOpen, tail>>

\* A plan of the recovery, or the refusal of it that leaves the store unavailable.
Recover(t, new) ==
    \E rows \in {Numbered(new)} :
        IF Feasible(rows, TRUE) THEN Visited /\ Execute(Plan(t, rows, 0, Absent))
        ELSE Unavailable(served)

LastRuleIntent(t) ==
    {i \in DOMAIN journal :
        /\ journal[i].t = t /\ journal[i].event \in {"action_intent", "reversal_intent"}
        /\ \A j \in (i + 1)..Len(journal) :
               ~(journal[j].t = t /\ journal[j].event \in {"action_intent", "reversal_intent"})}

\* verify_completed: the rules at open show the last completed intent.
CompletedVerified(t) == \A i \in LastRuleIntent(t) :
    LET d == Delta(journal[i])
    IN  IF tickets[t].purged /\ d.kind = "install"
        THEN \A doc \in d.docs : \E r \in atOpen.rules :
                 r.t = t /\ r.doc = doc /\ r.ground = d.ground /\ r.iseq = d.iseq
        ELSE Verifies(atOpen, d)

\* Mutant: the rules of a pending intent are taken to be committed.
RecoverEffectAssumed ==
    /\ Visiting("effect")
    /\ tickets[todo[1].t].pending # NoRow \/ CompletedVerified(todo[1].t)
    /\ Visited
    /\ UNCHANGED <<plan, pc, durable, now, faults>>

\* finish_pending up to its completion row, or verify_completed.
RecoverEffect ==
    /\ Visiting("effect")
    /\ LET t == todo[1].t
           intent == tickets[t].pending
           again(snap) == /\ Visited /\ pc' = "apply"
                          /\ plan' = [t |-> t, rows |-> <<intent>>, pay |-> 0, content |-> Absent,
                                      snap |-> snap, proj |-> tickets[t]]
       IN  CASE intent = NoRow /\ CompletedVerified(t)  -> Visited /\ UNCHANGED <<plan, pc>>
             [] intent = NoRow /\ ~CompletedVerified(t) -> Stopped        \* RulesUnavailable
             [] intent.event = "purge_intent"           -> again(NoRules)
             [] intent.event \in {"action_intent", "reversal_intent"} ->
                  IF Verifies(atOpen, Delta(intent)) THEN Visited /\ UNCHANGED <<plan, pc>>
                  ELSE IF Applicable(served, Delta(intent))
                       THEN again(ApplyDelta(served, Delta(intent)))
                       ELSE Unavailable(served)
    /\ UNCHANGED <<durable, now, faults>>

\* finish_pending's completion row.
RecoverDone ==
    /\ Visiting("done")
    /\ LET t == todo[1].t
           k == tickets[t]
       IN  IF k.pending = NoRow THEN Visited /\ UNCHANGED <<plan, pc>>
           ELSE Recover(t, <<Completion(t, k, k.pending, now)>>)
    /\ UNCHANGED <<durable, now, faults>>

\* finish_intake's rows.
IntakeRows(t) ==
    LET k == tickets[t]
        installed == \E i \in DOMAIN journal : journal[i].t = t /\ journal[i].event = "rules_committed"
        intent == [EventRow(t, k, "action_intent", now) EXCEPT
                      !.ground = "intimate_images", !.pay = 1, !.iseq = Len(journal) + 1,
                      !.eff = k.recv + Lead]
        queued == EventRow(t, [k EXCEPT !.state = "acknowledged"], "queued", now)
    IN  IF k.state = "acknowledged" THEN <<queued>>
        ELSE (IF k.route = "intimate_images" /\ ~installed
              THEN <<intent, Completion(t, k, intent, now)>> ELSE <<>>)
             \o <<EventRow(t, k, "acknowledged", now), queued>>

\* finish_decision: a decision that asks for rules and has no intent after it.
Unenforced(t) ==
    {i \in DOMAIN journal :
        /\ journal[i].t = t /\ journal[i].event = "decided"
        /\ journal[i].ground # "" /\ journal[i].dec \in {"granted", "not_intimate_image"}
        /\ \A j \in (i + 1)..Len(journal) : ~(journal[j].t = t /\ journal[j].event = "action_intent")}

DecisionRows(t, decided) ==
    LET intent == [decided EXCEPT !.event = "action_intent", !.at = now,
                                  !.iseq = Len(journal) + 1, !.eff = decided.at]
    IN  <<intent, Completion(t, tickets[t], intent, now)>>

RecoverResume ==
    /\ Visiting("resume")
    /\ LET t == todo[1].t
       IN  CASE tickets[t].state \in {"received", "acknowledged"} -> Recover(t, IntakeRows(t))
             [] tickets[t].state = "decided" /\ Unenforced(t) # {} ->
                  LET i == CHOOSE j \in Unenforced(t) : TRUE
                  IN  Recover(t, DecisionRows(t, journal[i]))
             [] OTHER -> Visited /\ UNCHANGED <<plan, pc>>
    /\ UNCHANGED <<durable, now, faults>>

TailRow == [seq |-> Len(journal) + 1, t |-> 0, event |-> "tail_recovered", at |-> now]

\* finish_recovery: record the quarantine, then adopt the chain's head.
FinishRecovery ==
    /\ status = "recovering" /\ pc = "idle" /\ todo = <<>>
    /\ IF ~tail
       THEN /\ head' = Len(journal) /\ status' = "open" /\ atOpen' = NoRules
            /\ UNCHANGED <<tickets, served, plan, pc, todo, tail>>
       ELSE /\ UNCHANGED head
            /\ IF ~Timely(<<TailRow>>) THEN Unavailable(served)
               ELSE /\ tail' = FALSE
                    /\ Execute([t |-> 0, rows |-> <<TailRow>>, pay |-> 0])
                    /\ UNCHANGED <<status, tickets, served, todo, atOpen>>
    /\ UNCHANGED <<journal, torn, files, rules, now, faults>>

-----------------------------------------------------------------------------
(* Faults.                                                                  *)
Fault(kind) == kind \in FaultKinds /\ faults < MaxFaults /\ faults' = faults + 1

\* A write that was cut short: a damaged revision, an incomplete line.
CutShort ==
    \/ UNCHANGED durable
    \/ /\ pc = "payload"
       /\ files' = [files EXCEPT ![plan.t][plan.pay] = Damaged]
       /\ UNCHANGED <<journal, torn, head, rules>>
    \/ /\ pc = "append" /\ torn' = TRUE
       /\ UNCHANGED <<journal, head, files, rules>>

Kill ==
    /\ Fault("kill")
    /\ status # "down"
    /\ CutShort
    /\ Stopped
    /\ UNCHANGED now

\* Has this operation begun to write?  An error before that changes nothing.
Started == ~(pc = "payload" \/ (pc = "append" /\ plan.rows[1].event = "purge_intent"))

\* An I/O call fails with nothing on disk, or with the write cut short.
FailIO ==
    /\ Fault("io")
    /\ pc # "idle"
    /\ CutShort
    /\ IF status = "recovering" /\ pc = "apply" /\ plan.rows[1].event # "purge_intent" THEN Stopped
       ELSE IF status = "open" /\ ~Started /\ UNCHANGED durable
            THEN pc' = "idle" /\ plan' = NoPlan
                 /\ UNCHANGED <<status, tickets, served, todo, atOpen, tail>>
            ELSE Unavailable(served)
    /\ UNCHANGED now

\* Mutant: the old snapshot goes on gating search.
FailRenamedServing ==
    /\ Fault("io")
    /\ pc = "apply" /\ plan.rows[1].event # "purge_intent"
    /\ rules' = plan.snap
    /\ IF status = "recovering" THEN Stopped ELSE Unavailable(served)
    /\ UNCHANGED <<journal, torn, head, files, now>>

\* An I/O call fails after the rules were renamed into place.
FailRenamed ==
    /\ Fault("io")
    /\ pc = "apply" /\ plan.rows[1].event # "purge_intent"
    /\ rules' = plan.snap
    /\ IF status = "recovering" THEN Stopped ELSE Unavailable(Withheld)
    /\ UNCHANGED <<journal, torn, head, files, now>>

\* The clock went back, or there is no room: append refuses the row.
RefuseRow ==
    /\ pc = "append"
    /\ ~(Timely(<<plan.rows[1]>>) /\ Len(journal) < MaxRows)
    /\ Unavailable(served)
    /\ UNCHANGED <<durable, now, faults>>

SetBack ==
    /\ Fault("clock")
    /\ now > 0 /\ now' = now - 1
    /\ UNCHANGED <<durable, memory>>

Tick ==
    /\ now < MaxTime /\ now' = now + 1
    /\ UNCHANGED <<durable, memory, faults>>

\* An operator restarts a service whose case store is unavailable.
Restart ==
    /\ status = "failed"
    /\ Stopped
    /\ UNCHANGED <<durable, now, faults>>

Execution == WritePayload \/ AppendRow \/ WriteHead \/ CommitRules \/ EraseFile \/ RefuseRow
Recovery  == Open \/ RecoverEffect \/ RecoverDone \/ RecoverResume \/ FinishRecovery

Actions ==
    \/ \E t \in Tickets :
        \/ \E recv \in {now, now - 1} \cap Nat : Admit(t, recv)
        \/ \E event \in Commands \ {"decided"} : Administer(t, event, "", 0)
        \/ "decided" \in Commands /\ \E dec \in Decisions, dup \in Tickets :
               /\ dec # "manifestly_unfounded" => dup = 1
               /\ Administer(t, "decided", dec, dup)
        \/ Purge(t)
    \/ Execution
    \/ Recovery
    \/ Kill \/ FailIO \/ FailRenamed \/ SetBack \/ Tick \/ Restart

Next == Actions /\ UNCHANGED intake

Spec == Init /\ [][Next]_vars

\* Blocking work that was started finishes, the service is started again after it stopped or
\* became unavailable, and time passes.
FairSpec ==
    /\ Spec
    /\ WF_vars((Execution \/ Recovery \/ Restart) /\ UNCHANGED intake)
    /\ WF_vars(Tick /\ UNCHANGED intake)

-----------------------------------------------------------------------------
Known(t) == Replay(journal)[t]

\* The indices of t's rule intents, and the last of those in I.
IntentsOf(t) == {i \in DOMAIN journal :
                    journal[i].t = t /\ journal[i].event \in {"action_intent", "reversal_intent"}}
LastOf(I) == CHOOSE i \in I : \A j \in I : j <= i

\* The rules of t are those the last intent of I calls for: its own, in force from the
\* earliest date any of them gave, or none.
Shows(t, I, snap) ==
    LET mine == {r \in snap.rules : r.t = t}
    IN  IF I = {} \/ Delta(journal[LastOf(I)]).kind # "install" THEN mine = {}
        ELSE /\ {r.doc : r \in mine} = intake[t].docs
             /\ \A r \in mine :
                  /\ r.iseq = LastOf(I)
                  /\ \A i \in I : r.eff <= journal[i].eff
                  /\ \E i \in I : r.eff = journal[i].eff

\* The rules on disk are those the journal's intents call for, whatever was killed or failed
\* between the intent's row, the rules file and the completion row: only an intent that is
\* still pending may not be in force yet, and a reversal's markers are never lost.
RulesFollowJournal ==
    /\ \A t \in Tickets :
        \/ Shows(t, IntentsOf(t), rules)
        \/ /\ Known(t) # Unknown /\ Known(t).pending # NoRow
           /\ Shows(t, IntentsOf(t) \ {Known(t).pending.seq}, rules)
    /\ \A i \in DOMAIN journal : journal[i].event = "reversed" =>
        \A doc \in intake[journal[i].t].docs : <<doc, journal[i].ground>> \in rules.markers

\* Search is gated with exactly the durable rules or withheld: a failed commit never leaves
\* a process serving a snapshot other than the one a restart would load.
GateIsDurable == status # "down" => served \in {rules, Withheld}

\* A reported intimate image, once its receipt is acknowledged, is suppressed on disk from
\* the promised date at the latest, until a reviewer's determination or reversal.
AcknowledgedIsSuppressed ==
    \A i \in DOMAIN journal :
        journal[i].event = "acknowledged" /\ journal[i].route = "intimate_images" =>
            LET t == journal[i].t
            IN  \/ \E j \in IntentsOf(t) : Delta(journal[j]).kind # "install"
                \/ \A doc \in intake[t].docs : \E r \in rules.rules :
                       r.t = t /\ r.doc = doc /\ r.eff <= journal[i].recv + Lead

\* Every personal revision a ticket refers to is readable until a purge of the ticket is
\* journalled, and none is left once the purge is complete.
PersonalDataFollowsJournal ==
    \A t \in Tickets : Known(t) # Unknown =>
        /\ ~ErasureAuthorized(Known(t)) =>
            \A s \in 1..Known(t).refs : files[t][s] \notin {Absent, Damaged}
        /\ Known(t).purged => \A s \in 1..Known(t).refs : files[t][s] = Absent

\* The projection requests are answered from is the one a restart would replay.
ProjectionIsReplay == Ready => tickets = Replay(journal)

\* A rule is never put in force again for a document and ground that a reversal cleared.
ReversedStaysCleared ==
    [][\A r \in rules'.rules :
        \/ \E q \in rules.rules : q.t = r.t /\ q.doc = r.doc /\ q.ground = r.ground
        \/ <<r.doc, r.ground>> \notin rules.markers]_rules

\* Start-up never refuses what the store itself wrote: after any kill or failed call, the
\* verification of rows, revisions and rules succeeds and the unfinished work is accepted,
\* unless the clock is behind the journal or the journal is full.
StartupAccepts ==
    [][/\ status \in {"down", "recovering"} /\ status' \in {"failed", "down"} \ {status}
       /\ faults' = faults
       => \/ now < LastAt \/ Len(journal) = MaxRows
          \/ pc = "append" /\ now < plan.rows[1].at]_status

\* An intent without its completion, a receipt not queued, or a decision not enforced.
Unfinished(t) ==
    LET has(event, j) == journal[j].t = t /\ journal[j].event = event
    IN  \/ \E i \in DOMAIN journal :
             /\ journal[i].t = t /\ journal[i].event \in Intents
             /\ \A j \in DOMAIN journal : journal[j].event \in Completions => journal[j].iseq # i
        \/ \E i \in DOMAIN journal : has("received", i) /\ ~\E j \in DOMAIN journal : has("queued", j)
        \/ Unenforced(t) # {}

\* Whatever was left half done by a kill or a failure is completed by a later start-up.
WorkIsFinished == \A t \in UNION {DOMAIN reports : reports \in Intakes} : Unfinished(t) ~> ~Unfinished(t)

\* A closed ticket whose retention has passed can be purged at once although its other
\* events have used up their allowance: the events held back are there for it.
PurgeHasRoom ==
    \A t \in Tickets :
        /\ Ready /\ tickets[t] # Unknown /\ PurgeDue(tickets[t], now)
        /\ LastAt <= now /\ Len(journal) + 2 <= MaxRows
        => ENABLED Purge(t)

=============================================================================
