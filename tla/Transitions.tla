---------------------------- MODULE Transitions -----------------------------
(***************************************************************************)
(* The closed lifecycle of a compliance ticket (compliance/transitions.rs):*)
(* which rows a ticket accepts and what it becomes.  Live work and replay  *)
(* of the journal use the same reducer.                                    *)
(*                                                                         *)
(* A row keeps the fields the reducer reads.  `seq` is its place in the    *)
(* journal, `iseq` the place of the intent it belongs to, `pay` the        *)
(* personal revision it refers to (0: none).  A ticket's documents are its *)
(* intake's and never change, so rows do not repeat them.  Grounds are     *)
(* named after the routes that have them.  Time is in months.              *)
(***************************************************************************)
EXTENDS Integers, Sequences

CONSTANT
    Retention   \* retention_months

ASSUME RetentionAssumption == Retention \in Nat

NoRow     == [event |-> "none"]
Unknown   == [state |-> "unknown"]    \* no such ticket
Refused   == [state |-> "refused"]    \* the reducer returned an error

GroundOf(route) == IF route = "complaint" THEN "" ELSE route

Intents     == {"action_intent", "reversal_intent", "purge_intent"}
Completions == {"rules_committed", "actioned", "reversed", "purged"}

-----------------------------------------------------------------------------
Moves ==
    LET Stay(states, events) == {<<s, e, s>> : s \in states, e \in events}
    IN  {<<"received", "acknowledged", "acknowledged">>, <<"acknowledged", "queued", "queued">>,
         <<"queued", "decided", "decided">>, <<"decided", "actioned", "actioned">>,
         <<"appealed", "reversed", "reversed">>, <<"appealed", "upheld", "upheld">>}
        \cup {"queued"} \X {"identity_requested", "clarification_requested"} \X {"identity_pending"}
        \cup {"identity_pending"} \X {"identity_confirmed", "clarification_received"} \X {"queued"}
        \cup {"actioned", "decided"} \X {"appealed"} \X {"appealed"}
        \cup {"decided", "actioned", "reversed", "upheld"} \X {"closed"} \X {"closed"}
        \cup Stay({"queued", "identity_pending"}, {"extension_notified"})
        \cup Stay({"queued", "identity_pending", "decided", "actioned", "appealed"},
                  {"progress_communicated"})
        \cup Stay({"closed"}, {"purge_intent", "purged"})
        \cup Stay({"received", "decided"}, {"action_intent", "rules_committed"})
        \cup Stay({"appealed"}, {"reversal_intent"})

HasSuccessor(state, event) == \E m \in Moves : m[1] = state /\ m[2] = event

Successor(state, event) == (CHOOSE m \in Moves : m[1] = state /\ m[2] = event)[3]

PurgeDue(k, now) ==
    /\ HasSuccessor(k.state, "purge_intent")
    /\ k.pending = NoRow /\ ~k.purged
    /\ now >= k.closed + Retention

ExtensionWindow(k, now) == k.relevant <= now /\ now <= k.relevant + 1

\* decision_allowed; `known` are the tickets at that moment.
DecisionAllowed(k, dec, duplicate, known) ==
    /\ HasSuccessor(k.state, "decided")
    /\ dec = "not_intimate_image" => k.route = "intimate_images"
    /\ dec = "manifestly_unfounded" =>
        /\ k.route = "complaint"
        /\ duplicate \in DOMAIN known
        /\ known[duplicate].state = "closed" /\ known[duplicate].route = k.route

-----------------------------------------------------------------------------
Received(row) ==
    [route |-> row.route, recv |-> row.recv, state |-> "received",
     relevant |-> row.recv, evidence |-> "", extended |-> -1,
     dec |-> "", ground |-> "", pending |-> NoRow, provisional |-> FALSE,
     refs |-> 1, purged |-> FALSE, events |-> 1, last |-> row.at, closed |-> 0]

Guard(k, row) ==
    /\ k.pending # NoRow => row.event \in Completions
    /\ row.event = "acknowledged" /\ k.route = "intimate_images" => k.provisional
    /\ row.event = "action_intent" =>
        /\ \/ k.state = "received" /\ k.route = "intimate_images" /\ row.dec = ""
           \/ k.state = "decided" /\ row.dec = k.dec /\ k.dec \in {"granted", "not_intimate_image"}
        /\ row.ground # ""
        /\ row.eff >= k.recv
    /\ row.event = "extension_notified" =>
        /\ k.route = "data_rights"
        /\ k.extended # k.relevant
        /\ ExtensionWindow(k, row.at)
    /\ row.event = "purge_intent" => PurgeDue(k, row.at)
    /\ row.event = "closed" /\ k.state = "decided" => ~(k.dec = "granted" /\ k.ground # "")
    /\ row.event \in {"reversal_intent", "reversed", "actioned"} =>
        k.dec = "granted" /\ k.ground # ""

\* The request that a reply answers.
Answers(event) ==
    CASE event = "identity_confirmed"     -> "identity_requested"
      [] event = "clarification_received" -> "clarification_requested"
      [] OTHER                            -> ""

Evidence(k, row) ==
    LET request == row.event \in {"identity_requested", "clarification_requested"}
        reply   == Answers(row.event) # ""
    IN  /\ request \/ reply => k.route = "data_rights"
        /\ reply => k.evidence = Answers(row.event)

CompletionOf(intent) ==
    CASE intent.event = "reversal_intent" -> "reversed"
      [] intent.event = "purge_intent"    -> "purged"
      [] intent.dec = "granted"           -> "actioned"
      [] OTHER                            -> "rules_committed"

Operation(k, row) ==
    /\ row.event \in Intents => k.pending = NoRow /\ row.iseq = row.seq
    /\ row.event \in Completions =>
        /\ k.pending # NoRow
        /\ row.event = CompletionOf(k.pending)
        /\ row.iseq = k.pending.seq
        /\ row.ground = k.pending.ground /\ row.eff = k.pending.eff /\ row.dec = k.pending.dec

Reference(k, row) ==
    \/ row.pay \in {0, k.refs + 1}
    \/ row.pay \in 1..k.refs /\ row.event = "action_intent"

\* The conditions under which apply returns Ok ...
Accepts(k, row) ==
    /\ HasSuccessor(k.state, row.event)
    /\ row.route = k.route /\ row.recv = k.recv
    /\ row.state = Successor(k.state, row.event)
    /\ row.at >= k.last
    /\ ~k.purged
    /\ Guard(k, row) /\ Evidence(k, row) /\ Operation(k, row) /\ Reference(k, row)

\* ... and what it makes of the ticket.
Reduce(k, row) ==
    LET request == row.event \in {"identity_requested", "clarification_requested"}
        reply   == Answers(row.event) # ""
        decided == row.event = "decided"
    IN  [k EXCEPT
            !.state       = Successor(k.state, row.event),
            !.evidence    = IF request THEN row.event ELSE IF reply THEN "" ELSE @,
            !.relevant    = IF reply /\ row.at > @ THEN row.at ELSE @,
            !.extended    = IF row.event = "extension_notified" THEN k.relevant ELSE @,
            !.dec         = IF decided THEN row.dec ELSE @,
            !.ground      = IF decided THEN row.ground ELSE @,
            !.pending     = IF row.event \in Intents THEN row
                            ELSE IF row.event \in Completions THEN NoRow ELSE @,
            !.purged      = row.event = "purged",
            !.provisional = @ \/ (row.event = "rules_committed" /\ row.dec = ""),
            !.refs        = IF row.pay = @ + 1 THEN row.pay ELSE @,
            !.closed      = IF row.event = "closed" THEN row.at ELSE @,
            !.events      = @ + 1,
            !.last        = row.at]

Apply(k, row) ==
    IF k \notin {Unknown, Refused} /\ Accepts(k, row) THEN Reduce(k, row) ELSE Refused

=============================================================================
