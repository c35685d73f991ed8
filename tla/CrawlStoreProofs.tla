-------------------------- MODULE CrawlStoreProofs --------------------------
(* The journal's outcomes are final, raw bytes are managed and saved bodies *)
(* are on disk, for any targets, URLs and number of kills and failed writes.*)
EXTENDS CrawlStore, TLAPS

Bodies == [state : {"none", "pending", "retained", "deleted"}, kept : BOOLEAN,
           file : {"none", "staging", "final"}]

\* The task has been admitted and has not completed.
Running == {"fetch", "write", "stage", "publish", "seal", "purge", "mark", "remove",
            "acknowledge", "row", "complete"}

\* It holds LocalSink.io.
InSink == {"stage", "publish", "seal", "mark", "remove", "acknowledge"}

Steps == {"new", "admit", "project", "done", "lost"} \cup Running

Types ==
    /\ pc \in [Targets -> Steps]
    /\ row \in [Targets -> Terminal \cup {"none"}]
    /\ journal \in [Targets -> Terminal \cup {"none", "open"}]
    /\ disk \in [Targets -> Terminal \cup {"none", "open"}]
    /\ body \in [Targets -> Bodies]
    /\ cursor \in Targets \cup {NoTarget}

\* Before and after the crawl no target is handled.
StageInv == stage # "up" => \A t \in Targets : pc[t] \in {"new", "done", "lost"}

\* What is final on disk is so in memory; a target completes once.
LedgerInv ==
    \A t \in Targets :
        /\ disk[t] \in Terminal => journal[t] = disk[t]
        /\ pc[t] = "admit" => journal[t] = "none"
        /\ pc[t] \in Running => journal[t] = "open"

\* One task is in the sink.
IoInv == \A t \in Targets : pc[t] \in InSink => io = t

\* While a body is written its manifest is pending.
BodyInv ==
    \A t \in Targets :
        /\ body[t].file # "none" => body[t].state \in {"pending", "retained"}
        /\ pc[t] \in {"stage", "publish", "seal"} => body[t].state = "pending"
        /\ pc[t] = "seal" => body[t].file = "final"

\* A manifest that is being deleted is known as such before its object goes, and
\* its object is gone before the manifest says so.
CursorInv ==
    /\ \A t \in Targets :
        /\ pc[t] \in {"remove", "acknowledge"} => cursor \in Targets /\ body[cursor].kept = FALSE
        /\ pc[t] = "acknowledge" => body[cursor].file = "none"
    /\ cursor # NoTarget =>
        \/ \E t \in Targets : pc[t] \in {"remove", "acknowledge"}
        \/ Sweeping /\ body[cursor].file = "none"

\* A target that is saved, or is about to be, has its body unless that is due.
Promised(t) == journal[t] = "saved" \/ (pc[t] \in {"row", "complete"} /\ row[t] = "saved")

PromiseInv ==
    \A t \in Targets : Promised(t) /\ body[t].kept = TRUE /\ t \notin due =>
        body[t].state = "retained" /\ body[t].file = "final"

StoreInv == Types /\ StageInv /\ LedgerInv /\ IoInv /\ BodyInv /\ CursorInv /\ PromiseInv

Final == \A t \in Targets : disk[t] \in Terminal => disk'[t] = disk[t]

-----------------------------------------------------------------------------
\* The body of t alone goes from b to c.
Changed(b, c, t) == c \in [Targets -> Bodies] /\ \A u \in Targets \ {t} : c[u] = b[u]

-----------------------------------------------------------------------------
(* Tasks *)

(* A task that goes from step to step outside the sink.                    *)
LEMMA QuietKeeps ==
    ASSUME StoreInv, NEW t \in Targets, NEW p \in Steps \ InSink,
           stage = "up", UNCHANGED <<stage, journal, disk, io, cursor, body, due>>,
           pc[t] \notin InSink, pc' = [pc EXCEPT ![t] = p],
           p = "admit" => journal[t] = "none",
           p \in Running => journal[t] = "open",
           row' \in [Targets -> Terminal \cup {"none"}], \A u \in Targets \ {t} : row'[u] = row[u],
           p \in {"row", "complete"} /\ row'[t] = "saved" => Promised(t)
    PROVE  StoreInv' /\ Final
<1>1. pc' \in [Targets -> Steps] /\ pc'[t] = p /\ \A u \in Targets \ {t} : pc'[u] = pc[u]
    BY DEF StoreInv, Types
<1>2. Types' /\ StageInv' /\ Final
    BY <1>1 DEF StoreInv, Types, StageInv, Final
<1>3. LedgerInv'
    BY <1>1 DEF StoreInv, LedgerInv
<1>4. IoInv' /\ BodyInv'
    BY <1>1 DEF StoreInv, IoInv, BodyInv, InSink
<1>5. CursorInv'
  <2>1. \A u \in Targets : pc'[u] \in {"remove", "acknowledge"} <=> pc[u] \in {"remove", "acknowledge"}
      BY <1>1 DEF InSink
  <2>2. \A u \in Targets : pc'[u] = "acknowledge" <=> pc[u] = "acknowledge"
      BY <1>1 DEF InSink
  <2> QED
      BY <2>1, <2>2 DEF StoreInv, CursorInv, Sweeping
<1>6. PromiseInv'
    BY <1>1 DEF StoreInv, PromiseInv, Promised
<1> QED
    BY <1>2, <1>3, <1>4, <1>5, <1>6 DEF StoreInv

(* The task in the sink, which may change the body of v.                   *)
LEMMA SinkKeeps ==
    ASSUME StoreInv, NEW t \in Targets, NEW v \in Targets, NEW p \in Running,
           UNCHANGED <<stage, journal, disk, due>>,
           pc[t] \in Running, io \in {NoTarget, t}, pc' = [pc EXCEPT ![t] = p],
           p \in InSink => io' = t,
           row' \in [Targets -> Terminal \cup {"none"}], \A u \in Targets \ {t} : row'[u] = row[u],
           body' \in [Targets -> Bodies], \A u \in Targets \ {v} : body'[u] = body[u],
           body'[v].file # "none" => body'[v].state \in {"pending", "retained"},
           p \in {"stage", "publish", "seal"} => body'[t].state = "pending",
           p = "seal" => body'[t].file = "final",
           cursor' \in Targets \cup {NoTarget},
           cursor' # NoTarget => p \in {"remove", "acknowledge"},
           p \in {"remove", "acknowledge"} => cursor' \in Targets /\ body'[cursor'].kept = FALSE,
           p = "acknowledge" => body'[cursor'].file = "none",
           Promised(v) /\ body'[v].kept = TRUE /\ v \notin due =>
               body'[v].state = "retained" /\ body'[v].file = "final",
           p \in {"row", "complete"} /\ row'[t] = "saved" =>
               body'[t].state = "retained" /\ body'[t].file = "final"
    PROVE  StoreInv' /\ Final
<1>1. pc' \in [Targets -> Steps] /\ pc'[t] = p /\ \A u \in Targets \ {t} : pc'[u] = pc[u]
    BY DEF StoreInv, Types, Steps
<1>2. \A u \in Targets \ {t} : pc[u] \notin InSink
    BY StoreAssumption DEF StoreInv, IoInv
<1>3. stage = "up"
    BY DEF StoreInv, StageInv, Running
<1>4. Types' /\ StageInv' /\ Final
    BY <1>1, <1>3 DEF StoreInv, Types, StageInv, Final
<1>5. LedgerInv'
    BY <1>1 DEF StoreInv, LedgerInv, Running
<1>6. IoInv'
    BY <1>1, <1>2 DEF IoInv
<1>7. BodyInv'
    BY <1>1, <1>2 DEF StoreInv, BodyInv, InSink
<1>8. CursorInv'
    BY <1>1, <1>2 DEF CursorInv, InSink
<1>9. PromiseInv'
  <2> SUFFICES ASSUME NEW u \in Targets, Promised(u)', body'[u].kept = TRUE, u \notin due
               PROVE  body'[u].state = "retained" /\ body'[u].file = "final"
      BY DEF PromiseInv
  <2>1. CASE Promised(u)
      BY <2>1 DEF StoreInv, PromiseInv
  <2>2. CASE ~Promised(u)
    <3>1. u = t /\ p \in {"row", "complete"} /\ row'[t] = "saved"
        BY <1>1, <2>2 DEF Promised
    <3> QED
        BY <3>1
  <2> QED
      BY <2>1, <2>2
<1> QED
    BY <1>4, <1>5, <1>6, <1>7, <1>8, <1>9 DEF StoreInv

(* CheckLedger, Fetch, CancelTarget and Project leave journal and bodies.  *)
LEMMA StepsKeep ==
    ASSUME StoreInv, NEW t \in Targets,
           \/ CheckLedger(t) \/ CancelTarget(t) \/ Project(t)
           \/ \E result \in Results : Fetch(t, result)
    PROVE  StoreInv' /\ Final
<1>1. row \in [Targets -> Terminal \cup {"none"}]
    BY DEF StoreInv, Types
<1>2. pc[t] \in {"new", "row", "fetch", "project"} /\ pc[t] \notin InSink
    BY DEF CheckLedger, CancelTarget, Project, Fetch, InSink
<1>3. stage = "up"
    BY DEF CheckLedger, CancelTarget, Project, Fetch, StoreInv, StageInv
<1>4. UNCHANGED <<stage, journal, disk, io, cursor, body, due>>
    BY DEF CheckLedger, CancelTarget, Project, Fetch, Ready, ledger, sink
<1>5. pc[t] \in {"row", "fetch"} => journal[t] = "open"
    BY DEF StoreInv, LedgerInv, Running
<1>6. CASE CheckLedger(t) \/ Project(t)
  <2>1. \E p \in {"lost", "admit", "complete", "done"} :
            /\ pc' = [pc EXCEPT ![t] = p]
            /\ p = "admit" => journal[t] = "none"
            /\ p = "complete" => pc[t] = "row"
      BY <1>6 DEF CheckLedger, Project, Goto
  <2>2. PICK p \in {"lost", "admit", "complete", "done"} :
            /\ pc' = [pc EXCEPT ![t] = p]
            /\ p = "admit" => journal[t] = "none"
            /\ p = "complete" => pc[t] = "row"
      BY <2>1
  <2>3. row' = row
      BY <1>6 DEF CheckLedger, Project
  <2>4. p \in Steps \ InSink /\ (p \in Running => p = "complete")
      BY <2>2 DEF Steps, InSink, Running
  <2>5. p \in {"row", "complete"} /\ row'[t] = "saved" => Promised(t)
      BY <2>2, <2>3 DEF Promised
  <2> QED
      BY <1>1, <1>2, <1>3, <1>4, <1>5, <2>2, <2>3, <2>4, <2>5, QuietKeeps
<1>7. CASE CancelTarget(t) \/ \E result \in Results : Fetch(t, result)
  <2>1. \E p \in {"row", "write", "purge"}, o \in {"cancelled", "other"} :
            /\ pc' = [pc EXCEPT ![t] = p]
            /\ IF p = "row" THEN row' = [row EXCEPT ![t] = o] ELSE row' = row
      BY <1>7 DEF CancelTarget, Fetch, Ready, Goto
  <2>2. PICK p \in {"row", "write", "purge"}, o \in {"cancelled", "other"} :
            /\ pc' = [pc EXCEPT ![t] = p]
            /\ IF p = "row" THEN row' = [row EXCEPT ![t] = o] ELSE row' = row
      BY <2>1
  <2>3. p \in Steps \ InSink /\ p \in Running /\ p # "admit" /\ p # "complete"
      BY <2>2 DEF Steps, InSink, Running
  <2>4. /\ row' \in [Targets -> Terminal \cup {"none"}]
        /\ \A u \in Targets \ {t} : row'[u] = row[u]
        /\ p = "row" => row'[t] # "saved"
      BY <1>1, <2>2 DEF Terminal
  <2>5. pc[t] = "fetch"
      BY <1>7 DEF CancelTarget, Fetch
  <2> QED
      BY <1>2, <1>3, <1>4, <1>5, <2>2, <2>3, <2>4, <2>5, QuietKeeps
<1> QED
    BY <1>6, <1>7

(* A target that is admitted or completed is not final on disk before.     *)
LEMMA LedgerKeeps ==
    ASSUME StoreInv, NEW t \in Targets, Admit(t) \/ Complete(t)
    PROVE  StoreInv' /\ Final
<1> DEFINE value   == IF pc[t] = "admit" THEN "open" ELSE row[t]
           changed == [journal EXCEPT ![t] = value]
<1>1. pc[t] \in {"admit", "complete"} /\ stage = "up"
    BY DEF Admit, Complete, StoreInv, StageInv
<1>2. journal[t] \in {"none", "open"} /\ disk[t] \notin Terminal
    BY <1>1 DEF StoreInv, LedgerInv, Running, Terminal
<1>3. UNCHANGED <<stage, row, io, cursor, body, due>> /\ journal' = changed /\ disk' \in {disk, changed}
    BY DEF Admit, Complete, Persist, PersistFails, sink
<1>4. changed \in [Targets -> Terminal \cup {"none", "open"}] /\ changed[t] = value
      /\ \A u \in Targets \ {t} : changed[u] = journal[u]
    BY DEF StoreInv, Types
<1> HIDE DEF changed
<1>5. PICK p \in {"fetch", "project", "lost"} :
        pc' = [pc EXCEPT ![t] = p] /\ (p = "fetch" => pc[t] = "admit")
    BY DEF Admit, Complete, Goto
<1>6. pc' \in [Targets -> Steps] /\ pc'[t] = p /\ \A u \in Targets \ {t} : pc'[u] = pc[u]
    BY <1>5 DEF StoreInv, Types, Steps, Running
<1>7. Types' /\ StageInv'
    BY <1>1, <1>3, <1>4, <1>6 DEF StoreInv, Types, StageInv
<1>8. Final
    BY <1>2, <1>3, <1>4 DEF StoreInv, LedgerInv, Final
<1>9. LedgerInv'
  <2>1. ASSUME NEW u \in Targets \ {t}
        PROVE  /\ disk'[u] \in Terminal => journal'[u] = disk'[u]
               /\ pc'[u] = "admit" => journal'[u] = "none"
               /\ pc'[u] \in Running => journal'[u] = "open"
      BY <1>3, <1>4, <1>6 DEF StoreInv, LedgerInv
  <2>2. disk'[t] \in Terminal => journal'[t] = disk'[t]
      BY <1>2, <1>3
  <2>3. pc'[t] # "admit" /\ (pc'[t] \in Running => journal'[t] = "open")
      BY <1>1, <1>3, <1>4, <1>5, <1>6 DEF Running
  <2> QED
      BY <2>1, <2>2, <2>3 DEF LedgerInv
<1>10. \A u \in Targets : (pc'[u] \in InSink <=> pc[u] \in InSink) /\ (pc'[u] \in InSink => pc'[u] = pc[u])
    BY <1>1, <1>5, <1>6 DEF InSink
<1>11. IoInv' /\ BodyInv' /\ CursorInv'
    BY <1>3, <1>10 DEF StoreInv, IoInv, BodyInv, CursorInv, InSink, Sweeping
<1>12. PromiseInv'
  <2>1. \A u \in Targets : Promised(u)' => Promised(u)
      BY <1>1, <1>3, <1>4, <1>5, <1>6 DEF Promised
  <2> QED
      BY <1>3, <2>1 DEF StoreInv, PromiseInv
<1> QED
    BY <1>7, <1>8, <1>9, <1>11, <1>12 DEF StoreInv

(* The task that may enter, or is in, the sink finds the cursor unused.    *)
LEMMA SinkFree ==
    ASSUME StoreInv, NEW t \in Targets, pc[t] \in Running, io \in {NoTarget, t},
           pc[t] \notin {"remove", "acknowledge"}
    PROVE  cursor = NoTarget /\ journal[t] = "open"
<1>1. journal[t] = "open" /\ ~Sweeping
    BY DEF StoreInv, LedgerInv, StageInv, Running, Sweeping
<1>2. \A u \in Targets : pc[u] \notin {"remove", "acknowledge"}
    BY StoreAssumption DEF StoreInv, IoInv, InSink
<1> QED
    BY <1>1, <1>2 DEF StoreInv, CursorInv

(* A step of write_durable.                                                *)
LEMMA WritesKeep ==
    ASSUME StoreInv, NEW t \in Targets, WritePending(t) \/ WriteStaging(t) \/ Publish(t) \/ Seal(t)
    PROVE  StoreInv' /\ Final
<1>1. /\ pc[t] \in {"write", "stage", "publish", "seal"} /\ pc[t] \in Running
      /\ UNCHANGED <<stage, journal, disk, due, cursor>>
    BY DEF WritePending, WriteStaging, Publish, Seal, Running, ledger
<1>2. io \in {NoTarget, t}
    BY DEF WritePending, WriteStaging, Publish, Seal, StoreInv, IoInv, InSink
<1>3. cursor = NoTarget /\ cursor' = NoTarget /\ journal[t] = "open"
    BY <1>1, <1>2, SinkFree
<1>4. ~Promised(t)
    BY <1>1, <1>3 DEF Promised
<1>5. row \in [Targets -> Terminal \cup {"none"}] /\ body \in [Targets -> Bodies]
    BY DEF StoreInv, Types
<1>6. \E b \in [Targets -> Bodies] :
        /\ Changed(body, b, t)
        /\ b[t].state \in {"pending", "retained"}
        /\ \/ /\ body' \in {body, b} /\ WriteFails(t)
           \/ /\ body' = b /\ UNCHANGED row /\ io' = t /\ b[t].state = "pending"
              /\ \E p \in {"stage", "publish", "seal"} : Goto(t, p) /\ (p = "seal" => b[t].file = "final")
           \/ /\ body' = b /\ Ready(t, "saved") /\ b[t].state = "retained" /\ b[t].file = "final"
  <2>1. CASE WritePending(t)
    <3> DEFINE b == [body EXCEPT ![t] = [state |-> "pending", kept |-> TRUE, file |-> "none"]]
    <3>1. b \in [Targets -> Bodies] /\ Changed(body, b, t) /\ b[t].state = "pending"
        BY <1>5 DEF Bodies, Changed
    <3>2. \/ body' \in {body, b} /\ WriteFails(t)
          \/ body' = b /\ UNCHANGED row /\ io' = t /\ Goto(t, "stage")
        BY <2>1 DEF WritePending
    <3> HIDE DEF b
    <3> QED
        BY <3>1, <3>2
  <2>2. CASE WriteStaging(t)
    <3> DEFINE b == [body EXCEPT ![t].file = "staging"]
    <3>1. Changed(body, b, t) /\ b[t].state = body[t].state
        BY <1>5 DEF Bodies, Changed
    <3>2. body[t].state = "pending" /\ io = t
        BY <2>2 DEF WriteStaging, StoreInv, BodyInv, IoInv, InSink
    <3>3. \/ body' \in {body, b} /\ WriteFails(t)
          \/ body' = b /\ UNCHANGED <<row, io>> /\ Goto(t, "publish")
        BY <2>2 DEF WriteStaging
    <3> HIDE DEF b
    <3> QED
        BY <3>1, <3>2, <3>3 DEF Changed
  <2>3. CASE Publish(t)
    <3> DEFINE b == [body EXCEPT ![t].file = "final"]
    <3>1. Changed(body, b, t) /\ b[t].state = body[t].state /\ b[t].file = "final"
        BY <1>5 DEF Bodies, Changed
    <3>2. body[t].state = "pending" /\ io = t
        BY <2>3 DEF Publish, StoreInv, BodyInv, IoInv, InSink
    <3>3. \/ body' \in {body, b} /\ WriteFails(t)
          \/ body' = b /\ UNCHANGED <<row, io>> /\ Goto(t, "seal")
        BY <2>3 DEF Publish
    <3> HIDE DEF b
    <3> QED
        BY <3>1, <3>2, <3>3 DEF Changed
  <2>4. CASE Seal(t)
    <3> DEFINE b == [body EXCEPT ![t].state = "retained"]
    <3>1. Changed(body, b, t) /\ b[t].state = "retained" /\ b[t].file = body[t].file
        BY <1>5 DEF Bodies, Changed
    <3>2. body[t].file = "final"
        BY <2>4 DEF Seal, StoreInv, BodyInv
    <3>3. \/ body' \in {body, b} /\ WriteFails(t)
          \/ body' = b /\ Ready(t, "saved")
        BY <2>4 DEF Seal
    <3> HIDE DEF b
    <3> QED
        BY <3>1, <3>2, <3>3 DEF Changed
  <2> QED
      BY <2>1, <2>2, <2>3, <2>4
<1>7. PICK b \in [Targets -> Bodies] :
        /\ Changed(body, b, t)
        /\ b[t].state \in {"pending", "retained"}
        /\ \/ /\ body' \in {body, b} /\ WriteFails(t)
           \/ /\ body' = b /\ UNCHANGED row /\ io' = t /\ b[t].state = "pending"
              /\ \E p \in {"stage", "publish", "seal"} : Goto(t, p) /\ (p = "seal" => b[t].file = "final")
           \/ /\ body' = b /\ Ready(t, "saved") /\ b[t].state = "retained" /\ b[t].file = "final"
    BY <1>6
<1>8. /\ body' \in [Targets -> Bodies] /\ \A u \in Targets \ {t} : body'[u] = body[u]
      /\ body'[t].file # "none" => body'[t].state \in {"pending", "retained"}
    BY <1>5, <1>7 DEF Changed, StoreInv, BodyInv
<1>9. CASE WriteFails(t)
  <2>1. pc' = [pc EXCEPT ![t] = "row"] /\ row' = [row EXCEPT ![t] = "failed"]
      BY <1>9 DEF WriteFails, Ready, Goto
  <2>2. /\ row' \in [Targets -> Terminal \cup {"none"}] /\ \A u \in Targets \ {t} : row'[u] = row[u]
        /\ row'[t] # "saved" /\ "row" \in Running /\ "row" \notin InSink
      BY <1>5, <2>1 DEF Terminal, Running, InSink
  <2> QED
      BY <1>1, <1>2, <1>3, <1>4, <1>8, <2>1, <2>2, SinkKeeps
<1>10. CASE /\ body' = b /\ UNCHANGED row /\ io' = t /\ b[t].state = "pending"
            /\ \E p \in {"stage", "publish", "seal"} : Goto(t, p) /\ (p = "seal" => b[t].file = "final")
  <2>1. PICK p \in {"stage", "publish", "seal"} : pc' = [pc EXCEPT ![t] = p] /\ (p = "seal" => b[t].file = "final")
      BY <1>10 DEF Goto
  <2>2. p \in Running
      BY DEF Running
  <2> QED
      BY <1>1, <1>2, <1>3, <1>4, <1>5, <1>8, <1>10, <2>1, <2>2, SinkKeeps
<1>11. CASE body' = b /\ Ready(t, "saved") /\ b[t].state = "retained" /\ b[t].file = "final"
  <2>1. pc' = [pc EXCEPT ![t] = "row"] /\ row' = [row EXCEPT ![t] = "saved"]
      BY <1>11 DEF Ready, Goto
  <2>2. /\ row' \in [Targets -> Terminal \cup {"none"}] /\ \A u \in Targets \ {t} : row'[u] = row[u]
        /\ "row" \in Running /\ "row" \notin InSink
      BY <1>5, <2>1 DEF Terminal, Running, InSink
  <2> QED
      BY <1>1, <1>2, <1>3, <1>4, <1>8, <1>11, <2>1, <2>2, SinkKeeps
<1> QED
    BY <1>7, <1>9, <1>10, <1>11

(* A purge or sweep never brings an object without manifest about, and     *)
(* what it marks is not to be kept.                                        *)
LEMMA Purged ==
    ASSUME body \in [Targets -> Bodies], NEW u \in Targets
    PROVE  /\ LET c == [body EXCEPT ![u].kept = FALSE]
              IN  Changed(body, c, u) /\ c[u].file = body[u].file /\ c[u].state = body[u].state
                  /\ c[u].kept = FALSE
           /\ LET c == [body EXCEPT ![u].file = "none"]
              IN  Changed(body, c, u) /\ c[u].file = "none" /\ c[u].kept = body[u].kept
           /\ LET c == Deleted(u)
              IN  Changed(body, c, u) /\ c[u].file = body[u].file /\ c[u].kept = FALSE
           /\ LET c == [body EXCEPT ![u].state = "deleted"]
              IN  Changed(body, c, u) /\ c[u].file = body[u].file /\ c[u].kept = body[u].kept
BY DEF Bodies, Changed, Deleted

(* A step of LocalSink::purge.                                             *)
LEMMA PurgesKeep ==
    ASSUME StoreInv, NEW t \in Targets,
           \/ PurgeBegin(t) \/ PurgeRemove(t) \/ PurgeAcknowledge(t) \/ PurgeEnd(t)
           \/ \E u \in Targets : PurgeMark(t, u)
    PROVE  StoreInv' /\ Final
<1>1. /\ pc[t] \in {"purge", "mark", "remove", "acknowledge"} /\ pc[t] \in Running
      /\ UNCHANGED <<stage, journal, disk, due>>
    BY DEF PurgeBegin, PurgeRemove, PurgeAcknowledge, PurgeEnd, PurgeMark, Running, ledger
<1>2. io \in {NoTarget, t}
    BY DEF PurgeBegin, PurgeRemove, PurgeAcknowledge, PurgeEnd, PurgeMark, StoreInv, IoInv, InSink
<1>3. /\ row \in [Targets -> Terminal \cup {"none"}] /\ body \in [Targets -> Bodies]
      /\ cursor \in Targets \cup {NoTarget}
    BY DEF StoreInv, Types
<1>4. pc[t] \in {"purge", "mark"} => cursor = NoTarget
    BY <1>1, <1>2, SinkFree
<1>5. ASSUME NEW outcome \in {"failed", "unretained"}, Ready(t, outcome), NEW v \in Targets,
             cursor' = NoTarget, body' \in [Targets -> Bodies], \A u \in Targets \ {v} : body'[u] = body[u],
             body'[v].file # "none" => body'[v].state \in {"pending", "retained"},
             body'[v] = body[v] \/ body'[v].kept = FALSE
      PROVE  StoreInv' /\ Final
  <2>1. pc' = [pc EXCEPT ![t] = "row"] /\ row' = [row EXCEPT ![t] = outcome]
      BY <1>5 DEF Ready, Goto
  <2>2. /\ row' \in [Targets -> Terminal \cup {"none"}] /\ \A u \in Targets \ {t} : row'[u] = row[u]
        /\ row'[t] # "saved" /\ "row" \in Running /\ "row" \notin InSink
      BY <1>3, <2>1 DEF Terminal, Running, InSink
  <2>3. Promised(v) /\ body'[v].kept = TRUE /\ v \notin due => body'[v].state = "retained" /\ body'[v].file = "final"
      BY <1>5 DEF StoreInv, PromiseInv
  <2> QED
      BY <1>1, <1>2, <1>5, <2>1, <2>2, <2>3, SinkKeeps
<1>6. ASSUME NEW p \in {"mark", "remove", "acknowledge"}, Goto(t, p), UNCHANGED row, io' = t, NEW v \in Targets,
             cursor' \in Targets \cup {NoTarget}, cursor' # NoTarget => p \in {"remove", "acknowledge"},
             body' \in [Targets -> Bodies], \A u \in Targets \ {v} : body'[u] = body[u],
             body'[v].file # "none" => body'[v].state \in {"pending", "retained"},
             body'[v] = body[v] \/ body'[v].kept = FALSE,
             p \in {"remove", "acknowledge"} => cursor' = v /\ body'[v].kept = FALSE,
             p = "acknowledge" => body'[v].file = "none"
      PROVE  StoreInv' /\ Final
  <2>1. pc' = [pc EXCEPT ![t] = p] /\ p \in Running
      BY <1>6 DEF Goto, Running
  <2>2. Promised(v) /\ body'[v].kept = TRUE /\ v \notin due => body'[v].state = "retained" /\ body'[v].file = "final"
      BY <1>6 DEF StoreInv, PromiseInv
  <2> QED
      BY <1>1, <1>2, <1>3, <1>6, <2>1, <2>2, SinkKeeps
<1>7. \A u \in Targets : body[u].file # "none" => body[u].state \in {"pending", "retained"}
    BY DEF StoreInv, BodyInv
<1>8. CASE PurgeBegin(t)
  <2>1. UNCHANGED <<body, cursor>> /\ cursor = NoTarget
      BY <1>4, <1>8 DEF PurgeBegin
  <2>2. \/ Ready(t, "failed")
        \/ Goto(t, "mark") /\ UNCHANGED row /\ io' = t
      BY <1>8 DEF PurgeBegin
  <2> QED
      BY <1>3, <1>5, <1>6, <1>7, <2>1, <2>2
<1>9. CASE PurgeEnd(t)
  <2>1. UNCHANGED <<body, cursor>> /\ cursor = NoTarget /\ Ready(t, "unretained")
      BY <1>4, <1>9 DEF PurgeEnd
  <2> QED
      BY <1>3, <1>5, <1>7, <2>1
<1>10. CASE \E u \in Targets : PurgeMark(t, u)
  <2>1. PICK u \in Targets : PurgeMark(t, u)
      BY <1>10
  <2> DEFINE c == [body EXCEPT ![u].kept = FALSE]
  <2>2. Changed(body, c, u) /\ c[u].file = body[u].file /\ c[u].state = body[u].state /\ c[u].kept = FALSE
      BY <1>3, Purged
  <2>3. \/ body' = c /\ cursor' = u /\ Goto(t, "remove") /\ UNCHANGED row /\ io' = io /\ io = t
        \/ body' \in {body, c} /\ cursor' = NoTarget /\ Ready(t, "failed")
      BY <2>1 DEF PurgeMark, PurgeFails, WriteFails, StoreInv, IoInv, InSink
  <2> HIDE DEF c
  <2>4. /\ body' \in [Targets -> Bodies] /\ \A w \in Targets \ {u} : body'[w] = body[w]
        /\ body'[u].file # "none" => body'[u].state \in {"pending", "retained"}
        /\ body'[u] = body[u] \/ body'[u].kept = FALSE
      BY <1>3, <1>7, <2>2, <2>3 DEF Changed
  <2> QED
      BY <1>5, <1>6, <2>2, <2>3, <2>4
<1>11. CASE PurgeRemove(t)
  <2>1. cursor \in Targets /\ body[cursor].kept = FALSE /\ io = t
      BY <1>11 DEF PurgeRemove, StoreInv, CursorInv, IoInv, InSink
  <2> DEFINE c == [body EXCEPT ![cursor].file = "none"]
  <2>2. Changed(body, c, cursor) /\ c[cursor].file = "none" /\ c[cursor].kept = FALSE
      BY <1>3, <2>1, Purged
  <2>3. \/ body' = c /\ cursor' = cursor /\ Goto(t, "acknowledge") /\ UNCHANGED row /\ io' = io
        \/ body' = body /\ cursor' = NoTarget /\ Ready(t, "failed")
      BY <1>11 DEF PurgeRemove, PurgeFails, WriteFails, RemoveObjects
  <2> HIDE DEF c
  <2>4. /\ body' \in [Targets -> Bodies] /\ \A w \in Targets \ {cursor} : body'[w] = body[w]
        /\ body'[cursor].file # "none" => body'[cursor].state \in {"pending", "retained"}
        /\ body'[cursor].kept = FALSE
      BY <1>3, <1>7, <2>1, <2>2, <2>3 DEF Changed
  <2> QED
      BY <1>5, <1>6, <2>1, <2>2, <2>3, <2>4
<1>12. CASE PurgeAcknowledge(t)
  <2>1. cursor \in Targets /\ body[cursor].kept = FALSE /\ io = t /\ body[cursor].file = "none"
      BY <1>12 DEF PurgeAcknowledge, StoreInv, CursorInv, IoInv, InSink
  <2>2. LET c == Deleted(cursor)
        IN  Changed(body, c, cursor) /\ c[cursor].file = "none" /\ c[cursor].kept = FALSE
      BY <1>3, <2>1, Purged
  <2>3. /\ body' \in {body, Deleted(cursor)} /\ cursor' = NoTarget
        /\ \/ Goto(t, "mark") /\ UNCHANGED row /\ io' = io
           \/ Ready(t, "failed")
      BY <1>12 DEF PurgeAcknowledge, PurgeFails, WriteFails
  <2>4. /\ body' \in [Targets -> Bodies] /\ \A w \in Targets \ {cursor} : body'[w] = body[w]
        /\ body'[cursor].file = "none" /\ body'[cursor].kept = FALSE
      BY <1>3, <2>1, <2>2, <2>3 DEF Changed
  <2> QED
      BY <1>5, <1>6, <2>1, <2>3, <2>4
<1> QED
    BY <1>8, <1>9, <1>10, <1>11, <1>12

-----------------------------------------------------------------------------
(* Sweeps and the process *)

(* A step while no target is handled.                                      *)
LEMMA RestKeeps ==
    ASSUME StoreInv, due' = due,
           pc' \in [Targets -> Steps], \A t \in Targets : pc'[t] \in {"new", "done", "lost"},
           row' \in [Targets -> Terminal \cup {"none"}],
           journal' \in [Targets -> Terminal \cup {"none", "open"}],
           disk' \in [Targets -> Terminal \cup {"none", "open"}],
           \A t \in Targets : disk'[t] \in Terminal => journal'[t] = disk'[t],
           \A t \in Targets : journal'[t] = "saved" => journal[t] = "saved",
           Final,
           body' \in [Targets -> Bodies],
           \A t \in Targets : body'[t] # body[t] =>
               /\ body'[t].file # "none" => body'[t].state \in {"pending", "retained"}
               /\ ~(Promised(t) /\ body'[t].kept = TRUE /\ t \notin due),
           cursor' \in Targets \cup {NoTarget},
           cursor' # NoTarget => Sweeping' /\ body'[cursor'].file = "none"
    PROVE  StoreInv'
<1>1. Types' /\ StageInv'
    BY DEF Types, StageInv
<1>2. LedgerInv'
    BY DEF LedgerInv, Running
<1>3. IoInv'
    BY DEF IoInv, InSink
<1>4. BodyInv'
    BY DEF StoreInv, BodyInv
<1>5. CursorInv'
    BY DEF CursorInv
<1>6. PromiseInv'
    BY DEF StoreInv, PromiseInv, Promised
<1> QED
    BY <1>1, <1>2, <1>3, <1>4, <1>5, <1>6 DEF StoreInv

(* Without a task in the sink the cursor is the sweep's.                   *)
LEMMA RestFacts ==
    ASSUME StoreInv, \A t \in Targets : pc[t] \in {"new", "done", "lost", "fetch"}
    PROVE  cursor # NoTarget => Sweeping /\ body[cursor].file = "none"
BY DEF StoreInv, CursorInv

(* A step of retention::run.                                               *)
LEMMA SweepKeeps ==
    ASSUME StoreInv, Sweep
    PROVE  StoreInv' /\ Final
<1>1. Sweeping /\ UNCHANGED <<pc, row, journal, disk, due>>
    BY DEF Sweep, SweepSkip, SweepPending, SweepRemove, SweepAcknowledge, SweepEnd, ledger, sink
<1>2. \A t \in Targets : pc[t] \in {"new", "done", "lost"}
    BY <1>1 DEF StoreInv, StageInv, Sweeping
<1>3. /\ cursor # NoTarget => body[cursor].file = "none"
      /\ cursor \in Targets \cup {NoTarget} /\ body \in [Targets -> Bodies]
    BY <1>2, RestFacts DEF StoreInv, Types
<1>4. Final
    BY <1>1 DEF Final
<1>5. ASSUME body' \in [Targets -> Bodies],
             \A t \in Targets : body'[t] # body[t] =>
                 /\ body'[t].file # "none" => body'[t].state \in {"pending", "retained"}
                 /\ ~(Promised(t) /\ body'[t].kept = TRUE /\ t \notin due),
             cursor' \in Targets \cup {NoTarget},
             cursor' # NoTarget => Sweeping' /\ body'[cursor'].file = "none"
      PROVE  StoreInv'
  <2>1. /\ pc' \in [Targets -> Steps] /\ \A t \in Targets : pc'[t] \in {"new", "done", "lost"}
        /\ row' \in [Targets -> Terminal \cup {"none"}]
        /\ journal' \in [Targets -> Terminal \cup {"none", "open"}]
        /\ disk' \in [Targets -> Terminal \cup {"none", "open"}]
        /\ \A t \in Targets : disk'[t] \in Terminal => journal'[t] = disk'[t]
      BY <1>1, <1>2 DEF StoreInv, Types, LedgerInv
  <2> QED
      BY <1>1, <1>4, <1>5, <2>1, RestKeeps
<1>6. \A t \in Targets : Promised(t) /\ body[t].kept = TRUE /\ t \notin due =>
          body[t].state = "retained" /\ body[t].file = "final"
    BY DEF StoreInv, PromiseInv
<1>7. CASE SweepEnd \/ \E t \in Targets : SweepSkip(t)
  <2>1. body' = body /\ cursor' = NoTarget
      BY <1>7 DEF SweepEnd, SweepSkip, sink
  <2> QED
      BY <1>3, <1>4, <1>5, <2>1
<1>8. CASE \E t \in Targets : SweepPending(t)
  <2>1. PICK t \in Targets : SweepPending(t)
      BY <1>8
  <2> DEFINE c == [body EXCEPT ![t].state = "deleted"]
  <2>2. Changed(body, c, t) /\ c[t].file = body[t].file /\ c[t].kept = body[t].kept
      BY <1>3, Purged
  <2>3. body' \in {body, c} /\ body[t].file = "none" /\ body[t].state = "pending" /\ cursor' = NoTarget
      BY <2>1 DEF SweepPending
  <2> HIDE DEF c
  <2>4. /\ body' \in [Targets -> Bodies]
        /\ \A u \in Targets : body'[u] # body[u] => u = t /\ body'[u].file = "none" /\ body'[u].kept = body[t].kept
      BY <1>3, <2>2, <2>3 DEF Changed
  <2> QED
      BY <1>4, <1>5, <1>6, <2>3, <2>4
<1>9. CASE \E t \in Targets : SweepRemove(t)
  <2>1. PICK t \in Targets : SweepRemove(t)
      BY <1>9
  <2> DEFINE c == [body EXCEPT ![t].file = "none"]
  <2>2. Changed(body, c, t) /\ c[t].file = "none" /\ c[t].kept = body[t].kept
      BY <1>3, Purged
  <2>3. \/ body' = c /\ cursor' = t /\ stage' = stage
        \/ body' = body /\ cursor' = NoTarget
      BY <2>1 DEF SweepRemove, RemoveObjects
  <2>4. ~(Promised(t) /\ body[t].kept = TRUE /\ t \notin due)
    <3>1. t \in due \/ ~body[t].kept \/ body[t].state # "retained"
        BY <2>1 DEF SweepRemove, IsDue
    <3>2. ~body[t].kept => ~(body[t].kept = TRUE)
        OBVIOUS
    <3> QED
        BY <1>6, <3>1, <3>2
  <2> HIDE DEF c
  <2>5. /\ body' \in [Targets -> Bodies]
        /\ \A u \in Targets : body'[u] # body[u] => u = t /\ body'[u].file = "none" /\ body'[u].kept = body[t].kept
      BY <1>3, <2>2, <2>3 DEF Changed
  <2>6. cursor' # NoTarget => Sweeping' /\ body'[cursor'].file = "none"
      BY <1>1, <2>2, <2>3 DEF Sweeping
  <2> QED
      BY <1>4, <1>5, <2>3, <2>4, <2>5, <2>6
<1>10. CASE SweepAcknowledge
  <2>1. cursor \in Targets /\ body[cursor].file = "none"
      BY <1>3, <1>10 DEF SweepAcknowledge
  <2>2. LET c == Deleted(cursor)
        IN  Changed(body, c, cursor) /\ c[cursor].file = "none" /\ c[cursor].kept = FALSE
      BY <1>3, <2>1, Purged
  <2>3. body' \in {body, Deleted(cursor)} /\ cursor' = NoTarget
      BY <1>10 DEF SweepAcknowledge
  <2>4. /\ body' \in [Targets -> Bodies]
        /\ \A u \in Targets : body'[u] # body[u] => body'[u].file = "none" /\ body'[u].kept = FALSE
      BY <1>3, <2>2, <2>3 DEF Changed
  <2> QED
      BY <1>4, <1>5, <2>3, <2>4
<1> QED
    BY <1>7, <1>8, <1>9, <1>10 DEF Sweep

(* The process starts, recovers, stops or is killed.                       *)
LEMMA ProcessKeeps ==
    ASSUME StoreInv, Open \/ Recover \/ Rebuild \/ Close \/ Finish \/ Exit \/ Kill
    PROVE  StoreInv' /\ Final
<1>1. body' = body /\ due' = due
    BY DEF Open, Recover, Rebuild, Close, Finish, Exit, Kill, sink
<1>2. /\ pc \in [Targets -> Steps] /\ row \in [Targets -> Terminal \cup {"none"}]
      /\ journal \in [Targets -> Terminal \cup {"none", "open"}]
      /\ disk \in [Targets -> Terminal \cup {"none", "open"}]
      /\ body \in [Targets -> Bodies] /\ cursor \in Targets \cup {NoTarget}
      /\ \A t \in Targets : disk[t] \in Terminal => journal[t] = disk[t]
    BY DEF StoreInv, Types, LedgerInv
<1>3. CASE Open \/ Exit \/ Kill
  <2>1. FreshMemory /\ disk' = disk
      BY <1>3 DEF Open, Exit, Kill
  <2>2. /\ pc' \in [Targets -> Steps] /\ \A t \in Targets : pc'[t] \in {"new", "done", "lost"}
        /\ row' \in [Targets -> Terminal \cup {"none"}]
        /\ journal' = disk /\ cursor' = NoTarget
      BY <2>1 DEF FreshMemory, Steps
  <2>3. Final /\ \A t \in Targets : journal'[t] = "saved" => journal[t] = "saved"
      BY <1>2, <2>1, <2>2 DEF Final, Terminal
  <2> QED
      BY <1>1, <1>2, <2>1, <2>2, <2>3, RestKeeps
<1>4. CASE Recover \/ Rebuild \/ Close \/ Finish
  <2>1. /\ \A t \in Targets : pc[t] \in {"new", "done", "lost"}
        /\ ~Sweeping /\ UNCHANGED <<pc, row, cursor>>
      BY <1>4 DEF Recover, Rebuild, Close, Finish, StoreInv, StageInv, Sweeping, sink
  <2>2. cursor' = NoTarget
      BY <2>1, RestFacts
  <2>3. /\ journal' \in [Targets -> Terminal \cup {"none", "open"}]
        /\ disk' \in [Targets -> Terminal \cup {"none", "open"}]
        /\ \A t \in Targets : disk'[t] \in Terminal => journal'[t] = disk'[t]
        /\ \A t \in Targets : journal'[t] = "saved" => journal[t] = "saved"
        /\ Final
    <3>1. CASE Recover
      <4> DEFINE recovered == [t \in Targets |-> IF disk[t] = "open" THEN "cancelled" ELSE disk[t]]
      <4>1. journal' = recovered /\ disk' \in {disk, recovered}
          BY <3>1 DEF Recover
      <4>2. recovered \in [Targets -> Terminal \cup {"none", "open"}]
          BY <1>2 DEF Terminal
      <4>3. \A t \in Targets : recovered[t] = IF disk[t] = "open" THEN "cancelled" ELSE disk[t]
          OBVIOUS
      <4> HIDE DEF recovered
      <4> QED
          BY <1>2, <4>1, <4>2, <4>3 DEF Final, Terminal
    <3>2. CASE Rebuild \/ Close \/ Finish
      <4>1. UNCHANGED <<journal, disk>>
          BY <3>2 DEF Rebuild, Close, Finish, ledger
      <4> QED
          BY <1>2, <4>1 DEF Final
    <3> QED
        BY <1>4, <3>1, <3>2
  <2> QED
      BY <1>1, <1>2, <2>1, <2>2, <2>3, RestKeeps
<1> QED
    BY <1>3, <1>4

(* A raw deadline passes, and less is promised; or nothing happens.        *)
LEMMA ExpireKeeps ==
    ASSUME StoreInv, (\E t \in Targets : Expire(t)) \/ UNCHANGED vars
    PROVE  StoreInv' /\ Final
<1>1. /\ UNCHANGED <<stage, pc, row, journal, disk, io, cursor, body>>
      /\ due \subseteq due'
    BY DEF Expire, vars, ledger, sink
<1>2. Types' /\ StageInv' /\ LedgerInv' /\ IoInv' /\ BodyInv' /\ CursorInv' /\ Final
    BY <1>1 DEF StoreInv, Types, StageInv, LedgerInv, IoInv, BodyInv, CursorInv, Sweeping, Final
<1>3. PromiseInv'
    BY <1>1 DEF StoreInv, PromiseInv, Promised
<1> QED
    BY <1>2, <1>3 DEF StoreInv

(* Every step keeps the invariant and the outcomes on disk.                *)
LEMMA NextKeeps ==
    ASSUME StoreInv, [Next]_vars
    PROVE  StoreInv' /\ Final
<1>1. CASE \E t \in Targets : TaskNext(t)
    BY <1>1, StepsKeep, LedgerKeeps, WritesKeep, PurgesKeep DEF TaskNext
<1>2. CASE (\E t \in Targets : Expire(t)) \/ UNCHANGED vars
    BY <1>2, ExpireKeeps
<1>3. CASE Sweep
    BY <1>3, SweepKeeps
<1>4. CASE Open \/ Recover \/ Rebuild \/ Close \/ Finish \/ Exit \/ Kill
    BY <1>4, ProcessKeeps
<1> QED
    BY <1>1, <1>2, <1>3, <1>4 DEF Next

(* A new store.                                                            *)
LEMMA InitInv ==
    ASSUME Init
    PROVE  StoreInv
<1>1. \A t \in Targets : /\ pc[t] = "new" /\ journal[t] = "none" /\ disk[t] = "none"
                         /\ body[t].file = "none"
    BY DEF Init
<1>2. Types
    BY DEF Init, Types, Steps, Bodies
<1>3. StageInv /\ LedgerInv /\ IoInv /\ BodyInv
    BY <1>1 DEF StageInv, LedgerInv, IoInv, BodyInv, Running, InSink, Terminal
<1>4. CursorInv /\ PromiseInv
    BY <1>1 DEF Init, CursorInv, PromiseInv, Promised
<1> QED
    BY <1>2, <1>3, <1>4 DEF StoreInv

(* The inductive invariant of the store, across failed writes and kills.   *)
THEOREM StoreInvariant == Spec => []StoreInv
<1>1. Init => StoreInv
    BY InitInv
<1>2. StoreInv /\ [Next]_vars => StoreInv'
    BY NextKeeps
<1> QED
    BY <1>1, <1>2, PTL DEF Spec

(* An outcome that the durable journal of ledger.rs holds is never         *)
(* replaced, however many writes fail and processes die.                   *)
THEOREM OutcomesAreFinal == Spec => OutcomeFinal
<1>1. StoreInv /\ [Next]_vars => [\A t \in Targets : disk[t] \in Terminal => disk'[t] = disk[t]]_vars
    BY NextKeeps DEF Final
<1> QED
    BY <1>1, StoreInvariant, PTL DEF Spec, OutcomeFinal

(* Interrupted raw writes and purges of local_sink.rs leave no object      *)
(* without a manifest that accounts for it.                                *)
THEOREM RawIsManaged == Spec => []RawManaged
<1>1. StoreInv => RawManaged
    BY DEF StoreInv, BodyInv, RawManaged
<1> QED
    BY <1>1, StoreInvariant, PTL

(* A body the journal calls saved is retained under its final name, unless *)
(* it was purged or its deadline has passed.                               *)
THEOREM SavedBodiesAreOnDisk == Spec => []SavedBodyOnDisk
<1>1. StoreInv => SavedBodyOnDisk
  <2> SUFFICES ASSUME StoreInv, NEW t \in Targets, disk[t] = "saved", body[t].kept, t \notin due
               PROVE  body[t].state = "retained" /\ body[t].file = "final"
      BY DEF SavedBodyOnDisk
  <2>1. Promised(t)
      BY DEF StoreInv, LedgerInv, Promised, Terminal
  <2>2. body[t].kept \in BOOLEAN
      BY DEF StoreInv, Types, Bodies
  <2>3. body[t].kept = TRUE
      BY <2>2
  <2> QED
      BY <2>1, <2>3 DEF StoreInv, PromiseInv
<1> QED
    BY <1>1, StoreInvariant, PTL

-----------------------------------------------------------------------------
(* Complete runs *)

\* As long as no write of the ledger has failed, memory and disk agree.
RowInv ==
    /\ poisoned \in BOOLEAN
    /\ stage # "down" /\ poisoned = FALSE => disk = journal
    /\ stage = "complete" =>
        /\ poisoned = FALSE
        /\ \A t \in Targets : journal[t] # "none" => journal[t] \in Terminal /\ lines[t] = 1

(* A task works only in stage "up".                                        *)
LEMMA TaskRows ==
    ASSUME StoreInv, RowInv, NEW t \in Targets, TaskNext(t)
    PROVE  RowInv'
<1>1. stage = "up" /\ stage' = stage
  <2>1. CheckLedger(t) => stage = "up"
      BY DEF CheckLedger
  <2>2. ~CheckLedger(t) => pc[t] \notin {"new", "done", "lost"}
      BY DEF TaskNext, Admit, Complete, Project, Fetch, CancelTarget, WritePending, WriteStaging,
             Publish, Seal, PurgeBegin, PurgeMark, PurgeRemove, PurgeAcknowledge, PurgeEnd
  <2>3. stage' = stage
      BY DEF TaskNext, CheckLedger, Admit, Complete, Project, Fetch, CancelTarget, WritePending,
             WriteStaging, Publish, Seal, PurgeBegin, PurgeMark, PurgeRemove, PurgeAcknowledge, PurgeEnd
  <2> QED
      BY <2>1, <2>2, <2>3 DEF StoreInv, StageInv
<1>2. CASE Admit(t) \/ Complete(t)
  <2>1. poisoned' = TRUE \/ (poisoned' = poisoned /\ disk' = journal')
      BY <1>2 DEF Admit, Complete, Persist, PersistFails
  <2> QED
      BY <1>1, <2>1 DEF RowInv
<1>3. CASE ~(Admit(t) \/ Complete(t))
  <2>1. UNCHANGED <<journal, disk>> /\ (poisoned' = TRUE \/ poisoned' = poisoned)
      BY <1>3 DEF TaskNext, CheckLedger, Project, Fetch, CancelTarget, WritePending, WriteStaging,
             Publish, Seal, PurgeBegin, PurgeMark, PurgeRemove, PurgeAcknowledge, PurgeEnd, ledger
  <2> QED
      BY <1>1, <2>1 DEF RowInv
<1> QED
    BY <1>2, <1>3

(* Ledger::finish reports a run complete only when every row is in place.  *)
LEMMA RowsKept ==
    ASSUME StoreInv, RowInv, [Next]_vars
    PROVE  RowInv'
<1>1. CASE \E t \in Targets : TaskNext(t)
    BY <1>1, TaskRows
<1>2. CASE Sweep
  <2>1. Sweeping /\ stage' \in {stage, "down", "recover", "check"} /\ UNCHANGED <<journal, disk, poisoned>>
      BY <1>2 DEF Sweep, SweepSkip, SweepPending, SweepRemove, SweepAcknowledge, SweepEnd, ledger
  <2> QED
      BY <2>1 DEF RowInv, Sweeping
<1>3. CASE Open \/ Exit \/ Kill
  <2>1. journal' = disk /\ disk' = disk /\ stage' \in {"down", "sweep"} /\ poisoned' = FALSE
      BY <1>3 DEF Open, Exit, Kill, FreshMemory
  <2> QED
      BY <2>1 DEF RowInv
<1>4. CASE Recover
  <2>1. stage' = "down" \/ (stage' = "rebuild" /\ disk' = journal')
      BY <1>4 DEF Recover
  <2>2. poisoned' = poisoned
      BY <1>4 DEF Recover
  <2> QED
      BY <2>1, <2>2 DEF RowInv
<1>5. CASE Rebuild \/ Close
  <2>1. /\ UNCHANGED <<journal, disk, poisoned>> /\ stage \in {"rebuild", "up"}
        /\ stage' \in {"up", "down", "closing"}
      BY <1>5 DEF Rebuild, Close, ledger
  <2> QED
      BY <2>1 DEF RowInv
<1>6. CASE Finish
  <2>1. UNCHANGED <<journal, disk, poisoned, lines>> /\ stage = "check" /\ stage' \in {"complete", "down"}
      BY <1>6 DEF Finish, ledger
  <2>2. stage' = "complete" =>
          /\ ~poisoned
          /\ \A t \in Targets : journal[t] # "none" => journal[t] \in Terminal /\ lines[t] = 1
      BY <1>6 DEF Finish
  <2>3. poisoned \in BOOLEAN
      BY DEF RowInv
  <2> QED
      BY <2>1, <2>2, <2>3 DEF RowInv
<1>7. CASE (\E t \in Targets : Expire(t)) \/ UNCHANGED vars
  <2>1. UNCHANGED <<stage, journal, disk, poisoned, lines>>
      BY <1>7 DEF Expire, vars, ledger
  <2> QED
      BY <2>1 DEF RowInv
<1> QED
    BY <1>1, <1>2, <1>3, <1>4, <1>5, <1>6, <1>7 DEF Next

(* ledger.rs: a run that is reported complete has exactly one durable      *)
(* terminal row for each target ever admitted.                             *)
THEOREM CompleteRuns == Spec => []CompleteMeansOneRow
<1>1. Init => RowInv
    BY DEF Init, RowInv
<1>2. StoreInv /\ RowInv /\ [Next]_vars => RowInv'
    BY RowsKept
<1>3. RowInv => CompleteMeansOneRow
    BY DEF RowInv, CompleteMeansOneRow
<1> QED
    BY <1>1, <1>2, <1>3, StoreInvariant, PTL DEF Spec

=============================================================================
