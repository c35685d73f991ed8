----------------------------- MODULE IngestProofs ---------------------------
(* What the register promises holds for any documents, clients, retention, *)
(* capacity and number of kills and failed writes, whatever the backend    *)
(* answers.                                                                *)
EXTENDS IngestRegister, FiniteSetTheorems, TLAPS

Snapshots == [Ids -> Entry \cup {NoEntry}]
Digests   == {s.body : s \in Submissions}
Requests  == [id : Ids, body : Digests, recv : 0..MaxTime]

\* A transaction that has recorded its version: the entry it sends, or has sent, is
\* in the register and not yet acknowledged.
InFlight ==
    /\ tx.step \in {"send", "complete"}
    /\ up /\ ~unavailable
    /\ tx.id \in Ids /\ tx.at \in 0..now
    /\ entries[tx.id] \in Entry
    /\ entries[tx.id].body = tx.body /\ entries[tx.id].acked = FALSE

RequestsInv ==
    /\ pc \in [Clients -> {"idle", "received", "queued", "waiting"}]
    /\ req \in [Clients -> Requests \cup {NoReq}]
    /\ \A c \in Clients : pc[c] \in {"received", "queued"} => req[c] \in Requests /\ req[c].recv <= now

ClosingInv ==
    /\ stopping \in {"closed", "stopped"} => closed
    /\ stopping = "stopped" => tx = NoTx

DownInv == ~up => tasks = <<>> /\ stopping = "no" /\ \A c \in Clients : pc[c] = "idle"

SnapshotsInv ==
    /\ disk \in Snapshots /\ entries \in Snapshots
    /\ up /\ ~unavailable => entries = disk
    /\ Loads(disk)

RegisterInv ==
    /\ now \in 0..MaxTime /\ faults \in Nat
    /\ SnapshotsInv
    /\ tx = NoTx \/ InFlight
    /\ RequestsInv
    /\ ClosingInv /\ DownInv

\* What VersionsKept says of one change of the snapshot.
Follows(old, new) ==
    \A i \in Stored(old) :
        \/ Expired(old[i], now)
        \/ new[i] = old[i]
        \/ new[i] = [old[i] EXCEPT !.acked = TRUE]
        \/ new[i].version = old[i].version + 1 /\ ~new[i].acked

-----------------------------------------------------------------------------
(* An entry is never the absent one.                                       *)
LEMMA EntryFacts ==
    ASSUME NEW e \in Entry
    PROVE  /\ e # NoEntry /\ e.version \in Nat \ {0} /\ e.version \in 1..MaxVersion
           /\ e.recv \in 0..MaxTime /\ e.acked \in BOOLEAN /\ e.body \in Digests
           /\ [e EXCEPT !.acked = TRUE] \in Entry
           /\ [e EXCEPT !.acked = TRUE].recv = e.recv
<1>1. e.version \in 1..MaxVersion /\ e.recv \in 0..MaxTime /\ e.acked \in BOOLEAN /\ e.body \in Digests
    BY DEF Entry, Digests
<1>2. NoEntry.version = 0
    BY DEF NoEntry
<1>3. e.version \in Nat \ {0} /\ e # NoEntry
    BY <1>1, <1>2, RegisterAssumption
<1>4. [e EXCEPT !.acked = TRUE] \in Entry /\ [e EXCEPT !.acked = TRUE].recv = e.recv
    BY DEF Entry
<1> QED
    BY <1>1, <1>3, <1>4

(* Removing expired entries leaves a snapshot that follows the old one and *)
(* is loaded wherever the old one is.                                      *)
LEMMA RetainedFacts ==
    ASSUME NEW s \in Snapshots, NEW at \in 0..now, now \in 0..MaxTime
    PROVE  /\ Retained(s, at) \in Snapshots
           /\ \A i \in Ids : Retained(s, at)[i] = s[i]
                             \/ (Retained(s, at)[i] = NoEntry /\ Expired(s[i], now))
           /\ Follows(s, Retained(s, at))
           /\ Stored(Retained(s, at)) \subseteq Stored(s)
<1>1. Retained(s, at) \in Snapshots
    BY DEF Retained, Snapshots
<1>2. ASSUME NEW i \in Ids
      PROVE  Retained(s, at)[i] = s[i] \/ (Retained(s, at)[i] = NoEntry /\ Expired(s[i], now))
  <2>1. CASE s[i] = NoEntry
      BY <2>1 DEF Retained
  <2>2. CASE s[i] # NoEntry
    <3>1. s[i] \in Entry /\ s[i].recv \in 0..MaxTime
        BY <2>2, EntryFacts DEF Snapshots
    <3>2. Expired(s[i], at) => Expired(s[i], now)
        BY <3>1, RegisterAssumption DEF Expired
    <3> QED
        BY <2>2, <3>2 DEF Retained
  <2> QED
      BY <2>1, <2>2
<1>3. Follows(s, Retained(s, at)) /\ Stored(Retained(s, at)) \subseteq Stored(s)
    BY <1>2 DEF Follows, Stored
<1> QED
    BY <1>1, <1>2, <1>3

(* A snapshot that stores no more, with the same receipts, loads too.      *)
LEMMA FewerLoad ==
    ASSUME NEW s \in Snapshots, NEW t \in Snapshots, Loads(s), Stored(t) \subseteq Stored(s),
           \A i \in Stored(t) : t[i].recv = s[i].recv
    PROVE  Loads(t)
<1>1. IsFiniteSet(Stored(s)) /\ IsFiniteSet(Stored(t))
    BY FS_Subset, RegisterAssumption DEF Stored
<1>2. Cardinality(Stored(t)) <= Cardinality(Stored(s))
    BY <1>1, FS_Subset
<1>3. Cardinality(Stored(t)) \in Nat /\ Cardinality(Stored(s)) \in Nat
    BY <1>1, FS_CardinalityType
<1>4. Cardinality(Stored(t)) <= MaxEntries
    BY <1>2, <1>3, RegisterAssumption DEF Loads
<1>5. ASSUME NEW i \in Stored(t) PROVE t[i].version > 0 /\ t[i].recv <= now
  <2>1. t[i] \in Entry
      BY DEF Stored, Snapshots
  <2>2. s[i].recv <= now /\ t[i].recv = s[i].recv
      BY DEF Loads
  <2>3. t[i].version \in Nat \ {0}
      BY <2>1, EntryFacts
  <2> QED
      BY <2>2, <2>3
<1> QED
    BY <1>4, <1>5 DEF Loads

(* The snapshot with a new version in it follows the one on disk.          *)
LEMMA RecordedFacts ==
    ASSUME RegisterInv, up, ~unavailable,
           NEW r \in Requests, r.recv <= now, HasCapacity(r), ~Retry(r)
    PROVE  /\ Recorded(r) \in Snapshots /\ Loads(Recorded(r)) /\ Follows(disk, Recorded(r))
           /\ r.id \in Ids /\ Recorded(r)[r.id] \in Entry
           /\ Recorded(r)[r.id].body = r.body /\ Recorded(r)[r.id].acked = FALSE
<1> DEFINE kept == Retained(entries, now)
           new  == [body |-> r.body, version |-> kept[r.id].version + 1, recv |-> r.recv, acked |-> FALSE]
<1>1. now \in 0..MaxTime /\ now \in 0..now /\ entries \in Snapshots /\ entries = disk /\ Loads(entries)
    BY DEF RegisterInv, SnapshotsInv
<1>2. /\ kept \in Snapshots
      /\ \A i \in Ids : kept[i] = entries[i] \/ (kept[i] = NoEntry /\ Expired(entries[i], now))
      /\ Stored(kept) \subseteq Stored(entries)
    BY <1>1, RetainedFacts
<1>3. r.id \in Ids /\ r.body \in Digests /\ r.recv \in 0..MaxTime
    BY DEF Requests
<1>4. kept[r.id].version \in Nat
  <2>1. CASE kept[r.id] = NoEntry
      BY <2>1 DEF NoEntry
  <2>2. CASE kept[r.id] \in Entry
      BY <2>2, EntryFacts
  <2> QED
      BY <1>2, <1>3, <2>1, <2>2 DEF Snapshots
<1>5. kept[r.id].version < MaxVersion /\ Cardinality(Stored(Recorded(r))) <= MaxEntries
    BY DEF HasCapacity, Known
<1>6. kept[r.id].version + 1 \in 1..MaxVersion
    BY <1>4, <1>5, RegisterAssumption
<1>7. new \in Entry
    BY <1>3, <1>6 DEF Entry, Digests
<1>8. Recorded(r) = [kept EXCEPT ![r.id] = new]
    BY DEF Recorded
<1>9. Recorded(r) \in Snapshots /\ Recorded(r)[r.id] = new /\ \A i \in Ids \ {r.id} : Recorded(r)[i] = kept[i]
    BY <1>2, <1>3, <1>7, <1>8 DEF Snapshots
<1>10. Loads(Recorded(r))
  <2>1. ASSUME NEW i \in Stored(Recorded(r)) PROVE Recorded(r)[i].version > 0 /\ Recorded(r)[i].recv <= now
    <3>1. CASE i = r.id
        BY <3>1, <1>9, <1>7, <1>6, <1>4
    <3>2. CASE i # r.id
      <4>1. i \in Ids /\ kept[i] # NoEntry /\ Recorded(r)[i] = kept[i]
          BY <3>2, <1>9 DEF Stored
      <4>2. kept[i] = entries[i] /\ i \in Stored(entries)
          BY <4>1, <1>2 DEF Stored
      <4> QED
          BY <4>1, <4>2, <1>1 DEF Loads
    <3> QED
        BY <3>1, <3>2
  <2> QED
      BY <1>5, <2>1 DEF Loads
<1>11. ASSUME NEW i \in Stored(disk)
       PROVE  \/ Expired(disk[i], now)
              \/ Recorded(r)[i] = disk[i]
              \/ Recorded(r)[i].version = disk[i].version + 1 /\ ~Recorded(r)[i].acked
  <2>1. i \in Ids
      BY DEF Stored
  <2>2. CASE i # r.id
      BY <2>1, <2>2, <1>1, <1>2, <1>9
  <2>3. CASE i = r.id
      BY <2>3, <2>1, <1>1, <1>2, <1>9
  <2> QED
      BY <2>2, <2>3
<1> QED
    BY <1>3, <1>7, <1>9, <1>10, <1>11 DEF Follows

(* So does the one with the acknowledgement.                               *)
LEMMA CompletedFacts ==
    ASSUME RegisterInv, InFlight,
           NEW s, s = [Retained(entries, tx.at) EXCEPT ![tx.id] = [entries[tx.id] EXCEPT !.acked = TRUE]]
    PROVE  s \in Snapshots /\ Loads(s) /\ Follows(disk, s)
<1> DEFINE kept == Retained(entries, tx.at)
           new  == [entries[tx.id] EXCEPT !.acked = TRUE]
<1>1. now \in 0..MaxTime /\ tx.at \in 0..now /\ entries \in Snapshots /\ entries = disk /\ Loads(entries)
    BY DEF RegisterInv, SnapshotsInv, InFlight
<1>2. /\ kept \in Snapshots
      /\ \A i \in Ids : kept[i] = entries[i] \/ (kept[i] = NoEntry /\ Expired(entries[i], now))
      /\ Stored(kept) \subseteq Stored(entries)
    BY <1>1, RetainedFacts
<1>3. tx.id \in Ids /\ entries[tx.id] \in Entry
    BY DEF InFlight
<1>4. new \in Entry /\ new.recv = entries[tx.id].recv /\ entries[tx.id] # NoEntry
    BY <1>3, EntryFacts
<1>5. s \in Snapshots /\ s[tx.id] = new /\ \A i \in Ids \ {tx.id} : s[i] = kept[i]
    BY <1>2, <1>3, <1>4 DEF Snapshots
<1>6. Stored(s) \subseteq Stored(entries) /\ \A i \in Stored(s) : s[i].recv = entries[i].recv
    BY <1>2, <1>3, <1>4, <1>5 DEF Stored
<1>7. Loads(s)
    BY ONLY <1>1, <1>5, <1>6, FewerLoad
<1>8. Follows(disk, s)
    BY <1>1, <1>2, <1>5 DEF Follows, Stored
<1> QED
    BY <1>5, <1>7, <1>8

(* A write of such a snapshot, however it ends, keeps memory and disk in   *)
(* step unless the register becomes unavailable.                           *)
LEMMA PersistFacts ==
    ASSUME RegisterInv, up, ~unavailable, now' = now, up' = up,
           NEW s \in Snapshots, Loads(s), Follows(disk, s), Persist(s)
    PROVE  /\ SnapshotsInv' /\ Follows(disk, disk') /\ faults' \in Nat
           /\ faults' = faults => entries' = s /\ ~unavailable'
<1>1. entries = disk /\ disk \in Snapshots /\ Loads(disk) /\ faults \in Nat
    BY DEF RegisterInv, SnapshotsInv
<1>2. Follows(disk, disk)
    BY DEF Follows
<1>3. Loads(s)' /\ Loads(disk)' = (Cardinality(Stored(disk')) <= MaxEntries
          /\ \A i \in Stored(disk') : disk'[i].version > 0 /\ disk'[i].recv <= now)
    BY DEF Loads, Stored
<1>4. disk' \in {disk, s} /\ faults' \in Nat
    BY <1>1 DEF Persist, Fault
<1>5. Loads(disk)' /\ disk' \in Snapshots /\ Follows(disk, disk')
    BY <1>1, <1>2, <1>3, <1>4 DEF Loads
<1>6. entries' \in Snapshots /\ (~unavailable' => entries' = disk')
    BY <1>1 DEF Persist
<1>7. faults' = faults => entries' = s /\ ~unavailable'
    BY <1>1 DEF Persist, Fault
<1> QED
    BY <1>4, <1>5, <1>6, <1>7 DEF SnapshotsInv

(* Nothing is lost by a step that leaves snapshot, memory and transaction. *)
LEMMA UnmovedFacts ==
    ASSUME RegisterInv, UNCHANGED <<now, disk, up, entries, unavailable, tx, faults>>
    PROVE  /\ now' \in 0..MaxTime /\ faults' \in Nat /\ SnapshotsInv'
           /\ (tx = NoTx \/ InFlight)' /\ Follows(disk, disk')
<1>1. now' \in 0..MaxTime /\ faults' \in Nat
    BY DEF RegisterInv
<1>2. SnapshotsInv'
    BY DEF RegisterInv, SnapshotsInv, Loads, Stored
<1>3. (tx = NoTx \/ InFlight)'
    BY DEF RegisterInv, InFlight
<1>4. Follows(disk, disk')
    BY DEF Follows
<1> QED
    BY <1>1, <1>2, <1>3, <1>4

-----------------------------------------------------------------------------
(* Init *)

(* The empty register satisfies the invariant.                             *)
LEMMA InitInv == Init => RegisterInv
<1> SUFFICES ASSUME Init PROVE RegisterInv
    OBVIOUS
<1>1. now \in 0..MaxTime /\ faults \in Nat /\ tx = NoTx
    BY RegisterAssumption DEF Init
<1>2. Stored(disk) = {} /\ Cardinality({}) = 0
    BY FS_EmptySet DEF Init, Stored
<1>3. SnapshotsInv
  <2>1. Loads(disk)
    <3>1. Cardinality(Stored(disk)) <= MaxEntries
        BY ONLY <1>2, RegisterAssumption
    <3> QED
        BY ONLY <1>2, <3>1 DEF Loads
  <2> QED
      BY <2>1 DEF Init, SnapshotsInv, Snapshots
<1>4. RequestsInv /\ ClosingInv /\ DownInv
    BY DEF Init, RequestsInv, ClosingInv, DownInv
<1> QED
    BY <1>1, <1>3, <1>4 DEF RegisterInv

\* What each action has to show.
Kept ==
    /\ RegisterInv'
    /\ Follows(disk, disk')
    /\ up /\ stopping = "stopped" => disk' = disk /\ tx = NoTx

(* Submit, when it does not refuse, leaves a version that is owed.         *)
LEMMA RecordKeeps ==
    ASSUME RegisterInv, up, ~unavailable, tx = NoTx, now' = now, up' = up,
           NEW r \in Requests, r.recv <= now, ~Ended(r), Record(r)
    PROVE  /\ SnapshotsInv' /\ faults' \in Nat /\ Follows(disk, disk')
           /\ (tx = NoTx \/ InFlight)'
<1>1. now \in 0..MaxTime /\ now \in 0..now /\ entries \in Snapshots /\ r.id \in Ids
    BY DEF RegisterInv, SnapshotsInv, Requests
<1>2. CASE UNCHANGED <<disk, entries, unavailable, faults, tx>>
    BY <1>2, UnmovedFacts
<1>3. CASE HasCapacity(r) /\ Retry(r) /\ Sends(r) /\ UNCHANGED <<disk, entries, unavailable, faults>>
  <2>1. Known(r) = entries[r.id] /\ Known(r) # NoEntry /\ entries[r.id].body = r.body
      BY <1>1, <1>3, RetainedFacts DEF Retry, Known
  <2>2. entries[r.id] \in Entry /\ entries[r.id].acked = FALSE
    <3>1. entries[r.id] \in Entry
        BY <1>1, <2>1 DEF Snapshots
    <3>2. entries[r.id].acked \in BOOLEAN
        BY <3>1, EntryFacts
    <3>3. ~entries[r.id].acked
        BY <1>3, <2>1 DEF Ended
    <3> QED
        BY <3>1, <3>2, <3>3
  <2>3. InFlight'
      BY <1>1, <1>3, <2>1, <2>2 DEF InFlight, Sends
  <2>4. SnapshotsInv' /\ faults' \in Nat /\ Follows(disk, disk')
      BY <1>3 DEF RegisterInv, SnapshotsInv, Loads, Stored, Follows
  <2> QED
      BY <2>3, <2>4
<1>4. CASE /\ HasCapacity(r) /\ ~Retry(r) /\ Persist(Recorded(r))
           /\ IF faults' = faults THEN Sends(r) ELSE UNCHANGED tx
  <2>1. /\ Recorded(r) \in Snapshots /\ Loads(Recorded(r)) /\ Follows(disk, Recorded(r))
        /\ Recorded(r)[r.id] \in Entry
        /\ Recorded(r)[r.id].body = r.body /\ Recorded(r)[r.id].acked = FALSE
      BY <1>4, RecordedFacts
  <2>2. /\ SnapshotsInv' /\ Follows(disk, disk') /\ faults' \in Nat
        /\ faults' = faults => entries' = Recorded(r) /\ ~unavailable'
      BY <1>4, <2>1, PersistFacts
  <2>3. faults' = faults => InFlight'
      BY <1>1, <1>4, <2>1, <2>2 DEF InFlight, Sends
  <2> QED
      BY <1>4, <2>2, <2>3
<1> QED
    BY <1>2, <1>3, <1>4 DEF Record

(* A request ends, or its transaction is spawned.                          *)
LEMMA SubmitKeeps ==
    ASSUME RegisterInv, NEW c \in Clients, Submit(c)
    PROVE  Kept
<1>1. /\ up /\ tx = NoTx /\ now' = now /\ up' = up /\ now \in 0..MaxTime
      /\ req[c] \in Requests /\ req[c].recv <= now
    BY DEF RegisterInv, RequestsInv, DownInv, Submit
<1>2. RequestsInv' /\ DownInv'
    BY <1>1 DEF RegisterInv, RequestsInv, DownInv, Submit
<1>3. CASE UNCHANGED <<disk, entries, unavailable, faults, tx>>
  <2>1. ClosingInv'
      BY <1>3 DEF RegisterInv, ClosingInv, Submit
  <2> QED
      BY <1>1, <1>2, <1>3, <2>1, UnmovedFacts DEF Kept, RegisterInv
<1>4. CASE ~Ended(req[c]) /\ Record(req[c])
  <2>1. ~unavailable /\ ~closed
      BY <1>4 DEF Ended
  <2>2. /\ SnapshotsInv' /\ faults' \in Nat /\ Follows(disk, disk')
        /\ (tx = NoTx \/ InFlight)'
      BY <1>1, <1>4, <2>1, RecordKeeps
  <2>3. stopping \notin {"closed", "stopped"} /\ ClosingInv'
      BY <2>1 DEF RegisterInv, ClosingInv, Submit
  <2> QED
      BY <1>1, <1>2, <2>2, <2>3 DEF Kept, RegisterInv
<1> QED
    BY <1>3, <1>4 DEF Submit

(* The acknowledgement is recorded, or the register is unavailable.        *)
LEMMA CompleteKeeps ==
    ASSUME RegisterInv, Complete
    PROVE  Kept
<1> DEFINE done == [Retained(entries, tx.at) EXCEPT ![tx.id] = [entries[tx.id] EXCEPT !.acked = TRUE]]
<1>1. tx # NoTx
    BY DEF Complete, NoTx
<1>2. InFlight /\ stopping # "stopped"
    BY <1>1 DEF RegisterInv, ClosingInv
<1>3. up /\ ~unavailable /\ now' = now /\ up' = up /\ tx' = NoTx /\ now \in 0..MaxTime /\ Persist(done)
    BY <1>2 DEF RegisterInv, InFlight, Complete, Ends
<1>4. done \in Snapshots /\ Loads(done) /\ Follows(disk, done)
    BY ONLY RegisterInv, <1>2, CompletedFacts
<1>5. SnapshotsInv' /\ Follows(disk, disk') /\ faults' \in Nat
  <2> HIDE DEF done
  <2> QED
      BY ONLY RegisterInv, <1>3, <1>4, PersistFacts
<1>6. RequestsInv' /\ ClosingInv' /\ DownInv'
    BY <1>2, <1>3 DEF RegisterInv, RequestsInv, ClosingInv, DownInv, Complete, Ends
<1> QED
    BY ONLY <1>2, <1>3, <1>5, <1>6 DEF Kept, RegisterInv

(* Expired entries leave snapshot and memory together.                     *)
LEMMA SweepKeeps ==
    ASSUME RegisterInv, Sweep
    PROVE  Kept
<1> DEFINE retained == Retained(entries, now)
<1>1. up /\ tx = NoTx /\ tx' = NoTx /\ now' = now /\ up' = up /\ now \in 0..MaxTime /\ now \in 0..now
    BY DEF RegisterInv, DownInv, Sweep
<1>2. RequestsInv' /\ ClosingInv' /\ DownInv'
    BY <1>1 DEF RegisterInv, RequestsInv, ClosingInv, DownInv, Sweep
<1>3. CASE UNCHANGED <<disk, entries, unavailable, faults>>
    BY <1>1, <1>2, <1>3, UnmovedFacts DEF Kept, RegisterInv
<1>4. CASE ~unavailable /\ ~closed /\ ~UNCHANGED <<disk, entries, unavailable, faults>>
  <2>1. entries = disk /\ disk \in Snapshots /\ Loads(disk) /\ faults \in Nat
      BY <1>1, <1>4 DEF RegisterInv, SnapshotsInv
  <2>2. retained \in Snapshots /\ Loads(retained) /\ Follows(disk, retained)
    <3>1. /\ retained \in Snapshots /\ Follows(disk, retained)
          /\ Stored(retained) \subseteq Stored(disk)
          /\ \A i \in Stored(retained) : retained[i].recv = disk[i].recv
        BY <1>1, <2>1, RetainedFacts DEF Stored
    <3> QED
        BY <2>1, <3>1, FewerLoad
  <2>3. Persist(retained)
      BY <1>4, <2>1 DEF Sweep, Persist
  <2>4. SnapshotsInv' /\ Follows(disk, disk') /\ faults' \in Nat
      BY <1>1, <1>4, <2>2, <2>3, PersistFacts
  <2>5. stopping # "stopped"
      BY <1>4 DEF RegisterInv, ClosingInv
  <2> QED
      BY <1>1, <1>2, <2>4, <2>5 DEF Kept, RegisterInv
<1> QED
    BY <1>3, <1>4 DEF Sweep

(* A kill loses the memory and nothing else.                               *)
LEMMA StopKeeps ==
    ASSUME RegisterInv, Stop
    PROVE  Kept
<1>1. now' = now /\ disk' = disk /\ ~up' /\ tx' = NoTx /\ now \in 0..MaxTime
    BY DEF RegisterInv, Stop, NoMemory
<1>2. faults' \in Nat
    BY DEF RegisterInv, Stop, Fault
<1>3. SnapshotsInv'
  <2>1. disk' \in Snapshots /\ Loads(disk)'
      BY <1>1 DEF RegisterInv, SnapshotsInv, Loads, Stored
  <2>2. entries' \in Snapshots
      BY DEF Stop, NoMemory, Snapshots
  <2> QED
      BY <1>1, <2>1, <2>2 DEF SnapshotsInv
<1>4. RequestsInv' /\ ClosingInv' /\ DownInv'
    BY DEF Stop, NoMemory, RequestsInv, ClosingInv, DownInv
<1>5. Follows(disk, disk') /\ (stopping = "stopped" => tx = NoTx)
    BY <1>1 DEF Follows, RegisterInv, ClosingInv
<1> QED
    BY <1>1, <1>2, <1>3, <1>4, <1>5 DEF Kept, RegisterInv

(* A start reads the snapshot, or is killed before or after pruning it.    *)
LEMMA OpenKeeps ==
    ASSUME RegisterInv, Open
    PROVE  Kept
<1> DEFINE retained == Retained(disk, now)
<1>1. /\ ~up /\ now' = now /\ now \in 0..MaxTime /\ now \in 0..now
      /\ disk \in Snapshots /\ entries \in Snapshots /\ Loads(disk) /\ faults \in Nat
    BY DEF RegisterInv, SnapshotsInv, Open
<1>2. tx = NoTx /\ tx' = NoTx
    BY <1>1 DEF RegisterInv, InFlight, Open
<1>3. /\ retained \in Snapshots /\ Follows(disk, retained)
      /\ Stored(retained) \subseteq Stored(disk)
      /\ \A i \in Stored(retained) : retained[i].recv = disk[i].recv
    BY <1>1, RetainedFacts DEF Stored
<1>4. Loads(retained)
    BY <1>1, <1>3, FewerLoad
<1>5. disk' \in {disk, retained} /\ faults' \in Nat
    BY <1>1 DEF Open, Fault
<1>6. Follows(disk, disk') /\ disk' \in Snapshots /\ Loads(disk')
  <2>1. Follows(disk, disk)
      BY DEF Follows
  <2> QED
      BY <1>1, <1>3, <1>4, <1>5, <2>1
<1>7. SnapshotsInv'
  <2>1. Loads(disk)'
      BY <1>1, <1>6 DEF Loads, Stored
  <2>2. entries' \in Snapshots /\ (up' => entries' = disk')
      BY <1>1, <1>3 DEF Open
  <2> QED
      BY <1>6, <2>1, <2>2 DEF SnapshotsInv
<1>8. RequestsInv' /\ ClosingInv' /\ DownInv'
    BY <1>1, <1>2 DEF RegisterInv, RequestsInv, ClosingInv, DownInv, Open
<1> QED
    BY <1>1, <1>2, <1>5, <1>6, <1>7, <1>8 DEF Kept, RegisterInv

(* Time passes: what has been received is no later than now.               *)
LEMMA TickKeeps ==
    ASSUME RegisterInv, Tick
    PROVE  Kept
<1>1. now \in 0..MaxTime /\ now' \in 0..MaxTime /\ now' = now + 1
    BY RegisterAssumption DEF RegisterInv, Tick
<1>2. /\ disk' = disk /\ entries' = entries /\ up' = up /\ unavailable' = unavailable
      /\ tx' = tx /\ faults' = faults /\ pc' = pc /\ req' = req /\ tasks' = tasks
      /\ stopping' = stopping /\ closed' = closed
    BY DEF Tick, memory
<1>3. SnapshotsInv'
  <2>1. disk' \in Snapshots /\ entries' \in Snapshots /\ ((up /\ ~unavailable => entries = disk)')
      BY <1>2 DEF RegisterInv, SnapshotsInv
  <2>2. disk \in Snapshots /\ Loads(disk)
      BY DEF RegisterInv, SnapshotsInv
  <2>3. ASSUME NEW i \in Stored(disk) PROVE disk[i].version > 0 /\ disk[i].recv <= now'
    <3>1. disk[i] \in Entry /\ disk[i].version > 0 /\ disk[i].recv <= now
        BY <2>2 DEF Stored, Snapshots, Loads
    <3>2. disk[i].recv \in 0..MaxTime
        BY <3>1, EntryFacts
    <3> QED
        BY <1>1, <3>1, <3>2
  <2>4. Loads(disk)'
      BY <1>2, <2>2, <2>3 DEF Loads, Stored
  <2> QED
      BY <2>1, <2>4 DEF SnapshotsInv
<1>4. (tx = NoTx \/ InFlight)'
    BY <1>1, <1>2 DEF RegisterInv, InFlight
<1>5. RequestsInv'
  <2>1. ASSUME NEW c \in Clients, pc[c] \in {"received", "queued"}
        PROVE  req[c] \in Requests /\ req[c].recv <= now'
    <3>1. req[c] \in Requests /\ req[c].recv <= now
        BY <2>1 DEF RegisterInv, RequestsInv
    <3>2. req[c].recv \in Int
        BY <3>1 DEF Requests
    <3> QED
        BY <1>1, <3>1, <3>2
  <2> QED
      BY <1>2, <2>1 DEF RegisterInv, RequestsInv
<1>6. ClosingInv' /\ DownInv' /\ Follows(disk, disk')
    BY <1>2 DEF RegisterInv, ClosingInv, DownInv, Follows
<1>7. stopping = "stopped" => tx = NoTx
    BY DEF RegisterInv, ClosingInv
<1> QED
    BY <1>1, <1>2, <1>3, <1>4, <1>5, <1>6, <1>7 DEF Kept, RegisterInv

(* The actions that write no snapshot.                                     *)
LEMMA OthersKeep ==
    ASSUME RegisterInv,
           \/ \E c \in Clients : Queue(c) \/ Disconnect(c) \/ \E s \in Submissions : Execute(c, s)
           \/ Acknowledged \/ Unacknowledged
           \/ SweepDue \/ Shutdown \/ ShutdownJoin
           \/ UNCHANGED vars
    PROVE  Kept
<1>1. stopping = "stopped" => tx = NoTx
    BY DEF RegisterInv, ClosingInv
<1>2. ASSUME NEW c \in Clients, Queue(c) PROVE Kept
  <2>1. RequestsInv' /\ ClosingInv' /\ DownInv'
      BY <1>2 DEF RegisterInv, RequestsInv, ClosingInv, DownInv, Queue
  <2> QED
      BY <1>1, <1>2, <2>1, UnmovedFacts DEF Kept, RegisterInv, Queue
<1>3. ASSUME NEW c \in Clients, Disconnect(c) PROVE Kept
  <2>1. RequestsInv' /\ ClosingInv' /\ DownInv'
      BY <1>3 DEF RegisterInv, RequestsInv, ClosingInv, DownInv, Disconnect
  <2> QED
      BY <1>1, <1>3, <2>1, UnmovedFacts DEF Kept, RegisterInv, Disconnect
<1>4. ASSUME NEW c \in Clients, NEW s \in Submissions, Execute(c, s) PROVE Kept
  <2>1. [id |-> s.id, body |-> s.body, recv |-> now] \in Requests /\ now <= now /\ now' = now
      BY <1>4, RegisterAssumption DEF Requests, Digests, RegisterInv, Execute
  <2>2. RequestsInv'
      BY <1>4, <2>1 DEF RegisterInv, RequestsInv, Execute
  <2>3. ClosingInv' /\ DownInv'
      BY <1>4 DEF RegisterInv, ClosingInv, DownInv, Execute
  <2> QED
      BY <1>1, <1>4, <2>2, <2>3, UnmovedFacts DEF Kept, RegisterInv, Execute
<1>5. ASSUME Acknowledged \/ Unacknowledged PROVE Kept
  <2>1. tx # NoTx
      BY <1>5 DEF Acknowledged, Unacknowledged, NoTx
  <2>2. InFlight /\ stopping # "stopped"
      BY <2>1 DEF RegisterInv, ClosingInv
  <2>3. /\ now' = now /\ faults' = faults /\ disk' = disk /\ entries' = entries
        /\ up' = up /\ unavailable' = unavailable /\ stopping' = stopping /\ closed' = closed
        /\ tasks' = tasks /\ req' = req
      BY <1>5 DEF Acknowledged, Unacknowledged
  <2>4. (tx = NoTx \/ InFlight)'
    <3>1. CASE Acknowledged
      <4>1. tx' = [tx EXCEPT !.step = "complete"]
          BY <3>1 DEF Acknowledged
      <4>2. tx'.step = "complete" /\ tx'.id = tx.id /\ tx'.at = tx.at /\ tx'.body = tx.body
          BY <2>2, <4>1
      <4> QED
          BY ONLY <2>2, <2>3, <4>2 DEF InFlight
    <3>2. CASE Unacknowledged
        BY <3>2 DEF Unacknowledged, Ends
    <3> QED
        BY <1>5, <3>1, <3>2
  <2>5. SnapshotsInv' /\ Follows(disk, disk')
      BY <2>3 DEF RegisterInv, SnapshotsInv, Loads, Stored, Follows
  <2>6. RequestsInv' /\ DownInv'
      BY <1>5, <2>3 DEF RegisterInv, RequestsInv, DownInv, Acknowledged, Unacknowledged, Ends
  <2>7. ClosingInv'
      BY <2>2, <2>3 DEF RegisterInv, ClosingInv
  <2>8. now' \in 0..MaxTime /\ faults' \in Nat
      BY <2>3 DEF RegisterInv
  <2> QED
      BY ONLY <2>2, <2>3, <2>4, <2>5, <2>6, <2>7, <2>8 DEF Kept, RegisterInv
<1>6. ASSUME SweepDue PROVE Kept
  <2>1. RequestsInv' /\ ClosingInv' /\ DownInv'
      BY <1>6 DEF RegisterInv, RequestsInv, ClosingInv, DownInv, SweepDue
  <2> QED
      BY <1>1, <1>6, <2>1, UnmovedFacts DEF Kept, RegisterInv, SweepDue
<1>7. ASSUME Shutdown \/ ShutdownJoin PROVE Kept
  <2>1. RequestsInv' /\ ClosingInv' /\ DownInv'
      BY <1>7 DEF RegisterInv, RequestsInv, ClosingInv, DownInv, Shutdown, ShutdownJoin
  <2> QED
      BY <1>1, <1>7, <2>1, UnmovedFacts DEF Kept, RegisterInv, Shutdown, ShutdownJoin
<1>8. ASSUME UNCHANGED vars PROVE Kept
  <2>1. RequestsInv' /\ ClosingInv' /\ DownInv'
      BY <1>8 DEF RegisterInv, RequestsInv, ClosingInv, DownInv, vars, memory
  <2> QED
      BY <1>1, <1>8, <2>1, UnmovedFacts DEF Kept, RegisterInv, vars, memory
<1> QED
    BY <1>2, <1>3, <1>4, <1>5, <1>6, <1>7, <1>8

(* Every step keeps the invariant, and with it versions and the stop.      *)
LEMMA StepKeeps == RegisterInv /\ [Next]_vars => Kept
<1> SUFFICES ASSUME RegisterInv, [Next]_vars PROVE Kept
    OBVIOUS
<1> QED
    BY SubmitKeeps, CompleteKeeps, SweepKeeps, StopKeeps, OpenKeeps, TickKeeps, OthersKeep
    DEF Next, Progress, Outside

(* The invariant gives the three state properties.                         *)
LEMMA InvSuffices == RegisterInv => DecidesFromDurable /\ SendIsOwed /\ SnapshotLoads
<1> SUFFICES ASSUME RegisterInv PROVE DecidesFromDurable /\ SendIsOwed /\ SnapshotLoads
    OBVIOUS
<1>1. DecidesFromDurable /\ SnapshotLoads
    BY DEF RegisterInv, SnapshotsInv, DecidesFromDurable, SnapshotLoads
<1>2. SendIsOwed
  <2> SUFFICES ASSUME tx.step = "send"
               PROVE  disk[tx.id] # NoEntry /\ disk[tx.id].body = tx.body /\ ~disk[tx.id].acked
      BY DEF SendIsOwed
  <2>1. InFlight
      BY DEF RegisterInv, NoTx
  <2>2. entries = disk /\ disk[tx.id] \in Entry
      BY <2>1 DEF RegisterInv, SnapshotsInv, InFlight
  <2>3. disk[tx.id] # NoEntry
      BY <2>2, EntryFacts
  <2> QED
      BY <2>1, <2>2, <2>3 DEF InFlight
<1> QED
    BY <1>1, <1>2

-----------------------------------------------------------------------------
(* Theorems *)

(* The inductive invariant of the register: memory is the snapshot while   *)
(* it is available, and a transaction in flight owns an owed entry.        *)
THEOREM RegisterInvariant == Spec => []RegisterInv
<1>1. RegisterInv /\ [Next]_vars => RegisterInv'
    BY StepKeeps DEF Kept
<1> QED
    BY InitInv, <1>1, PTL DEF Spec

(* transact and sweep decide from a memory that is the durable snapshot.   *)
THEOREM RegisterDecides == Spec => []DecidesFromDurable
    BY RegisterInvariant, InvSuffices, PTL

(* dispatch sends only what snapshot.json records as owed.                 *)
THEOREM RegisterSends == Spec => []SendIsOwed
    BY RegisterInvariant, InvSuffices, PTL

(* open's validate_snapshot accepts whatever a process leaves behind.      *)
THEOREM RegisterLoads == Spec => []SnapshotLoads
    BY RegisterInvariant, InvSuffices, PTL

(* Durable versions are not lost, reused or skipped before they expire.    *)
THEOREM RegisterVersions == Spec => VersionsKept
<1>1. RegisterInv /\ [Next]_vars =>
        [\A i \in Stored(disk) :
            LET old == disk[i]
                new == disk'[i]
            IN  \/ Expired(old, now)
                \/ new = old
                \/ new = [old EXCEPT !.acked = TRUE]
                \/ new.version = old.version + 1 /\ ~new.acked]_vars
    BY StepKeeps, Zenon DEF Kept, Follows
<1> QED
    BY RegisterInvariant, <1>1, PTL DEF Spec, VersionsKept

(* After shutdown has joined, nothing is written and nothing runs.         *)
THEOREM RegisterStops == Spec => StoppedIsFinal
<1>1. RegisterInv /\ [Next]_vars => [up /\ stopping = "stopped" => disk' = disk /\ tx = NoTx]_vars
    BY StepKeeps DEF Kept
<1> QED
    BY RegisterInvariant, <1>1, PTL DEF Spec, StoppedIsFinal

=============================================================================
