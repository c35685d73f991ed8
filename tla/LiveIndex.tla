------------------------------ MODULE LiveIndex -----------------------------
(***************************************************************************)
(* A live-index server whose shard has no other replica                    *)
(* (live_index/index.rs, index_manager.rs,                                 *)
(* entrypoint/live_index/search_server.rs): its write-ahead log            *)
(* (simple-wal), the manager that commits, prunes and compacts segments,   *)
(* set-up after a start, and kills between and inside their writes.        *)
(*                                                                         *)
(* A page is its URL; commits index a URL of the log once, so the log is a *)
(* set.  The manager is one thread and holds InnerIndex where it writes,   *)
(* so each of its jobs is one step, with one more for kills in the middle. *)
(* InnerIndex.meta is meta.json, and has_inserts is wal # {}, when nobody  *)
(* holds it.  `broken` stands for files that no start-up can read: a       *)
(* record of the log or meta.json cut short, or segments that are listed   *)
(* and have no files.  Clients send to servers that are set up             *)
(* (searcher/distributed.rs, LiveIndexService), so wal.temp stays empty.   *)
(***************************************************************************)
EXTENDS Integers, FiniteSets
LOCAL INSTANCE FiniteSetsExt
LOCAL INSTANCE Functions

CONSTANTS
    Ids,            \* pages
    TTL,            \* age at which a segment is pruned
    DayLength,      \* ticks in a day
    MaxSegments     \* bound on segments; ids not in use are used again

VARIABLES
    now,
    ready,      \* the server is up and set up
    wal,        \* the log
    index,      \* index[s]: pages of segment s
    meta,       \* meta[s]: when it was created, as meta.json has it
    broken

Searchable == UNION {index[s] : s \in DOMAIN index}

Free == 1..MaxSegments \ (DOMAIN index \cup DOMAIN meta)

Without(f, keys) == [k \in DOMAIN f \ keys |-> f[k]]
With(f, key, value) == [k \in DOMAIN f \cup {key} |-> IF k = key THEN value ELSE f[k]]

-----------------------------------------------------------------------------
\* IndexWebpages: the log has the page when the request is answered.
Insert(i) ==
    /\ ready
    /\ wal' = wal \cup {i}
    /\ UNCHANGED <<ready, index, meta, broken>>

\* A kill inside batch_write: the header of a record is there without the record.
InsertKilled ==
    /\ ready
    /\ ready' = FALSE /\ broken' = TRUE
    /\ UNCHANGED <<wal, index, meta>>

-----------------------------------------------------------------------------
(* commit: by set-up, with which a start ends, and by the manager *)

Committing == (~ready /\ ~broken) \/ (ready /\ wal # {})

\* index.commit
Indexed == IF wal = {} THEN index ELSE With(index, Min(Free), wal)

\* sync_meta_with_index: segments not known yet are created now.
Synced(segments) ==
    [s \in DOMAIN segments |-> IF s \in DOMAIN meta THEN meta[s] ELSE now]


Commit ==
    /\ Committing /\ Free # {}
    /\ index' = Indexed /\ wal' = {} /\ meta' = Synced(Indexed)
    /\ ready' = TRUE
    /\ UNCHANGED broken


\* Killed before the log is cleared, or before meta.json is written anew.
CommitKilled ==
    /\ Committing /\ Free # {}
    /\ index' = Indexed
    /\ \/ UNCHANGED <<wal, broken>>
       \/ wal' = {} /\ broken' \in BOOLEAN
    /\ ready' = FALSE
    /\ UNCHANGED meta

-----------------------------------------------------------------------------
(* prune_segments *)

Old == {s \in DOMAIN meta : meta[s] + TTL < now}

\* Mutant: meta.json is not brought up to date.
PruneUnsynced ==
    /\ ready /\ Old # {}
    /\ index' = Without(index, Old)
    /\ UNCHANGED <<ready, wal, meta, broken>>

\* Without old segments nothing changes.
Prune ==
    /\ ready /\ Old # {}
    /\ index' = Without(index, Old)
    /\ meta' = Synced(Without(index, Old))
    /\ UNCHANGED <<ready, wal, broken>>

\* delete_segments_by_id removes the files before the list: killed in between,
\* or while meta.json is written, or in between these.
PruneKilled ==
    /\ ready /\ Old # {}
    /\ index' = Without(index, Old)
    /\ broken' \in BOOLEAN
    /\ ready' = FALSE
    /\ UNCHANGED <<wal, meta>>

-----------------------------------------------------------------------------
(* compact_segments_by_date *)

OfDay(day) == {s \in DOMAIN meta : meta[s] \div DayLength = day}

Crowded == {day \in 0..(now \div DayLength) : Cardinality(OfDay(day)) > 1}

\* The new segment of each day whose segments are merged.
Targets(days) == CHOOSE new \in Injection(days, Free) : TRUE

\* The segments there are afterwards, and those that each is made of.
Compacted(new) == (DOMAIN index \ UNION {OfDay(day) : day \in DOMAIN new}) \cup Range(new)
MadeOf(new, s) ==
    IF s \in DOMAIN index THEN {s} ELSE OfDay(CHOOSE day \in DOMAIN new : new[day] = s)

Merged(new) == [s \in Compacted(new) |-> UNION {index[source] : source \in MadeOf(new, s)}]

\* A merge is as old as the youngest segment in it.  Merges that fail are left out.
Compact(new) ==
    /\ ready
    /\ index' = Merged(new)
    /\ meta' = [s \in Compacted(new) |-> Max({meta[source] : source \in MadeOf(new, s)})]
    /\ UNCHANGED <<ready, wal, broken>>

\* Killed before meta.json is written anew.
CompactKilled(new) ==
    /\ ready
    /\ index' = Merged(new)
    /\ broken' \in BOOLEAN
    /\ ready' = FALSE
    /\ UNCHANGED <<wal, meta>>

\* Any of the merges.
Merges == {Targets(days) : days \in {d \in SUBSET Crowded \ {{}} : Cardinality(d) <= Cardinality(Free)}}

-----------------------------------------------------------------------------
\* Pruning and compaction write meta.json even when they change nothing.
Kill ==
    /\ ready
    /\ ready' = FALSE
    /\ broken' \in BOOLEAN
    /\ UNCHANGED <<wal, index, meta>>

LiveInit ==
    /\ ready = FALSE /\ broken = FALSE
    /\ wal = {} /\ index = <<>> /\ meta = <<>>

Manage == Commit \/ Prune \/ \E new \in Merges : Compact(new)

Killed ==
    \/ Kill \/ CommitKilled \/ PruneKilled
    \/ \E new \in Merges : CompactKilled(new)

=============================================================================
